SPECIFICATION FairSpec
CONSTANTS
  BufLen = 3
  MaxPend = 5
  Shortages <- MCShortages
  MaxConn = 2
  MaxTag = 5
INVARIANTS
  WellFormed
  StanzaWholeUnlessTorn
  DepthRight
PROPERTY Leaves
CHECK_DEADLOCK FALSE
