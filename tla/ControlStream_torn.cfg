SPECIFICATION Spec
CONSTANTS
  BufLen = 3
  MaxPend = 4
  Shortages <- MCShortages
  MaxConn = 2
  MaxTag = 5
INVARIANTS
  StanzaWhole
CHECK_DEADLOCK FALSE
