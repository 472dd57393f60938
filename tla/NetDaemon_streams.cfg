SPECIFICATION FairSpec
CONSTANTS
  s1 = s1  s2 = s2  v1 = v1  NoObj = NoObj
  Stream <- TwoStreams
  Server <- NoServer
  MaxFd = 2
  MaxOpen = 3
  MaxPending = 2
  EarlyPut = FALSE
INVARIANTS
  NoGhost
  StaysArmed
  NoStaleBytes
PROPERTY DataMoves
