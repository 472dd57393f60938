SPECIFICATION Spec
CONSTANTS
  s1 = s1  s2 = s2  v1 = v1  NoObj = NoObj
  Stream <- OneStream
  Server <- OneServer
  MaxFd = 2
  MaxOpen = 3
  MaxPending = 1
  EarlyPut = TRUE
INVARIANTS
  CountRight
  RefsRight
  NoOrphan
