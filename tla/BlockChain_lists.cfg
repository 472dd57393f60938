SPECIFICATION Spec
CONSTANTS
  f1 = f1  f2 = f2  x = x  y = y  g = g  NoFd = NoFd
  Fd <- MCFd
  Byte <- TwoBytes
  Garbage = g
  BlockSize = 2
  MaxBlocks = 3
  Data <- MCData
  Quotas <- MCQuotas
  PoolSizes <- GrowingPool
INVARIANT ListsSound
PROPERTY ListsSpec
SYMMETRY FdSymmetry
