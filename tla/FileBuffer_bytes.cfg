SPECIFICATION Spec
CONSTANTS
  f1 = f1  f2 = f2  x = x  y = y  g = g
  Fd <- MCFd
  Byte <- TwoBytes
  Garbage = g
  BlockSize = 2
  MaxBlocks = 3
  Data <- MCData
  Quotas <- MCQuotas
  PoolSizes <- GrowingPool
SYMMETRY FdSymmetry
INVARIANT EveryBlockOnce
PROPERTY StreamSpec
