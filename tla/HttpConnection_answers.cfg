SPECIFICATION FairSpec
CONSTANTS
  Chunk = 2
  Sizes <- MCSizes
  Lengths <- MCLengths
  Extras <- MCExtras
  Quotas <- MCQuotas
  Timeout = 2
INVARIANTS
  HandledWhole
  OneResponse
  NoStaleTimer
PROPERTY Closes
