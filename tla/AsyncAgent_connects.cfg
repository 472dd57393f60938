SPECIFICATION FairSpec
CONSTANTS
  a1 = a1  a2 = a2
  Agent <- TwoAgents
  MaxSocket = 6
  MaxStart = 3
  SubmitMayFail = FALSE
INVARIANTS
  FlagIsTimer
  OwnSocket
  WokenOnce
  ToldTruth
  NoSocketLeak
PROPERTY Connects
