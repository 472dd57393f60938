SPECIFICATION FairSpec
CONSTANTS
  MaxPid = 2
  MaxProcess = 3
  MaxWatch = 2
  ReuseInPass = FALSE
INVARIANTS
  ToldRight
  NeverForgotten
PROPERTY Told
