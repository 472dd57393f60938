SPECIFICATION FairSpec
CONSTANTS
  q1 = q1  q2 = q2
  Query <- MCQuery
  Sends = 2
  Interval = 2
  Delays <- MCDelays
  MaxApp = 1
  MaxSubmit = 2
  MaxTimer = 9
  MaxTime = 4
  Start = 0
  IntLimit = 16
INVARIANTS
  CalledOnce
  Watched
PROPERTIES
  CalledOrRemoved
  Answered
