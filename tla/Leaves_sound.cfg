SPECIFICATION Spec
CONSTANTS
  k1 = k1  k2 = k2  k3 = k3  k4 = k4  x = x  y = y  p1 = p1  p2 = p2
  Key <- MCKey
  Value <- MCValue
  NoValue = NoValue
  Capacity = 3
  Hash <- MCHash
  LastMayDangle = FALSE
  ZeroedHeap = TRUE
  Variable <- MCVariable
  MaxObject = 3
  SourceMayDie = FALSE
  Name <- MCName
  Path <- MCPath
  MaxTag = 5
  MaxRoot = 2
  MaxText = 1
  Community <- MCCommunity
  RequestID <- MCRequestID
  Oid <- MCOid
  SnmpValue <- MCSnmpValue
  Above = 170
  MaxOid = 2
  FieldName <- MCFieldName
  FieldValue <- MCFieldValue
  MaxField = 2
  Pattern <- MCPattern
  RequestPath <- MCRequestPath
  MaxRoute = 4
  MaxEvents = 5
  MaxCalls = 3
  EmptyAfterFailure = FALSE
VIEW MCView
INVARIANTS
  CellsAccounted
  TagsFound
  SnmpUnderstood
  FormsArrive
  RequestsRouted
  DocumentsParsed
  StatementOnce
PROPERTY ContainersRight
