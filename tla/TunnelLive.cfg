CONSTANTS
  ID = {a}
  NoID = NoID
  MaxConn = 1
  MaxInFlight = 1
  Fragile <- AllConn
  InCap = 1
  MaxTicks = 0
  MaxWrites = 0
  MayCancel = FALSE
  MaxData = 3
  MaxSrvTicks = 0
SPECIFICATION Spec
PROPERTIES AgentSpec TargetReleased ClientLearns OpenReturns PipeFinishes HandlerFinishes
CHECK_DEADLOCK FALSE
