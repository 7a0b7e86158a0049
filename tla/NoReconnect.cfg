CONSTANTS
  ID = {a}
  NoID = NoID
  MaxConn = 1
  MaxInFlight = 2
  Fragile <- NoConn
  InCap = 1
  MaxTicks = 0
  MaxWrites = 1
  MayCancel = FALSE
  MaxData = 1
  MaxSrvTicks = 0
SPECIFICATION Spec
PROPERTIES Reconnects
CHECK_DEADLOCK FALSE
