CONSTANTS
  ID = {a}
  NoID = NoID
  MaxConn = 1
  MaxInFlight = 2
  Fragile <- NoConn
  InCap = 1
  MaxTicks = 0
  MaxWrites = 0
  MayCancel = FALSE
  MaxData = 0
  MaxSrvTicks = 0
SPECIFICATION SafetySpec
INVARIANTS AuthComesFirst
CHECK_DEADLOCK FALSE
