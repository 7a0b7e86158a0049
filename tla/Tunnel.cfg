CONSTANTS
  ID = {a}
  NoID = NoID
  MaxConn = 1
  MaxInFlight = 3
  Fragile <- AllConn
  InCap = 1
  MaxTicks = 0
  MaxWrites = 2
  MayCancel = FALSE
  MaxData = 2
  MaxSrvTicks = 0
SPECIFICATION SafetySpec
PROPERTIES CircuitSpec ServerSpec
INVARIANTS QuietAgreement
CHECK_DEADLOCK FALSE
