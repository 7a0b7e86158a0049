CONSTANTS
  ID = {a}
  NoID = NoID
  MaxConn = 2
  MaxInFlight = 3
  Fragile <- FirstConn
  InCap = 1
  MaxTicks = 1
  MaxWrites = 0
  MayCancel = FALSE
  MaxData = 0
  MaxSrvTicks = 0
SPECIFICATION SafetySpec
INVARIANTS QuietAgreement NoLostOpen
CHECK_DEADLOCK FALSE
