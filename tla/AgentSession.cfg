CONSTANTS
  ID = {a}
  NoID = NoID
  MaxConn = 1
  MaxInFlight = 1
  Fragile <- AllConn
  InCap = 1
  MaxTicks = 1
  MaxWrites = 1
  MayCancel = TRUE
  EnvTypes = {"auth_resp", "ping", "open_resp", "data", "close"}
  Numbers <- NoNumbers
SPECIFICATION SafetySpec
INVARIANTS TypeOK FailedIsForgotten PendingIsAwaited OpenIsReachable ClosedIsForgotten FailureIsReported
CHECK_DEADLOCK FALSE
