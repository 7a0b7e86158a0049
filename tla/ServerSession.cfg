CONSTANTS
  ID = {a, b}
  NoID = NoID
  MaxConn = 1
  MaxInFlight = 1
  Fragile <- AllConn
  MaxData = 1
  MaxSrvTicks = 1
  AgentNumbers <- NoNumbers
SPECIFICATION SafetySpec
INVARIANTS TypeOK SocketRegistered EntryHasPipe NothingLeftOpen
SYMMETRY Symmetry
CHECK_DEADLOCK FALSE
