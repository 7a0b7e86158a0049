CONSTANTS
  InCap = 2
  SockCap = 2
  MaxSaid = 2
  MaxPushed = 3
SPECIFICATION Spec
INVARIANTS TypeOK AnswerIsWhole
PROPERTIES RelaySpec AllEnd
CHECK_DEADLOCK FALSE
