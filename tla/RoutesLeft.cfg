CONSTANTS
  MaxRuns = 1
  MaxRoutes = 1
SPECIFICATION SafetySpec
INVARIANTS ExitCleansUp
CHECK_DEADLOCK FALSE
