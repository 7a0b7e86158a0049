CONSTANTS
  MaxRuns = 2
  MaxRoutes = 2
SPECIFICATION Spec
INVARIANTS TypeOK OneKnownRun StopReachesRun RoutesRemoved RoutesInPlace
PROPERTIES StopReleasesAll
CHECK_DEADLOCK FALSE
