CONSTANTS
  MaxCalls = 2
  MaxCrashes = 2
SPECIFICATION Spec
INVARIANTS TypeOK SealedIsReadable SettingsKept RunIsCurrent
CHECK_DEADLOCK FALSE
