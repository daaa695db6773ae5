SPECIFICATION Spec
CONSTANTS
    MaxRuns = 3
    Commands <- Modes
    Faults <- Accidents
INVARIANTS
    SettingsPreserved
CHECK_DEADLOCK FALSE
