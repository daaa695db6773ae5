SPECIFICATION Spec
CONSTANTS
    MaxRuns = 2
    Commands <- Modes
    Faults <- Accidents
INVARIANTS
    PreviousEnvironmentBack
CHECK_DEADLOCK FALSE
