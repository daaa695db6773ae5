SPECIFICATION Spec
CONSTANTS
    MaxRuns = 4
    Commands <- AllCommands
    Faults <- Accidents
INVARIANTS
    TypeOK
    EnvironmentRestored
    ServiceUpAgain
    TogetherAgain
PROPERTIES
    PinRecoverable
CHECK_DEADLOCK FALSE
