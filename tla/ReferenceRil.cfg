SPECIFICATION Spec
CONSTANTS
    MaxOpens = 2
    Scenarios <- MCScenarios
INVARIANTS
    ClosedMeansUnavailable
    EveryChangeReported
    CompletedOnce
PROPERTIES
    Reopened
    AvailableWhenOpen
    CallsConverge
CHECK_DEADLOCK FALSE
