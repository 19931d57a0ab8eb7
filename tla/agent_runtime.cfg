SPECIFICATION Spec
CONSTANTS
    Tools <- MCTools
    Requests <- MCRequests
    Paths <- MCPaths
    Selections <- MCSelections
    Targets <- MCTargets
    MaxIterations = 3
    MaxToolCalls = 2
    MaxReplans = 1
    MaxNoProgressRepeats = 1
    TaskTimeout = 3
    FinalizationReserve = 1
    LeaseTTL = 2
    MaxCrashes = 1
    MaxFaults = 1
INVARIANTS RuntimeInv  OutcomeGrounded
PROPERTY RunEnds
CHECK_DEADLOCK FALSE
