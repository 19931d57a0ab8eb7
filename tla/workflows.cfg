SPECIFICATION Spec
CONSTANTS
    p1 = p1
    p2 = p2
    Pids <- MCPids
    MaxChanges = 2
    MaxTasks = 2
    MaxCrashes = 1
    MaxFaults = 1
SYMMETRY Symmetry
INVARIANTS  VictimIsCulprit  
PROPERTY AnswerFresh
CHECK_DEADLOCK FALSE
