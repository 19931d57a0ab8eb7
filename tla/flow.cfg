SPECIFICATION Spec
CONSTANTS
    h1 = h1
    h2 = h2
    Handlers = {h1, h2}
    RecoveryDue = FALSE
    RunsFitLease = FALSE
    MaxApprovals = 2
    MaxClaims = 2
    MaxCrashes = 1
    MaxFaults = 1
SYMMETRY MCSymmetry
INVARIANTS FlowInv OutcomeMatches
PROPERTY NoBlindReplay
CHECK_DEADLOCK FALSE
