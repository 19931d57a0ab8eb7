SPECIFICATION FairSpec
CONSTANTS
    h1 = h1
    h2 = h2
    Handlers = {h1}
    RecoveryDue = FALSE
    RunsFitLease = TRUE
    MaxApprovals = 2
    MaxClaims = 3
    MaxCrashes = 2
    MaxFaults = 0
PROPERTIES Settles
CHECK_DEADLOCK FALSE
