SPECIFICATION Spec
CONSTANTS
    q1 = q1
    q2 = q2
    Ids = {q1, q2}
    MaxFiles = 3
    MaxFaults = 2
    MaxCrashes = 2
SYMMETRY MCSymmetry
INVARIANTS QuarantineInv ReportedIsRestorable
CHECK_DEADLOCK FALSE
