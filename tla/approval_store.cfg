SPECIFICATION StoreSpec
CONSTANTS
    s1 = s1
    s2 = s2
    e1 = e1
    e2 = e2
    a1 = a1
    b1 = b1
    b2 = b2
    ApprovalIDs = {a1}
    Bindings = {b1, b2}
    ServerReqs = {s1, s2}
    ExecReqs = {e1, e2}
    TTLs = {1, 2}
    MaxTime = 3
SYMMETRY MCSymmetry
INVARIANTS StoreInv SingleConsumption
PROPERTIES NoResurrection ImplementsLedger
