SPECIFICATION Spec
CONSTANTS
    s1 = s1
    e1 = e1
    e2 = e2
    a1 = a1
    b1 = b1
    ApprovalIDs = {a1}
    Bindings = {b1}
    ServerReqs = {s1}
    ExecReqs = {e1, e2}
    TTLs = {2}
    MaxTime = 3
    EnvelopeTTL = 2
    MaxTTL = 3
    MaxTarget = 2
SYMMETRY MCSymmetry
INVARIANTS ExecInv AtMostOneEffect
