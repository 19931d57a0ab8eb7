SPECIFICATION Spec
CONSTANTS
    p1 = p1
    p2 = p2
    Payloads = {p1, p2}
    MaxEvents = 3
    MaxFaults = 2
    MaxCrashes = 2
    MaxPowerLosses = 1
INVARIANTS TraceInv AckedKept DeletionDetected
CHECK_DEADLOCK FALSE
