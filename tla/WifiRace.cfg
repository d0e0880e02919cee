SPECIFICATION Spec
CONSTANTS
    t1 = t1
    t2 = t2
    Callers = {t1, t2}
    Ops = {"connect", "update_sta"}
    MaxCalls = 2
    MaxRetry = 0
    Faults = {}
SYMMETRY CallerSymmetry
CHECK_DEADLOCK FALSE
INVARIANTS
    ConnectTried
