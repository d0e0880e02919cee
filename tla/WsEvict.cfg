SPECIFICATION Spec
CONSTANTS
    c1 = c1
    c2 = c2
    c3 = c3
    c4 = c4
    Conns = {c1, c2, c3, c4}
    Http = http
    None = none
    MaxClients = 2
    LongMax = 2
    MaxMsgs = 1
    Msgs = {"close"}
    Ends = {}
    Faults = {"accept", "enomem", "handshake", "thread"}
SYMMETRY ConnSymmetry
CHECK_DEADLOCK FALSE
INVARIANTS
    EvictsOldest
