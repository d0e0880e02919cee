SPECIFICATION Spec
CONSTANTS
    c1 = c1
    c2 = c2
    Conns = {c1, c2}
    Http = http
    None = none
    MaxClients = 1
    LongMax = 100
    MaxMsgs = 0
    Msgs = {"set"}
    Ends = {"gone", "lost"}
    Faults = {}
CHECK_DEADLOCK FALSE
INVARIANTS
    OnCloseMeansDisconnected
