SPECIFICATION FairSpec
CONSTANTS
    t1 = t1
    Callers = {t1}
    Ops = {"connect", "disconnect", "update_sta", "ap_start", "ap_stop", "scan"}
    MaxCalls = 2
    MaxRetry = 1
    Faults = {"get", "config", "start"}
CHECK_DEADLOCK FALSE
INVARIANTS
    TypeOK
    ConnectedFollows
    StartedIsSound
    ConnectTried
PROPERTIES
    Reconnects
