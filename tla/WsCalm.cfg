SPECIFICATION CalmSpec
CONSTANTS
    c1 = c1
    c2 = c2
    Conns = {c1, c2}
    Http = http
    None = none
    MaxClients = 2
    LongMax = 100
    MaxMsgs = 2
    Msgs = {"login", "logout", "secure", "set", "restart", "ping", "close", "bad"}
    Ends = {"gone", "lost"}
    Faults = {"accept", "handshake", "nomem", "stall", "thread"}
SYMMETRY ConnSymmetry
CHECK_DEADLOCK FALSE
INVARIANTS
    TypeOK
    OneThreadPerSlot
    OwnSocket
    NoLeak
    LoginOwned
    HandshakeFirst
    CastTarget
    MissedOnlyAfterFailure
PROPERTIES
    ImplementsTable
