SPECIFICATION SerialSpec
CONSTANTS
    c1 = c1
    c2 = c2
    NBits = 3
    Main = main
    Callers = {c1, c2}
CHECK_DEADLOCK FALSE
INVARIANTS
    RelaysFollow
    ClientsFollow
PROPERTY
    OnlyWhole
