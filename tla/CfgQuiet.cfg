SPECIFICATION QuietSpec
CONSTANTS
    h1 = h1
    h2 = h2
    Handlers = {h1, h2}
    None = none
    MaxWrites = 4
    MaxBoots = 2
    Faults = {"erase"}
SYMMETRY HandlerSymmetry
CHECK_DEADLOCK FALSE
INVARIANTS
    TypeOK
    AckedDurable
    LoginPossible
    ResetClears
