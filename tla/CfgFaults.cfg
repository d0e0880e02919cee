SPECIFICATION Spec
CONSTANTS
    h1 = h1
    h2 = h2
    Handlers = {h1, h2}
    None = none
    MaxWrites = 3
    MaxBoots = 2
    Faults = {"open", "read", "save", "erase"}
SYMMETRY HandlerSymmetry
CHECK_DEADLOCK FALSE
INVARIANTS
    FlashFollows
