SPECIFICATION Spec
CONSTANTS
    MaxFrameLength = 7
    Word = 16
    MaxControl = 125
    IdSize = 4
    Lengths = {0, 4, 14}
    ControlLengths = {1, 2, 4, 126}
    Codes = {999, 1000, 1005}
    Ids <- IdsSmall
    MaxFrames = 4
    MaxPings = 1
CHECK_DEADLOCK FALSE
INVARIANTS
    TypeOK
    MessagesWhole
    NothingSkipped
    PingsAnswered
    CloseIsLast
    BuffersReturned
