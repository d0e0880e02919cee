SPECIFICATION FairSpec
CONSTANTS
    Right = right
    Wrong = wrong
    None = none
    Stored = {right, none}
    MaxCalls = 2
    MaxLosses = 1
    MaxCasts = 1
CHECK_DEADLOCK FALSE
INVARIANTS
    TypeOK
    OneConnection
    OwnReply
    LoginView
    RememberedRight
PROPERTIES
    Settles
    Reconnects
