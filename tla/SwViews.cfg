SPECIFICATION Spec
CONSTANTS
    Clients = {gtk, web}
    Terminal = terminal
    Switch = {1, 2}
    Known = {web}
    Saved = {{1}}
    MaxChanges = 2
    MaxDrops = 1
CHECK_DEADLOCK FALSE
INVARIANTS
    ViewTrue
PROPERTIES
    ClickIsOne
