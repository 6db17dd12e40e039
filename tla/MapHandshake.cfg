SPECIFICATION FairSpec
CONSTANTS
    Expr = {"e", "h"}
    Default = "e"
    Past = {"h"}
    CanRename = TRUE
    LinkBusy = FALSE
    MaxCalls = 2
    MaxLost = 1
    MaxRestart = 1
INVARIANTS TypeOK Together LinkUsable
PROPERTY Settles
CHECK_DEADLOCK FALSE
