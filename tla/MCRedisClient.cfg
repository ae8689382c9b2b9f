CONSTANTS
    Clients = {c1, c2}
    Conns = {n1}
    Cmds = {"Eval", "Get", "Sort"}
    Timeouts = TRUE
    MaxCmds = 2
SPECIFICATION Spec
SYMMETRY Symmetry
CHECK_DEADLOCK FALSE
INVARIANTS OwnReply IdleIsClean OnlyOwedPanics
