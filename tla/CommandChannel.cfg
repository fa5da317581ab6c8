SPECIFICATION Spec
CONSTANTS
    Emitters = {main}
    NoCmd = NoCmd
    NWorkers = 3
    Cmds = {c1, c2, c3}
INVARIANTS
    OwnReplies
PROPERTIES
    RefinesBroadcast
CHECK_DEADLOCK FALSE
