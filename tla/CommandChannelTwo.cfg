SPECIFICATION Spec
CONSTANTS
    Emitters = {main, input}
    NoCmd = NoCmd
    NWorkers = 2
    Cmds = {c1, c2}
INVARIANT AllEmit
CHECK_DEADLOCK FALSE
