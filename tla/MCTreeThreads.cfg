SPECIFICATION Spec
CONSTANTS
    NTids = 4
    Workloads = {w1}
    NoWl = NoWl
    ZeroWl = ZeroWl
    MaxDepth = 2
    MaxTick = 4
    Wrap = FALSE
    Threads = TRUE
    MayFail = FALSE
INVARIANT TreeCovered
