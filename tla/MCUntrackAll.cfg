SPECIFICATION Spec
CONSTANTS
    NTids = 4
    Workloads = {w1}
    NoWl = NoWl
    ZeroWl = ZeroWl
    MaxDepth = 2
    MaxTick = 2
    Wrap = TRUE
    Threads = FALSE
    MayFail = FALSE
INVARIANT UntrackComplete
