SPECIFICATION HSpec
CONSTANTS
    NTids = 3
    Workloads = {w1, w2}
    NoWl = NoWl
    ZeroWl = ZeroWl
    MaxDepth = 2
    MaxTick = 4
    Wrap = TRUE
    Threads = TRUE
    MayFail = TRUE
INVARIANT HTypeOK
INVARIANT CtxIdentity
INVARIANT OnlyKin
INVARIANT UntrackDrops
