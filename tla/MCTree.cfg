SPECIFICATION TreeSpec
CONSTANTS
    NTids = 4
    Workloads = {w1}
    NoWl = NoWl
    ZeroWl = ZeroWl
    MaxDepth = 2
    MaxTick = 3
    Wrap = FALSE
    Threads = FALSE
    MayFail = FALSE
INVARIANT TypeOK
INVARIANT TreeCovered
PROPERTY Served
