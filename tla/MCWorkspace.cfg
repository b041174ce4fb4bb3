SPECIFICATION Spec
CONSTANTS
    Cpus = {c1, c2, c3}
    Ids = {i1, i2}
    NoId = NoId
    Slots = {s1, s2}
    Paths <- MCPaths
    NoOp = NoOp
SYMMETRY Symmetry
INVARIANT TypeOK
INVARIANT WsNarrow
PROPERTY ImplementsOnce
