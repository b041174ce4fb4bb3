SPECIFICATION Spec
CONSTANTS
    Tasks = {t1, t2}
    Workloads = {w1, w2}
    NoWl = NoWl
    ZeroWl = ZeroWl
    Socks = {s1}
    Peers = {p1}
    NoPeer = NoPeer
    Nobody = Nobody
    Seeder = Seeder
    NoOp = NoOp
    NoIdent = NoIdent
    MaxGen = 0
    MayFail = FALSE
SYMMETRY Symmetry
INVARIANT SeedLeavesStamped
