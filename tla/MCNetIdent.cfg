SPECIFICATION Spec
CONSTANTS
    Tasks = {t1, t2}
    Workloads = {w1}
    NoWl = NoWl
    ZeroWl = ZeroWl
    Socks = {s1}
    Peers = {p1, p2}
    NoPeer = NoPeer
    Nobody = Nobody
    Seeder = Seeder
    NoOp = NoOp
    NoIdent = NoIdent
    MaxGen = 1
    MayFail = TRUE
SYMMETRY Symmetry
INVARIANT TypeOK
INVARIANT IdentHonest
INVARIANT Attributed
INVARIANT TupleFresh
PROPERTY FirstWins
