SPECIFICATION Spec
CONSTANTS
    Files = {f1}
    NoFile = NoFile
    Slots = {s1}
    Cpus = {c1, c2}
    NoOp = NoOp
    MaxLog = 9
SYMMETRY Symmetry
INVARIANT LoggedAtMostTwice
