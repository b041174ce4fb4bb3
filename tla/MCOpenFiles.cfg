SPECIFICATION Spec
CONSTANTS
    Files = {f1, f2}
    NoFile = NoFile
    Slots = {s1}
    Cpus = {c1, c2}
    NoOp = NoOp
    MaxLog = 4
SYMMETRY Symmetry
INVARIANT TypeOK
INVARIANT NoSilentVerb
INVARIANT EntryOfThisOpen
INVARIANT PresetNeverLogged
