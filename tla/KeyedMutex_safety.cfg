SPECIFICATION Spec
CONSTANTS
    Calls = {c1, c2, c3, c4}
    Keys = {k1, k2}
    Entries = {e1, e2, e3, e4}
    None = None
SYMMETRY Symmetry
CHECK_DEADLOCK TRUE
INVARIANTS
    TypeOK
    MutualExclusion
    KeysIndependent
    RefsExact
    NoEntryLeaks
PROPERTY
    ImplementsKeyedLock
