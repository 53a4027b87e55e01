SPECIFICATION Spec
CONSTANTS
    Calls = {c1, c2}
    DNs = {d}
    MaxSeq = 2
    ACEs <- MCACEs
    Lists <- MCLists
    Lower <- MCLower
    None = None
SYMMETRY Symmetry
INVARIANTS
    TypeOK
    NoDuplicateEntries
    NoCircularWait
PROPERTIES
    ImplementsAtomicACL
