SPECIFICATION Spec
CONSTANTS
    Bytes <- MCBytes
    TypeBytes <- MCTypeBytes
    Openings <- MCOpenings
    Names <- MCNames
    Samples <- MCSamples
CHECK_DEADLOCK FALSE
INVARIANTS
    TypeOK
    RoundTrip
    NamesNeverReparent
    EqualityIgnoresOrder
    ScopeIsTree
    FilterIsLiteral
