SPECIFICATION Spec
CONSTANTS
    DNs = {d, e}
    MaxSeq = 2
    Passwords = {p, q}
    Empty = Empty
    MaxRotations = 2
    PrincipalLists <- MCPrincipals
    Intervals = {7}
INVARIANTS
    RuleSeven
