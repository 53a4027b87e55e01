SPECIFICATION FairSpec
CONSTANTS
    Calls = {c1, c2, c3}
    Keys = {k1}
    Entries = {e1, e2, e3}
    None = None
PROPERTIES
    LockReturns
    ReleaseCompletes
