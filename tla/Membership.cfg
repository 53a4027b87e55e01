SPECIFICATION FairSpec
CONSTANTS
    DNs = {a, b, c}
    MaxSeq = 3
    Lists <- MCLists
CHECK_DEADLOCK FALSE
INVARIANTS
    TypeOK
    MembersAreAdded
    EditsApplyAPrefix
    WalkFindsEachOnce
    WalkDepthBounded
PROPERTIES
    CallsReturn
