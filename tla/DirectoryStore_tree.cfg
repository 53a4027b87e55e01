SPECIFICATION Spec
CONSTANTS
    Values = {"a", "A", "b", "x"}
    Names = {"a", "A", "b"}
    Fold <- MCFold
    Bare <- MCBare
    Classes = {"organizationalUnit", "group"}
    Containers <- TreeContainers
    Sams = {"x"}
    DNC <- Root
    DefaultSizeLimit = 2
    MaxSeq = 3
    MaxDepth = 4
CHECK_DEADLOCK FALSE
INVARIANTS
    TypeOK
    IndexConsistent
    OneEntryPerObject
    SearchesSeeTheTree
PROPERTIES
    NothingVanishes
    MoveCarriesSubtree
    ChildrenNeverOrphaned
