SPECIFICATION Spec
CONSTANTS
    Values = {"a", "A", "b", "x"}
    Names = {"a", "b"}
    Fold <- MCFold
    Bare <- MCBare
    Classes = {"organizationalUnit", "group"}
    Containers <- SpacedContainers
    Sams = {"x"}
    DNC <- Root
    DefaultSizeLimit = 2
    MaxSeq = 3
    MaxDepth = 4
CHECK_DEADLOCK FALSE
PROPERTY
    ChildrenNeverOrphaned
