SPECIFICATION Spec
CONSTANTS
    Values = {"a", "A", "b", "x"}
    Names = {"a", "b"}
    Fold <- MCFold
    Bare <- MCBare
    Classes = {"organizationalUnit", "group"}
    Containers <- TreeContainers
    Sams = {"x"}
    DNC <- Root
    DefaultSizeLimit = 2
    MaxSeq = 3
    MaxDepth = 4
CHECK_DEADLOCK FALSE
INVARIANT
    ContainerDerivedFromDN
