CONSTANTS
    Node = {"a", "d", "f"}
    Dir = {"a", "d"}
    Children <- ChildrenOf
    Roots = {"a"}
    Capacity = 1
    CutPoints = {"torn", "space"}
    MaxRuns = 3
    MaxLost = 1
SPECIFICATION Spec
INVARIANTS SuccessMeansIntact
