CONSTANTS
    Node = {"a", "d", "f"}
    Dir = {"a", "d"}
    Children <- ChildrenOf
    Roots = {"a"}
    Capacity = 1
    CutPoints = {"torn", "unterminated"}
    MaxRuns = 3
    MaxLost = 1
SPECIFICATION FairSpec
INVARIANTS SuccessMeansIntact LogIsTruthful LogCoversBackups
PROPERTY VerifyReturns
