\* gc on the verify log, nothing else running, the state file left alone.
SPECIFICATION Spec
CONSTANTS
    p = p  q = q
    Blob = {"T1", "T2", "A", "B"}
    Tree = {"T1", "T2"}
    Files <- TwoTrees
    Process = {p}
    GcInput = "log"  Overlap = FALSE  ForgetState = FALSE
INVARIANT ExistingScoresExist
