\* gc, one blob of three in use, and delete_garbage.
CONSTANTS
    Object = {"x", "y", "z"}
    InUse = {"x"}
    Pipeline <- Pipelines
SPECIFICATION FairSpec
INVARIANTS OnlyCopiedGarbageDeleted SuccessMeansAll
PROPERTIES MovesAsInBackups CommandReturns
\* A chain that is stuck is what CommandReturns looks for.
CHECK_DEADLOCK FALSE
