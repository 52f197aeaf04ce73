\* Two saves at a time; and, when nothing else runs, gc on the verify log, with the
\* state file removed.
SPECIFICATION Spec
CONSTANTS
    p = p  q = q
    Blob = {"T1", "T2", "A"}
    Tree = {"T1", "T2"}
    Files <- SharedFile
    Process = {p, q}
    GcInput = "log"  Overlap = FALSE  ForgetState = TRUE
SYMMETRY Processes
INVARIANTS RecordedBackupsIntact ExistingScoresExist StateFileIsTrue
