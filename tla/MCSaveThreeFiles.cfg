\* Two trees of three files or less, two of which share a chunk; one unit of each
\* semaphore and a channel of one, so that three calls compete for two units.
SPECIFICATION FairSpec
CONSTANTS
    top = top  sub = sub  f = f  g = g  h = h  l = l
    Root = top
    Node = {top, sub, f, g, h, l}
    Start = {top}
    Dirs = {top, sub}
    Symlinks = {l}
    Keyed = {f, h}
    Graphs <- Trees
    Content <- TreesContent
    Blob = {"T", "S", "A", "B", "C"}
    Preexisting = {"B"}
    ReadCap = 1  EncryptCap = 1  ChanCap = 1  Parallelism = 3
INVARIANTS SemaphoresBalanced CachesAreRight NoDanglingListing BackupComplete
    RootChannelSound
PROPERTY SaveReturns
