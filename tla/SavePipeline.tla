---------------------------- MODULE SavePipeline ----------------------------
(***************************************************************************)
(* internal/save.Save: a walk of the file system (dag.Visit, through its   *)
(* contract DagTraversal) whose Visit calls run concurrently through two   *)
(* semaphores and the stack of blob stores built by newBlobStore,          *)
(*                                                                         *)
(*   acquire encrypt -> release read -> encrypt -> check ->                *)
(*     existing scores -> release encrypt -> GCS,                          *)
(*                                                                         *)
(* and send the finished nodes to findRootScore over a channel.            *)
(*                                                                         *)
(* A blob stands for the encrypted blob and for its score.  Encryption is  *)
(* deterministic (AES-SIV), so equal contents have equal scores.           *)
(***************************************************************************)
EXTENDS Dag, FiniteSets

CONSTANTS
    Root,          \* the node with the empty relative path
    Dirs,          \* the directories
    Blob,          \* encrypted blobs, or their scores
    Content,       \* the blobs of each node: its chunks, or its listing
    Symlinks,      \* the symlinks; the other nodes outside Dirs are files
    Keyed,         \* the files modified more than five minutes ago
    Preexisting,   \* the blobs in the bucket when the save begins
    ReadCap,       \* capacity of readFromDiskSem
    EncryptCap,    \* capacity of encryptAndComputeScoresSem
    ChanCap,       \* capacity of processedNodes
    Parallelism    \* visitorParallelism

BlobsOf(n) == {Content[n][i] : i \in DOMAIN Content[n]}

\* The blobs of the whole tree below n.
TreeBlobs(g, n) ==
    UNION {BlobsOf(m) : m \in {x \in Node : \A S \in SUBSET Node :
                                              n \in S /\ Closed(g, S) => x \in S}}

\* No listing is in B without everything below it.
Intact(g, B) == \A n \in Dirs : BlobsOf(n) \subseteq B => TreeBlobs(g, n) \subseteq B

ASSUME ContentAssumption ==
    /\ Root \in Dirs /\ Start = {Root}
    /\ Dirs \subseteq Node /\ Symlinks \subseteq Node \ Dirs
    /\ Keyed \subseteq Node \ (Dirs \cup Symlinks)
    /\ Content \in [Node -> Seq(Blob)]
    /\ \A n \in Dirs : Len(Content[n]) = 1
    /\ \A n \in Symlinks : Content[n] = << >>
    /\ Preexisting \subseteq Blob
    /\ \A g \in Graphs : Intact(g, Preexisting)
\* A listing is no file's chunk (the magic byte of repr.MarshalDir), and it names
\* the scores of everything directly below: equal listings have equal trees.
ASSUME ListingAssumption ==
    \A n \in Dirs, m \in Node :
        Content[n][1] \in BlobsOf(m) =>
            m \in Dirs /\ \A g \in Graphs : TreeBlobs(g, m) = TreeBlobs(g, n)
ASSUME CapAssumption ==
    /\ ReadCap \in Nat \ {0} /\ EncryptCap \in Nat \ {0}
    /\ ChanCap \in Nat \ {0} /\ Parallelism \in Nat \ {0}

VARIABLES
    graph, phase, outcome,   \* the walk, as in DagTraversal
    pc,                \* where the Visit call of each node is
    chunk,             \* the index of the chunk the call is saving
    readSem,           \* units of readFromDiskSem in use
    encryptSem,        \* units of encryptAndComputeScoresSem in use
    existingScores,    \* the set shared by all calls of existingScoresStore
    scoreMap,          \* the files whose scores the score map knows
    bucket,            \* the blobs in GCS
    processedNodes,    \* the channel to findRootScore
    closed,            \* has it been closed?
    finder,            \* findRootScore
    groupErr,          \* the first error Save's errgroup has seen
    joined,            \* the errgroup's goroutines that have returned
    ctx,               \* the context of the Visit calls
    result             \* what Save returned

walkVars == <<graph, phase, outcome>>
storeVars == <<existingScores, scoreMap, bucket>>
semVars == <<readSem, encryptSem>>
groupVars == <<finder, groupErr, joined, result>>
chanVars == <<processedNodes, closed>>
vars == <<walkVars, pc, chunk, semVars, storeVars, chanVars, groupVars, ctx>>

Walk == INSTANCE DagTraversal

PCs == {"out",            \* not in a Visit call
        "acquireRead",    \* waiting for readFromDiskSem
        "read",           \* holds it: reading a chunk, or marshalling a listing
        "acquireEncrypt", \* waiting for encryptAndComputeScoresSem as well
        "releaseRead",    \* holds both
        "encrypt",        \* holds the second only
        "create",         \* in CreateObject, holding neither
        "add",            \* the object exists, existingScores not yet told
        "send"}           \* waiting for room in processedNodes

\* The parallelism of dag.Visit bounds the calls in progress; the context is
\* cancelled by the first failure in either errgroup or by Save's caller.
Init ==
    /\ Walk!Init
    /\ pc = [n \in Node |-> "out"]
    /\ chunk = [n \in Node |-> 1]
    /\ readSem = 0 /\ encryptSem = 0
    /\ existingScores \in SUBSET Preexisting
    /\ scoreMap \in SUBSET {n \in Keyed : BlobsOf(n) \subseteq Preexisting}
    /\ bucket = Preexisting
    /\ processedNodes = << >> /\ closed = FALSE
    /\ finder = "searching"
    /\ groupErr = "none" /\ joined = {}
    /\ ctx = "live" /\ result = "running"

Goto(n, where) == pc' = [pc EXCEPT ![n] = where]

\* The Visit call for n returns an error.
Fail(n) ==
    /\ Walk!FailCall(n) /\ Goto(n, "out")
    /\ UNCHANGED <<chunk, chanVars, groupVars, ctx>>

------------------------------------------------------------------------------
(* The walk                                                                *)

StartFind(n) ==
    /\ Walk!StartFind(n)
    /\ UNCHANGED <<pc, chunk, semVars, storeVars, chanVars, groupVars, ctx>>

EndFind(n) ==
    /\ Walk!EndFind(n)
    /\ UNCHANGED <<pc, chunk, semVars, storeVars, chanVars, groupVars, ctx>>

\* Reading the directory or the symlink failed.
FailFind(n) ==
    /\ phase[n] = "finding" /\ Fail(n)
    /\ UNCHANGED <<semVars, storeVars>>

\* Mutant: a file with a key is taken to be in the score map.
NothingToSaveKeyed(n) == n \in Symlinks \cup Keyed

\* Visit and setScores: a symlink, or a file the score map answers for, has
\* nothing to save.
NothingToSave(n) == n \in Symlinks \cup scoreMap

StartVisit(n) ==
    /\ Cardinality({m \in Node : phase[m] = "visiting"}) < Parallelism
    /\ Walk!StartVisit(n)
    /\ Goto(n, IF NothingToSave(n) THEN "send" ELSE "acquireRead")
    /\ UNCHANGED <<chunk, semVars, storeVars, chanVars, groupVars, ctx>>

------------------------------------------------------------------------------
(* saveFileChunk and saveDir, through the stack of blob stores             *)

AcquireRead(n) ==
    /\ pc[n] = "acquireRead" /\ readSem < ReadCap
    /\ readSem' = readSem + 1
    /\ Goto(n, "read")
    /\ UNCHANGED <<walkVars, chunk, encryptSem, storeVars, chanVars, groupVars, ctx>>

AcquireReadCancelled(n) ==
    /\ pc[n] = "acquireRead" /\ ctx = "cancelled"
    /\ Fail(n) /\ UNCHANGED <<semVars, storeVars>>

\* A listing, or a further chunk of the file, is in memory.
Read(n) ==
    /\ pc[n] = "read" /\ chunk[n] <= Len(Content[n])
    /\ Goto(n, "acquireEncrypt")
    /\ UNCHANGED <<walkVars, chunk, semVars, storeVars, chanVars, groupVars, ctx>>

\* io.EOF: the deferred release runs, and the score map learns the scores of
\* a file that has a key.
ReadEOF(n) ==
    /\ pc[n] = "read" /\ chunk[n] > Len(Content[n])
    /\ readSem' = readSem - 1
    /\ scoreMap' = scoreMap \cup ({n} \cap Keyed)
    /\ Goto(n, "send")
    /\ UNCHANGED <<walkVars, chunk, encryptSem, existingScores, bucket, chanVars,
                   groupVars, ctx>>

ReadFails(n) ==
    /\ pc[n] = "read"
    /\ readSem' = readSem - 1
    /\ Fail(n) /\ UNCHANGED <<encryptSem, storeVars>>

AcquireEncrypt(n) ==
    /\ pc[n] = "acquireEncrypt" /\ encryptSem < EncryptCap
    /\ encryptSem' = encryptSem + 1
    /\ Goto(n, "releaseRead")
    /\ UNCHANGED <<walkVars, chunk, readSem, storeVars, chanVars, groupVars, ctx>>

\* The blob store was not reached, so the caller's deferred release runs.
AcquireEncryptCancelled(n) ==
    /\ pc[n] = "acquireEncrypt" /\ ctx = "cancelled"
    /\ readSem' = readSem - 1
    /\ Fail(n) /\ UNCHANGED <<encryptSem, storeVars>>

ReleaseRead(n) ==
    /\ pc[n] = "releaseRead"
    /\ readSem' = readSem - 1
    /\ Goto(n, "encrypt")
    /\ UNCHANGED <<walkVars, chunk, encryptSem, storeVars, chanVars, groupVars, ctx>>

\* The call has the score of its chunk: a directory is done, a file goes on
\* with its next chunk.
ChunkSaved(n) ==
    IF n \in Dirs THEN Goto(n, "send") /\ UNCHANGED chunk
    ELSE Goto(n, "acquireRead") /\ chunk' = [chunk EXCEPT ![n] = @ + 1]

\* Mutant: the acquiring store's deferred release is missing.
AlreadyThereLeaking(n) ==
    /\ pc[n] = "encrypt" /\ Content[n][chunk[n]] \in existingScores
    /\ ChunkSaved(n)
    /\ UNCHANGED <<walkVars, semVars, storeVars, chanVars, groupVars, ctx>>

\* existingScoresStore knows the score: nothing below is called, so the
\* acquiring store releases its semaphore on the way out.
AlreadyThere(n) ==
    /\ pc[n] = "encrypt" /\ Content[n][chunk[n]] \in existingScores
    /\ encryptSem' = encryptSem - 1
    /\ ChunkSaved(n)
    /\ UNCHANGED <<walkVars, readSem, storeVars, chanVars, groupVars, ctx>>

\* Mutant: the score is remembered before the object exists.
PassOnAdding(n) ==
    /\ pc[n] = "encrypt" /\ Content[n][chunk[n]] \notin existingScores
    /\ encryptSem' = encryptSem - 1
    /\ existingScores' = existingScores \cup {Content[n][chunk[n]]}
    /\ Goto(n, "create")
    /\ UNCHANGED <<walkVars, chunk, readSem, scoreMap, bucket, chanVars, groupVars, ctx>>

\* It does not: the semaphore is released before the network is used.
PassOn(n) ==
    /\ pc[n] = "encrypt" /\ Content[n][chunk[n]] \notin existingScores
    /\ encryptSem' = encryptSem - 1
    /\ Goto(n, "create")
    /\ UNCHANGED <<walkVars, chunk, readSem, storeVars, chanVars, groupVars, ctx>>

EncryptFails(n) ==
    /\ pc[n] = "encrypt"
    /\ encryptSem' = encryptSem - 1
    /\ Fail(n) /\ UNCHANGED <<readSem, storeVars>>

CreateObject(n) ==
    /\ pc[n] = "create"
    /\ bucket' = bucket \cup {Content[n][chunk[n]]}
    /\ Goto(n, "add")
    /\ UNCHANGED <<walkVars, chunk, semVars, existingScores, scoreMap, chanVars, groupVars,
                   ctx>>

\* Mutant: the error of CreateObject is dropped on the way up.
CreateFailsSilently(n) ==
    /\ pc[n] = "create"
    /\ ChunkSaved(n)
    /\ UNCHANGED <<walkVars, semVars, storeVars, chanVars, groupVars, ctx>>

\* The request failed, or its answer was lost after it took effect.
CreateFails(n) ==
    /\ pc[n] = "create"
    /\ bucket' \in {bucket, bucket \cup {Content[n][chunk[n]]}}
    /\ Fail(n) /\ UNCHANGED <<semVars, existingScores, scoreMap>>

AddScore(n) ==
    /\ pc[n] = "add"
    /\ existingScores' = existingScores \cup {Content[n][chunk[n]]}
    /\ ChunkSaved(n)
    /\ UNCHANGED <<walkVars, semVars, scoreMap, bucket, chanVars, groupVars, ctx>>

\* The end of Visit: the node goes to findRootScore.
Send(n) ==
    /\ pc[n] = "send" /\ Len(processedNodes) < ChanCap
    /\ processedNodes' = Append(processedNodes, n)
    /\ Walk!EndVisit(n) /\ Goto(n, "out")
    /\ UNCHANGED <<chunk, semVars, storeVars, closed, groupVars, ctx>>

SendCancelled(n) ==
    /\ pc[n] = "send" /\ ctx = "cancelled"
    /\ Fail(n) /\ UNCHANGED <<semVars, storeVars>>

------------------------------------------------------------------------------
(* Save's two goroutines                                                   *)

\* dag.Visit returns.
WalkEnds ==
    /\ Walk!Finish
    /\ UNCHANGED <<pc, chunk, semVars, storeVars, chanVars, groupVars, ctx>>

\* Mutant: the channel is closed once the walk has handed out every node.
CloseChannelEarly ==
    /\ \A n \in Reachable(graph) : phase[n] \in {"visiting", "visited"}
    /\ ~closed
    /\ closed' = TRUE
    /\ UNCHANGED <<walkVars, pc, chunk, semVars, storeVars, processedNodes,
                   groupVars, ctx>>

\* The deferred close, which runs before the errgroup sees the error.
CloseChannel ==
    /\ outcome # "running" /\ ~closed
    /\ closed' = TRUE
    /\ UNCHANGED <<walkVars, pc, chunk, semVars, storeVars, processedNodes,
                   groupVars, ctx>>

\* findRootScore takes a node from the channel.
Receive ==
    /\ finder \in {"searching", "found"} /\ processedNodes # << >>
    /\ finder' = IF Head(processedNodes) # Root THEN finder
                 ELSE IF finder = "found" THEN "duplicate" ELSE "found"
    /\ processedNodes' = Tail(processedNodes)
    /\ UNCHANGED <<walkVars, pc, chunk, semVars, storeVars, closed, groupErr,
                   joined, result, ctx>>

\* The channel is closed and drained without a root.
NoRoot ==
    /\ finder = "searching" /\ processedNodes = << >> /\ closed
    /\ finder' = "noRoot"
    /\ UNCHANGED <<walkVars, pc, chunk, semVars, storeVars, chanVars, groupErr,
                   joined, result, ctx>>

\* A goroutine of Save's errgroup returns; the first error is kept and
\* cancels the context.
Join(g, err) ==
    /\ g \notin joined
    /\ joined' = joined \cup {g}
    /\ groupErr' = IF groupErr = "none" THEN err ELSE groupErr
    /\ ctx' = IF err = "none" THEN ctx ELSE "cancelled"
    /\ UNCHANGED <<walkVars, pc, chunk, semVars, storeVars, chanVars, finder, result>>

WalkJoins == closed /\ Join("walk", IF outcome = "ok" THEN "none" ELSE "walk")

FinderJoins ==
    \/ finder = "found" /\ closed /\ processedNodes = << >> /\ Join("finder", "none")
    \/ finder \in {"duplicate", "noRoot"} /\ Join("finder", "finder")

Return ==
    /\ joined = {"walk", "finder"} /\ result = "running"
    /\ result' = IF groupErr = "none" THEN "ok" ELSE "error"
    /\ UNCHANGED <<walkVars, pc, chunk, semVars, storeVars, chanVars, finder,
                   groupErr, joined, ctx>>

\* The errgroup of dag.Visit cancels its context after a failure; Save's
\* caller may cancel at any time.
CancelContext ==
    /\ ctx = "live" /\ result = "running"
    /\ ctx' = "cancelled"
    /\ UNCHANGED <<walkVars, pc, chunk, semVars, storeVars, chanVars, groupVars>>

------------------------------------------------------------------------------
BlobStep(n) ==
    \/ AcquireRead(n) \/ AcquireReadCancelled(n)
    \/ Read(n) \/ ReadEOF(n) \/ ReadFails(n)
    \/ AcquireEncrypt(n) \/ AcquireEncryptCancelled(n)
    \/ ReleaseRead(n)
    \/ AlreadyThere(n) \/ PassOn(n) \/ EncryptFails(n)
    \/ CreateObject(n) \/ CreateFails(n) \/ AddScore(n)
    \/ Send(n) \/ SendCancelled(n)

WalkStep(n) == StartFind(n) \/ EndFind(n) \/ FailFind(n) \/ StartVisit(n)

GroupStep ==
    WalkEnds \/ CloseChannel \/ Receive \/ NoRoot \/ WalkJoins \/ FinderJoins \/ Return

Terminated == result # "running" /\ UNCHANGED vars

Next ==
    \/ \E n \in Node : BlobStep(n) \/ WalkStep(n)
    \/ GroupStep
    \/ CancelContext
    \/ Terminated

Spec == Init /\ [][Next]_vars

\* Goroutines run, disk reads and requests come back; a unit of a semaphore
\* or of the channel that is free infinitely often is obtained (Go's channel
\* queues are first in, first out).  Nobody is obliged to cancel.
Fairness ==
    /\ WF_vars(GroupStep)
    /\ \A n \in Node : WF_vars(WalkStep(n)) /\ SF_vars(BlobStep(n))

FairSpec == Spec /\ Fairness

------------------------------------------------------------------------------
(* Properties                                                              *)

TypeOK ==
    /\ Walk!TypeOK
    /\ pc \in [Node -> PCs]
    /\ chunk \in [Node -> Nat \ {0}]
    /\ readSem \in 0..ReadCap /\ encryptSem \in 0..EncryptCap
    /\ existingScores \subseteq Blob /\ bucket \subseteq Blob
    /\ scoreMap \subseteq Keyed
    /\ processedNodes \in Seq(Node) /\ Len(processedNodes) <= ChanCap
    /\ closed \in BOOLEAN
    /\ finder \in {"searching", "found", "duplicate", "noRoot"}
    /\ groupErr \in {"none", "walk", "finder"}
    /\ joined \subseteq {"walk", "finder"}
    /\ ctx \in {"live", "cancelled"}
    /\ result \in {"running", "ok", "error"}

At(places) == {n \in Node : pc[n] \in places}

\* Each semaphore is held exactly as often as the calls in progress need it:
\* the markSemAcquired conspiracy releases it once on every path, whichever
\* of the layers returns early (semaphore.go).  newBlobStore releases the read
\* semaphore under the other one "in order to avoid a window of unbounded memory
\* usage": the buffers of plaintext in memory are bounded by the two capacities,
\* however many Visit calls run.  (TypeOK has the bounds of the semaphores.)
SemaphoresBalanced ==
    /\ TypeOK
    /\ readSem = Cardinality(At({"read", "acquireEncrypt", "releaseRead"}))
    /\ encryptSem = Cardinality(At({"releaseRead", "encrypt"}))
    /\ Cardinality(At({"read", "acquireEncrypt", "releaseRead", "encrypt"}))
           <= ReadCap + EncryptCap

\* The state file may be written at any moment of a save (runSave's ticker),
\* and a later run trusts it: at every moment the scores believed to exist,
\* and those the score map would answer with, are in the bucket.
CachesAreRight ==
    /\ existingScores \subseteq bucket
    /\ \A n \in scoreMap : BlobsOf(n) \subseteq bucket

\* A crash may end the save at any moment: the bucket never holds a listing
\* one of whose descendants' blobs is missing, so that no later backup can
\* take the listing for granted and record a tree with holes.
NoDanglingListing == Intact(graph, bucket)

\* A score that Save returns names a complete backup: every blob below the
\* root is in the bucket, whether written now, found in existingScores or
\* answered by the score map.
BackupComplete ==
    result = "ok" =>
        /\ finder = "found"
        /\ \A n \in Reachable(graph) : BlobsOf(n) \subseteq bucket

\* The channel to findRootScore is never closed under a Visit call that may still
\* send, and delivers the root of a successful walk exactly once, although it is
\* closed while findRootScore drains it.
RootChannelSound ==
    /\ closed => \A n \in Node : pc[n] = "out"
    /\ outcome = "ok" => finder \in {"searching", "found"}

\* Save returns, whatever fails and whoever cancels: no order of acquiring
\* and releasing the semaphores, and no full channel, blocks it forever.
SaveReturns == <>(result # "running")
=============================================================================
