# A verification project for comeback

comeback (Go) backs up a directory into a Google Cloud Storage bucket. Files are
cut into chunks, each chunk and each directory listing is encrypted
deterministically and stored under its *score* (the hash of the ciphertext), and
the score of the root listing is recorded in a registry, in the same bucket.
This directory holds TLA+ models of the program, TLC configurations that check
them on small instances, and proofs checked by TLAPS for every value of the
constants. Paths below are relative to the repository.

## Inventory

| Component | State | Operations | Interacts with |
|---|---|---|---|
| DAG traversal, `internal/dag` | nodes and their states, two work stacks, counters of busy workers, first error, two condition variables under one mutex | `Visit` with pools of resolvers and visitors | calls back `FindDependencies` and `Visit` of its user, without the lock |
| Save pipeline, `internal/save` | two semaphores, a channel of finished nodes, an errgroup | `Save`, `Visit`, `saveFile`, `saveFileChunk`, `saveDir`, `findRootScore` | walks with `dag.Visit`; writes through the blob stores; reads and fills the score map |
| Blob stores, `internal/blob` | the set of existing scores; objects under `blobs/` | `Save`, `Load`, `ListScores` | wrapped in one another; GCS |
| State between runs, `internal/state`, `state.go` | state file: existing scores, time of the last listing, score map | load, re-list, write to a temporary file and rename | read and written by save, verify and mount; written by a ticker during a save |
| Registry, `internal/registry` | marker object (salt, ciphertext), one object per backup | claim or verify the bucket, `RecordBackup`, `ListBackups` | every command |
| save command, `save.go` | one process | state, `Save`, record, state again | all of the above |
| verify, `verify.go`, `internal/verify` | log of records in the home directory, known structure | walk all recorded trees; print and log one record per node | `dag.Visit`, blob stores, registry |
| gc, `gc.go`; delete_garbage, `delete_garbage.go` | objects under `garbage/` | list, filter, clone, delete, in a pipeline of channels | reads the output of verify; nothing tells the state file |
| Restore, `internal/restore` | the target directory | create files and directories, set permissions and times | `dag.Visit`, blob stores |
| Mounted backup, `internal/comebackfs`, `mount.go` | inodes with look-up counts, file handles, lazily read directories | FUSE operations | blob stores, the kernel |
| LRU cache, `internal/cache` | a mutex around a vendored cache | insert, look up, encode | the score map |
| Listings and chunks, file info, crypto, users and groups, config, start-up | none | pure conversions, read once | everything |

What is hard in it:

- **concurrency**: the worker pools of the walk sleep on two condition variables
  and stop by a condition over both; 128 visitors share two semaphores that are
  released in the middle of a stack of stores; the channel to `findRootScore` is
  closed while it is drained;
- **failure**: any read, encryption or request may fail, and a request may fail
  after it took effect; one failure cancels everyone else, whose own errors must
  not hide it; a process may be killed at any moment, with a state file written
  at another;
- **ordering**: a listing must not reach the bucket before what it lists; a
  directory's record in the verify log must not be taken for its presence;
- **staleness**: the state file and the score map are believed across runs,
  while gc deletes; the verify log is believed for 90 days.

What makes each component correct:

- the walk visits a node only after its dependencies, once, loses no wakeup,
  reports the first error, and reports a cycle exactly when there is one;
- the pipeline balances its semaphores, bounds the plaintext in memory, returns,
  and hands out a score only for a complete tree;
- the bucket is *intact* at every moment (no listing without what is below it),
  and what the state file says is true at every moment;
- a recorded backup stays complete, and gc loses nothing;
- what a save reads from a tree that changes meanwhile is what was there, and an
  entry of the score map never stands for a file with other contents;
- a bucket is claimed once; a backup's name is never overwritten; a listing of
  backups has all that were recorded before;
- a successful verify run has found every blob, and its log tells nothing else;
- gc deletes only what it has copied, loses no error, and returns;
- a restore has the recorded contents and permissions, and the recorded times to the
  microsecond, whatever an earlier one left behind;
- an inode lives exactly as long as the kernel refers to it, and a failed
  download leaves neither lock nor file behind.

`PROJECT.json` lists every component with its status, and the hazards with the
line at which each bites.

## Modules

| Module | Models |
|---|---|
| `Dag` | dependency lists, reachability, cycles; `DependencyResolver` |
| `DagTraversal` | the contract of `dag.Visit`: calls start and end one at a time, with no workers |
| `DagVisit` | `internal/dag/visit.go`: every worker, lock, queue, counter and notification |
| `DagVisitProofs` | the proofs about `DagVisit` |
| `MCDagVisit` | instances |
| `SavePipeline` | `internal/save` and the `Save` side of `internal/blob`, over `DagTraversal` |
| `SavePipelineProofs` | the proofs about `SavePipeline` and `ScoreMap` |
| `MCSavePipeline` | instances |
| `Backups` | `save.go`, `state.go`, `gc.go`, and what gc sees of `verify.go` |
| `BackupsProofs` | the proofs about `Backups` and `Registry` |
| `MCBackups` | instances |
| `SaveTree`, `SaveTreeProofs`, `MCSaveTree` | `internal/save/dependency_resolver.go`, `list.go` and what `visitor.go` reads: a tree that changes while it is saved |
| `ScoreMap`, `MCScoreMap` | `internal/save/score_map.go` and `internal/state/score_map.go`: one file, written to while it is read |
| `Verify`, `VerifyProofs`, `MCVerify` | `verify.go` and `internal/verify`, over `DagTraversal`, with the log across runs |
| `GcPipeline`, `GcPipelineProofs`, `MCGcPipeline` | the goroutines and channels of `gc.go`, `delete_garbage.go` and `ListScores`, implementing the gc of `Backups` |
| `Registry`, `MCRegistry` | `internal/registry/gcs.go` and its users |
| `Restore`, `RestoreProofs`, `MCRestore` | `restore.go` and `internal/restore`, over `DagTraversal` |
| `ComebackFS`, `ComebackFSProofs`, `MCComebackFS` | `internal/comebackfs`: requests, locks, counts, handles |

`ScoreMap` and `Registry` name their specifications `ScoreMapSpec` and
`RegistrySpec`, and their parts likewise, because a proof module extends each of
them together with another model: a save trusts the score map, and records its
backup in the registry.

### DagVisit

The variables are the fields of `visitState`: `state` and the bags `toResolve`,
`toVisit`, `dependants` (the order of a slice is left open, the number of times
a node occurs in it is not: `addNodes` must not queue a node twice), the counters
`busyResolvers`, `busyVisitors`, `depsUnsatisfied`, and `firstErr`. `pc` says
where each worker is. A worker takes the lock, looks at its exit condition,
sleeps, or takes a node, lets go of the lock for the call, and takes it again to
update. `update` computes the two "should wake" conditions before and after, as
the code does, and wakes exactly the workers of the pool whose condition became
true. The panics of `checkInvariants` are the invariant `CheckInvariants`. The
graph is chosen in `Init` and may have duplicates, self loops and cycles.

`DagTraversal` knows only the phase of each node and the outcome. The refinement
mapping of `DagVisit` (`AbsPhase`, `Abs`, property `Contract`) reads the phase
off `state`, `pc` and `cur`. The users of the walk are modelled over
`DagTraversal`, not over `DagVisit`.

### SavePipeline

One Visit call is a walk of `pc[n]` through `acquireRead`, `read`,
`acquireEncrypt`, `releaseRead`, `encrypt`, `create`, `add` and `send`, which are
the points at which `saveFile`, `saveFileChunk`, `saveDir` and the six stores
touch something shared. Every early return of each layer is an action with the
semaphores its deferred functions release. A blob stands for its score; the
contents of each node are a constant, and two files may share a chunk. The walk
is `Walk == INSTANCE DagTraversal`: `StartVisit`, `Send` and the failing actions
conjoin its steps. `CloseChannel`, `WalkJoins`, `FinderJoins` are separate steps,
because `close` runs before the errgroup sees the error. `Init` takes any
`existingScores` and score map that are true of the bucket: that this is what a
save starts with is the subject of `Backups`.

Not in it: `resolverParallelism = 1` (any number of resolvers is allowed, which
is more behaviours), checksums that panic, and what is read from disk, which
`SaveTree` and `ScoreMap` have.

### SaveTree

`disk` is the tree, changed by others at any time (`Change`); a version stands
for the contents and times of what is at a path. `FindDependencies` of a
directory is split where the disk is touched: its names (`StartFind`), the lstat
of each (`Lstat`), the symbolic links (`Readlink`), and the list of children
(`EndFind`): `Found` is the row, sorted by name, of those that were there at their
lstat and are not excluded. A name that is gone at its lstat is left out, unless
something on the way to it has become a file (`Blocked`), which is another error and
fails the reading. `VisitSave` and `VisitList` are
the two visitors. Since what is below a directory is known only when it is read,
the walk is not an instance of `DagTraversal`, whose graph is fixed, but keeps to
its order: a visit after the visits of all children, no call after a failure.
`touched`, `moved` and `still` are history variables the properties need. A
second job keeps the outcome of the first in `prior`, so that a list can be
compared with the save that follows, and two saves with one another. A directory
never becomes a symbolic link, nor a file a pipe: opening those would leave the tree,
or block.

### ScoreMap

One file; any number of visits, in one process or several that share the state
file (so `entries` only grows, and an entry that is not found is a `Miss`,
whether it was evicted or is in another process's map). A write gives the file an
mtime between `now - MaxAge` and `now + MaxAhead`: clocks have a granularity, and
that of a file server may be ahead or behind. `Eligible` is the test of
`makeScoreMapKey`. That the inode, size and permissions are also in the key is
left out: the writes are those that change none of them. Nobody sets an mtime
back.

### Backups

Processes run saves against a bucket, a registry and one state file; each step
of `runSave` and `makeState` that another process or a crash can separate is an
action: load (with or without re-listing), write back, one blob at a time, the
periodic write, `RecordBackup`, the final write, and `Crash` anywhere. A tree is
one listing and its files, one blob each; within a save, `SavePipeline` shows
that listings come last. `Verify` is one action, since it only reads: its output
leaves out the directories known from the log (any part of the log is recent
enough), and a failing run logs any part of what it saw. gc reads its input,
lists, and clones and deletes blob by blob. Three constants say how the operator
uses it: `GcInput` (the log file, or the captured output of the last run),
`Overlap` (whether gc may run beside, or after, saves its input has not seen) and
`ForgetState` (whether the state file is removed before gc).

A listing by gc or by `makeState` is one step: a blob that appears or vanishes
during it is as if it had appeared before or vanished after. `delete_garbage` is
not in it.

### Verify

The log is a sequence of lines that outlives the runs; a line says how it ends
(`Cut`: inside a name, without its newline, or after a space), because
`parseVerifyOutput` takes one byte off whatever it finds. A run reads the log
(`OpenLog`, `KnownStructure`), lists the bucket (`ListScores`), walks over
`Walk == INSTANCE DagTraversal`, sends a record per node over a channel to the
goroutine that writes them (`Send`, `WriteRecord`), and joins both
(`WalkReturns`, `WriterDone`, `FinishRun`). `answers`, what `FindDependencies`
will say in this run, is fixed when the walk begins: listings are immutable. A
run may be killed at any step (`Crash`, which may take or cut the last line),
blobs may vanish, records may grow stale, and the user may remove the log.

### GcPipeline

A command is a chain of stages, a constant (`Pipeline`): what each stage does,
which goroutine of the command's errgroup it belongs to, its workers and the room
in the channel behind it. `Init` chooses the command: in the instance, gc or
delete_garbage. A goroutine receives, works (one request), sends in a `select` with
`ctx.Done`, and gives up. `Cancelled` is who has been told of an error: the
workers of the same pool at once, the rest of the command only when the pool has
been joined. A clone worker that sees its context done notes the error and goes on
receiving, as in the code. `MovesAsInBackups` is the refinement: with `NotCopied`
and `Copied` read off `blobs` and `garbage`, each step is a clone, a deletion or
the end of the gc of `Backups`, or is not seen there.

### Registry

The marker and the objects under `jobs/` are the shared state; `sent` is the set
of creations ever requested. A request can be carried out at any time after it
was sent, any number of times, whoever has given up meanwhile, which covers
retries, lost replies and late ones; `Absent` is the generation precondition. A
key is the pair of password and salt. Name 0 is the bare prefix. A listing is a
sequence of pages (`ListPage`), each read at another moment.

### Restore

`tree` says of each path whether something is there, how much is written,
whether its permissions are those it was created with or the recorded
ones, and its mtime; what the permissions let the owner do decides whether a later call is
refused (`CanCreate`, `Refused`). `Leading` are the directories above an entry,
which `MkdirAll` creates if no other call has. A Visit is `MkdirLeading`, `CreateEntry`,
`WriteChunk`, `Chmod`, `Chtimes`, interleaved with all others the walk allows.
Times are nanoseconds since 1970, as in the listings, or `Now`, which stands for any
time at which something was written. `futimes` takes microseconds: `Restored` is the
conversion of the vendored `unix.NsecToTimeval`, which adds 999 ns and divides towards
zero. From 1970 on that rounds up to a microsecond. Before 1970 it may go a microsecond
further, also when the time was a whole one. `Close` says what is left of a time, and a
restored tree is no exact copy in this respect. That an int64 holds the
nanoseconds is assumed (`UnixNano` wraps outside 1678 to 2262), and that the file system
keeps microseconds.
`SoundBackupRestores` needs `faulty`: an error is the program's own if no load and
no system call failed for another reason. One such error is left: `Chtimes` opens the
entry for reading with its restored permissions, so an entry its owner may not read
ends the restore. The property names that case and no other. The instance has no such
entry, with which no restore of it would succeed; the theorem is about any permissions.
Assumed: the process is not the
superuser, its umask leaves the owner's permissions, and nobody else touches the
destination. Owners, device files and the mtimes of symbolic links' targets are
not modelled.

### ComebackFS

Each thread serves one request at a time, and is where the code lets go of a
lock: `fs.mu` is one action, an inode's or handle's lock is a variable, because it
is held during downloads. The kernel is part of the model: it counts its
references (`known`), sends a forget only for what it counts, uses handles only
between open and release, and reads directories with buffers of any size. An
invariant that relates both sides, `CountsAgree`, is the one the code's comments
on look-up counts promise. `dead` is set where the code would panic or `log.Fatal`.

## Runs

| Run | Instance | Shows |
|---|---|---|
| `dag_visit` | 2 resolvers, 2 visitors, 4 shapes of 4 nodes, fair | the walk keeps its checks and its contract, loses no wakeup, and returns, with the right result, and the first error and no echo of it |
| `save_three_files` | a directory with three files, two of which share a chunk; two levels with a symlink; everything of capacity 1, fair | semaphores and memory bound, crash safety, complete backups; `Save` returns |
| `backups_gc` | two saves at a time, two versions of a tree; gc on the complete log, alone, state file removed | recorded backups stay complete, the state file is true: this is the safe way to use gc |
| `backups_stale_state` | gc on the complete log, alone, state file left | **violation**: the next save trusts scores gc deleted |
| `save_tree` | six paths with an excluded directory, symlinks and a pipe; two changes, two jobs | what nobody touched is saved as it is; failures have a cause; scores are stable; a list predicts the save or names what it fails over |
| `score_map` | two visits, two chunks, two writes, four ticks | no stale entry; quiet files are saved |
| `verify_runs` | one backup, three runs, one lost blob, a line cut inside a name or before its newline, fair | success means intact; the log is true and complete; a run ends although its writer failed |
| `verify_cut_line` | a line cut after a space | **violation**: success for a damaged backup |
| `gc_chain` | gc with seven stages and delete_garbage with three, three objects, pools of two, channels of one and unbuffered, fair | copies before deletions; no lost error; the refinement; the command returns |
| `registry` | two saves, two readers (one with another password), two names | one key; records are true; complete listings; nothing is overwritten |
| `restore_tree` | a directory that takes no entries, files, a symlink, times before and after 1970; two runs, killed or failing anywhere, fair | the result is as recorded, nothing is in its own way, every run ends |
| `fs_tree` | two requests at a time, five in all, six entries with a hard link | counts, streams, handles, contents; nothing left behind by a failure |

Each module has a type invariant. It is a theorem of its own or the first part of
the inductive invariant where there is a proof module, and in the runs it is a part
of one of the invariants (`SemaphoresBalanced`, `CountsAgree`, `LogIsTruthful`,
`OnlyCopiedGarbageDeleted`, `RestoredAsRecorded`, `UntouchedIsSaved`).

Bounds. The walk's interesting interactions are between two workers of a pool
and a third of the other; two and two give all of them, and four nodes give a
diamond with a duplicate, a chain entered at two ends, a cycle behind finished
nodes and a self loop. Capacities of one make every wait happen, and three
calls for two units of plaintext put the bound on memory to the test. Two files
with one common chunk make the race on `existingScores` happen, and a file of two
chunks makes a call release and acquire both semaphores twice. Two trees with a
common file make a blob shared, and a listing that only a crashed save stored. In `gc_chain` channels have room for one
and there are three objects, so that every stage can be full, blocked and empty at
once; pools of two show what one worker does to another. In `verify_runs` three
runs are one to write a log, one to be cut off, and one to believe it. In
`registry` two saves with one password and a reader with each are enough for
every order of claim and check, and two names let saves collide or not. In
`score_map` an mtime may be up to two ticks old, one ahead, and the rule asks for
three: four ticks let a key be made, and a write come before and after. Two
changes in `save_tree` may come between any two readings of a directory, its
names and its files, and are enough to put a file where a directory was. Five requests in `fs_tree` are a look-up, an open,
a read, a release and one that races with any of them. `SYMMETRY` is used only in
runs without liveness, over processes, saves, visits and threads. In `restore_tree` the
mtimes are whole and broken microseconds on both sides of 1970.

Fairness. `DagVisit`: weak fairness of each worker, since goroutines are
scheduled and calls come back (a call that hangs forever hangs the program).
`SavePipeline`: weak fairness of the walk and of `Save`'s goroutines; strong
fairness of each call in the pipeline, because a Go channel, which a semaphore
is here, serves its waiters first in, first out. Cancelling is never assumed.
`Verify`, `Restore`: weak fairness of the command's own steps, together, as one
goroutine or another is always scheduled; the user is not obliged to run it.
`GcPipeline`: weak fairness of each worker, of each close and of the return.
`ComebackFS` needs none: requests are finite in number there and no step can be
repeated, so that every request is answered unless the server deadlocks, which
TLC checks, and `NothingLeftBehind` says why it does not.
Failures, crashes, kills and changes by others are never assumed to happen.

Findings. Each violation run is a disagreement between the code and what its own
comments or docs say, described in `PROJECT.json` with the line it contradicts:

- `backups_stale_state`: how gc must not be used. The blobs are still in
  `garbage/` (`NothingLost`), until `delete_garbage` is run. Related, and the
  reason `ForgetState` removes the whole file: re-listing after 30 days renews
  the existing scores but not the score map.
- `verify_cut_line`: one byte is taken off a last line that has no newline. Cut
  after a space, it is believed with children missing.

Met while modelling; the properties name these cases, or the instances leave them out:

- gc must be given the log and not the output of a verify run
  (`GcInput = "stdout"`): known directories print nothing, and gc would move
  the listings of recorded backups (`internal/verify/dependency_resolver.go:100`).
- gc beside a save, or with a state file that survives it, may move what the save
  relies on. However gc is used, what it moves is in `garbage/` (`GcLosesNothing`).
- `-list_only` prints pipes, sockets and devices, which a save refuses
  (`internal/save/list.go:74`). `ListPredictsSave` therefore says that a list which
  names none predicts success, and that one which names some predicts failure.
- Hard links are one inode in a mounted backup (`internal/comebackfs/fs.go:161`), where
  `docs/surprises.md` promises independent files: while the kernel holds a reference, a
  look-up of the second name is answered with the attributes of the first. Entries of
  two devices with one inode number would be one file too. `AnswersAreRight` is about
  the entry an inode was made from.
- An entry whose permissions do not let its owner read it stops a restore
  (`internal/restore/visitor.go:267`).
- A restored mtime may be later than the recorded one by less than a microsecond, or by
  less than two if it is before 1970 (`internal/restore/visitor.go:277`).
- A log whose last line only lacks its newline is refused (`verify.go:116`).
- A known file is read again (`internal/verify/visitor.go:52`).
- Entries with a `HardLinkTarget`, which older versions wrote, would be restored
  as empty files (`internal/restore/visitor.go:92`); `Chunks` and `Scores` agree
  in the instance.

Each property has a mutant: an operator named for the bug it stands for, next to
the definition it replaces, with which TLC finds the property violated.

## Proofs

`DagVisitProofs` proves, for every set of nodes and graphs and any size of the
pools:

- `TypeCorrect`, `ChecksNeverPanic`, `NodesInOnePlace`, `NoWakeupIsLost`,
  `ErrorIsNotFollowOn`, `VisitInOrder`, `ReturnValueIsRight`: the invariants,
  those of the run `dag_visit` among them;
- `VisitKeepsItsContract`: `Spec => Contract`, that is, `DagVisit` implements
  `DagTraversal`, initial states and steps.

The invariants are layered, each proved inductive with the earlier ones as
hypotheses: types and who holds a node; the busy counters as cardinalities;
errors; where each node is (`PlaceInv`); the counts of dependants and
unsatisfied dependencies (`CountInv`, a statement about multiplicities, which is
why duplicates in a dependency list are harmless); no lost wakeup; reachability
and acyclicity of the visited part; and what is known when workers have stopped.
`ResultIsRight` needs all of them: that a worker may stop only when nothing is
left, and that what is then unsatisfied is a set each of whose members waits for
another member, which in a finite graph holds a cycle (`Knot`).

The assumptions are those of `Dag` and `DagVisit`: dependency lists are finite
sequences of nodes, start nodes are nodes, the pools are finite, disjoint and
not empty, and `"none"` is not a node.

`BackupsProofs` proves, for every set of processes, blobs and trees:

- `TypeCorrect`: in particular a save has done only blobs of its own tree;
- `GcLosesNothing`: `NothingLost`, however gc is used;
- `SavesAreSafe`: without gc (`GcInput = "none"`), `RecordedBackupsIntact`;
- `CarefulGcIsSafe`: with gc used as in the run `backups_gc` (`Careful`),
  `RecordedBackupsIntact` and `StateFileIsTrue`;
- `CarefulScoresExist`: then `ExistingScoresExist` too, what a running save takes
  to be in the bucket.

All of them rest on one predicate. `Held(file, procs, trees, K)` says that the set
`K` has every blob that the state file, a save or the registry relies on; the
properties alone are not inductive, since a score travels from a state file into
a save, from there into what the save skips, and from there into the registry
and back into the state file. `SaveHeld` shows that a step of a save keeps `Held`
when `K` grows with the bucket. `K` is the bucket and `garbage/` for
`GcLosesNothing`, together with the fact that gc deletes only what it has cloned;
it is the bucket for the other two. `CarefulInv` adds that during gc there is no
state file and no save, and that what gc may move is below no recorded tree,
because the verify log covers every tree recorded before it. The assumptions are
`TreeAssumption` (a tree lists blobs that are not trees) and `OperatorAssumption`.

About `Registry`, `BackupsProofs` proves, for any number of commands, passwords and
names: `RegistryTypes`, `OneKeyForAll`, `RightPasswordAccepted`, `RecordsAreTrue`,
`ListingsAreComplete` and `NeverOverwrites`. The invariant says of each command
where its key comes from (the marker, whoever made it), of each request that was
sent which command chose its name and when, and of each listing that every name
before its position which existed at its beginning has been found as it is; the
last holds because no object ever changes, which is proved first. The assumption
is that `MaxSecond` is a number.

`SavePipelineProofs` proves, for every tree, any contents, capacities and number of
calls: `SaveKeepsSemaphores`, `SaveCachesAreRight`, `SaveLeavesNoDanglingListing`,
`SaveIsComplete` and `SaveChannelIsSound`, the five invariants of the run
`save_three_files`. The layers of the invariant are:

- `TypeInv`: a Visit call is somewhere exactly while the walk has it running
  (`CallInv`), and the units of each semaphore in use are as many as there are
  calls at the places that hold one (`SemInv`; the set of those calls is finite
  because it grows by one at a time, `Node` need not be). `Balance` is the fact
  that every move between two places takes and gives back what the places ask
  for, the early returns with their deferred releases included;
- `SavedInv`: the chunks a call is past are in the bucket, and all of them once it
  has nothing left but to report. `BackupComplete` alone says this only at the
  end, and a file's first chunk must be there while its second is being read;
- `OrderInv`: a node is visited after its dependencies, from the contract of the
  walk; with `SavedInv` it gives `BelowIsSaved`, that a listing about to be created
  has everything below it in the bucket, and that is `NoDanglingListing`'s step;
- `GroupInv` and `RootInv`: what the errgroup, the channel and `findRootScore` know of
  one another. The root is sent once, so `findRootScore` never sees two; the
  channel is closed only after the walk, so it never misses one.

The assumptions are `ContentAssumption` (shapes; a save starts from an intact bucket,
which `Backups` is about), `CapAssumption` (capacities are positive) and
`ListingAssumption`: a listing's blob is no chunk of a file, which `repr.MarshalDir`
sees to with a magic byte (`internal/repr/marshal.go:126`), and equal listings have
equal trees, since a listing names the scores below it.

About `ScoreMap`, `SavePipelineProofs` proves, for any number of visits, chunks and
writes and any `MaxAge < MinElapsed`: `ScoreMapTypes`, `NoStaleEntry`, `QuietFilesAreSaved` and
`KeysStayOver`. The invariant: the mtime under which a visit with a key reads is
*over* (`info < now - MaxAge`, so no later write can set it), hence if the file
still has it when the visit is done, nobody wrote to it since the key was made,
and what was read chunk by chunk is what is there. That the lstat came before is
why the key must be made before the file is opened.

`GcPipelineProofs` proves, for every chain that `IsChain` admits, with any pools,
capacities and sharing of the listing: `GcDeletesOnlyCopiedGarbage`,
`CommandSuccessMeansAll`, and the refinement `GcMovesAsInBackups`: each step of the
pipeline is a clone, a deletion or the end of the gc of `Backups`, or changes nothing
there. `PassedInv` follows each object: what is in a channel or a goroutine's hand
behind a filter is not in use, and behind a clone stage is in `garbage/`. `EndInv` is
about the order in which channels are closed and errors kept, and `FlowInv` says that
unless a goroutine failed, each object is settled, in a channel, in a hand, or yet
to be listed; at a successful end nothing is in the last three. `IsChain` is how the two
commands set up their stages: the first stage lists, the last deletes, a clone stage
has a filter before it, and a command clones exactly if it deletes from `blobs/`.

`ComebackFSProofs` proves, for every tree, any number of goroutines and of requests,
and any order of requests a kernel may send: `CountsAlwaysAgree`,
`NothingIsUsedAfterItsEnd`, `AnswersAreAlwaysRight` and `NothingIsLeftBehind`. The
invariants of the run are not inductive: that the counts agree needs to know of each
request which references it holds while it is between two locks. `PlaceInv` says
which places of which handler a goroutine can be at; `UseInv` that the kernel holds a
reference on the inode of each request and that a release is the last request on its
handle; `SizeInv` that handle numbers are new; `CountInv` counts, for each inode,
what the kernel knows, the forgets under way and the look-ups that have registered
it and not answered; `LockInv` that a lock is held by a goroutine at work under it;
`FileInv` that a download in progress has written a prefix of the chunks and that the
anonymous files are those of handles and of downloads; `StreamInv` that what a
directory stream has returned is a prefix of the listing. `BackupAssumption` says that
listings and lists of scores are sequences and the root is a directory.

`VerifyProofs` proves, for every set of backups, any number of runs, kills, lost blobs
and stale records, and any capacity of the channel: `TheLogIsTrue`, `SuccessIsIntact`
and `TheLogIsComplete`, all under the hypothesis `NoSpace`, that no line is cut right
after a space. The run `verify_cut_line` shows that they fail without it. Success
says what one run has found although that run did not look at everything; the
invariant carries the rest: a whole line of the log is a true record (`LogInv`), so what is
known from the log is right and the graph of the walk is that of the backups
(`KnownInv`); a record is sent only for what was loaded (`SendInv`); what the walk has
come past was listed, and its record is on its way to the log or in it, unless the
writer has failed, of which the run's result tells (`WalkInv`, `ResultInv`); and a
process takes what it holds with it when it is killed (`RestInv`). That the log then
mentions everything is by the closure of what is reachable: the roots have records,
and a record names the children.

`RestoreProofs` proves, for every backup whose paths are a tree, any permissions, any
any mtimes, number of runs, kills and failures: `TypeCorrect`, `SuccessMeansRestored`,
`NothingInItsWay` and `ClosedLast`. `SuccessMeansRestored` (`RestoredAsRecorded`) has the
hypothesis `Whole`: the entry of a file names a score for each of its chunks. What the
code does without it is in the list above (hard link targets). `RestoredIs` and
`RoundedUp` are about the conversion of the times, for every integer: how far a time
moves, and never back. `NothingInItsWay` (`SoundBackupRestores`) has no hypothesis: its
layer of the invariant (`FaultInv`) is that a failure which is not the system's left an
entry with permissions that keep its owner from reading it (`Unreadable`), which stays
so to the end of the run. The invariant
says where each entry is on its way: before its own visit it can only be a directory
that another call has made, empty and with the permissions that call gave it
(`AheadInv`); its contents and its permissions are what the visit has come past
(`StepInv`); what has been visited is as recorded, and stays so (`DoneInv`), which for
a directory's mtime needs that nothing is created in it any more. This, and that no
call is refused, is `ClosedInv`: a directory has its recorded permissions only when
everything in it has been visited, by the contract of the walk. `ClosedLast` states
it on its own. That the walk covers the backup is by `IsTree`: what is below
nothing visited would be a set closed without the root.

`SaveTreeProofs` proves, for every set of paths, any exclusions, kinds, number of jobs
and of changes: `SavedAsItIs` (`UntouchedIsSaved`), `FailuresHaveCauses`
(`FailsForCause`), `StableResult` (`ResultIsStable`) and `ListsWhatIsSaved`
(`ListPredictsSave`). The first layers of the invariant are about one job: a path is
known only through its directory, whose entries were kept (`RunInv`); what was
lstat'ed and not touched since is still so, and what a directory read has not seen
was not there (`SeenInv`, `UnseenInv`); the children found are the sorted row of
what was kept (`FoundInv`); a visit comes after those of all children (`VisitInv`);
what was read of a file is its version (`ContentsInv`); and a failed path had a reason
to fail (`CauseInv`), either that something became something else under the walk, or
that it is one a save does not support. The properties of two jobs follow from one
more layer, `PriorInv`: while nobody has changed the tree since the job before began,
the outcome of that job is what the tree on disk says. The two jobs are then not
compared with each other but each with the tree, which only works if the tree
determines the order of the children too: `OneRow`, that a set of names has one
sorted row. The only assumption is `PathAssumption`, that paths are a tree and that
names in a directory differ. That there always is a sorted row, so that a directory's
reading can end, is liveness, and is seen in the run.

Only model-checked: liveness, that is `Termination`, `SaveReturns`, `VerifyReturns`,
`CommandReturns` and `RestoreEnds`, and the absence of deadlocks, since neither fairness
nor ENABLED is within reach of the proof system. Each of the other properties the
passing runs check is stated by a theorem.

## Not modelled

- Serialisation (`internal/repr`), stat conversion (`internal/fs`), users and
  groups, configuration, flags and start-up: pure functions of their input, or
  steps that happen once. The models use only that equal contents give equal
  scores, and name what a conversion loses where a property is about it (the
  device number in `ComebackFS`, the last byte of a line in `Verify`).
- Encryption and checksums: deterministic, and a blob that does not match its
  score is a failed load.
- The eviction order of the LRU cache and the encoding of the state file: vendored
  or standard code; an evicted entry is a miss.
- `mount.go` beyond the choice of the newest backup: it connects to the kernel and
  waits.
- Durability of a renamed file: up to the file system.

## Plan

Done: every module is checked, and every invariant, action property and refinement
the passing runs check is proved. What could follow:

1. A composition of `Verify` and `Backups`, so that what `Backups` takes from a verify
   run in one step is stated as a refinement, as `GcPipeline` does for gc.
2. `SaveTree` over a walk whose graph grows, with `DagVisit` shown to implement that
   one too; today `DagTraversal` has a graph that is fixed, and `SaveTree` keeps to its
   order by itself.
3. The order of eviction of the score map's cache, if a property should ever be about
   how much of a save is skipped.
