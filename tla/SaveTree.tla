------------------------------ MODULE SaveTree ------------------------------
(***************************************************************************)
(* What a save reads from disk, and what save -list_only prints             *)
(* (internal/save/dependency_resolver.go, visitor.go, list.go): the tree    *)
(* changes while its directories are read, their entries are lstat'ed, the   *)
(* symbolic links read and, much later, the files.                         *)
(*                                                                         *)
(* The nodes of the walk are paths, and what is below a directory is known   *)
(* only when its listing has been read, so the graph of dag.Visit grows with *)
(* the walk; the order of calls is that of DagTraversal.  A visit is one     *)
(* step, since it touches the disk once: SavePipeline has its semaphores and *)
(* blobs, ScoreMap the reading of a file in chunks and the score map.       *)
(*                                                                         *)
(* A directory is not replaced by a symbolic link, nor a file by a pipe.      *)
(***************************************************************************)
EXTENDS Naturals, Sequences, FiniteSets

CONSTANTS
  Path,        \* relative paths
  Root,        \* the empty one, the base path itself
  Names,       \* Path -> the paths directly below it, sorted by name
  MayBe,       \* Path -> the kinds of what may be there
  Excluded,    \* the paths that match an exclusion
  MaxJobs,     \* bound: runs of save and save -list_only, one after another
  MaxChanges   \* bound: changes to the tree

Below(n) == {Names[n][i] : i \in DOMAIN Names[n]}
Kinds == {"none", "file", "dir", "symlink", "pipe"}

\* Each path but the root is in one directory, under one name, and below the root.
PathsAreATree ==
  /\ \A m, n \in Path : m # n => Below(m) \cap Below(n) = {}
  /\ \A n \in Path : \A i, j \in DOMAIN Names[n] : Names[n][i] = Names[n][j] => i = j
  /\ \A n \in Path : Root \notin Below(n)
  /\ \A S \in SUBSET Path : Root \in S /\ (\A n \in S : Below(n) \subseteq S) => S = Path

ASSUME PathAssumption ==
  /\ Root \in Path /\ Excluded \subseteq Path \ {Root}
  /\ Names \in [Path -> Seq(Path)] /\ PathsAreATree
  /\ MayBe \in [Path -> SUBSET Kinds] /\ MayBe[Root] = {"dir"}
  /\ \A n \in Path : "dir" \notin MayBe[n] => Names[n] = <<>>
  /\ MaxJobs \in Nat /\ MaxChanges \in Nat

VARIABLES
  disk,     \* what is at each path; the version stands for its contents and times
  changes,  \* changes so far
  job,      \* "save" or "list", the job that runs or ran last
  jobs,     \* jobs started so far
  phase,    \* how far the walk is with each path
  names,    \* the names read from each directory and not lstat'ed yet
  info,     \* what lstat said of each path
  children, \* the children found for each directory
  contents, \* what was read from each file, or symbolic link
  result,   \* how the job ended
  faulty,   \* a call failed for a reason that is not in the model
  touched,  \* the paths changed since the job began
  moved,    \* those that became something else since their lstat
  prior,    \* the job before, and its outcome
  still     \* nothing has changed since that began

tree == <<disk, changes, touched, moved, still>>
walk == <<phase, names, info, children, contents, faulty>>
vars == <<tree, job, jobs, walk, result, prior>>

Versions == 0..MaxChanges
Elsewhere == MaxChanges + 2   \* the contents of whatever a symbolic link leads to
Nothing == [kind |-> "none", version |-> 0]
Entries == [kind : Kinds, version : Versions]

Exists(n) == disk[n].kind # "none"
Parent(n) == CHOOSE m \in Path : n \in Below(m)

\* The directories above a path: the least set with its parent and theirs.
Above ==
  [n \in Path |-> {m \in Path : \A S \in SUBSET Path :
                     (\A k \in S \cup {n} : k # Root => Parent(k) \in S) => m \in S}]
SelfAndAbove(n) == {n} \cup Above[n]

\* A tree: what exists is in a directory.
IsTree(d) ==
  /\ d[Root].kind = "dir"
  /\ \A n \in Path : d[n].kind = "dir" \/ \A m \in Below(n) : d[m].kind = "none"

\* What the walk has found: the root, and the children of the directories read.
Known(n) == n = Root \/ \E m \in Path : \E i \in DOMAIN children[m] : children[m][i] = n

Init ==
  /\ disk \in {d \in [Path -> [kind : Kinds, version : {0}]] :
                 IsTree(d) /\ \A n \in Path : d[n].kind \in MayBe[n]}
  /\ changes = 0 /\ job = "none" /\ jobs = 0
  /\ phase = [n \in Path |-> "idle"] /\ names = [n \in Path |-> {}]
  /\ info = [n \in Path |-> Nothing] /\ children = [n \in Path |-> <<>>]
  /\ contents = [n \in Path |-> 0]
  /\ result = "none" /\ faulty = FALSE
  /\ touched = {} /\ moved = {}
  /\ prior = [job |-> "none", result |-> "none", backup |-> <<>>] /\ still = TRUE

-----------------------------------------------------------------------------
(* Others change the tree                                                  *)

\* A file is written to, and anything is created, removed or replaced.
Change(n) ==
  /\ changes < MaxChanges /\ changes' = changes + 1
  /\ \E kind \in MayBe[n] :
       LET new == IF kind = "none" THEN Nothing ELSE [kind |-> kind, version |-> changes + 1]
       IN /\ disk' = [disk EXCEPT ![n] = new]
          /\ new.kind # disk[n].kind \/ new.kind = "file"
          /\ moved' = IF new.kind # disk[n].kind THEN moved \cup {n} ELSE moved
  /\ n # Root /\ IsTree(disk')
  /\ touched' = touched \cup {n} /\ still' = FALSE
  /\ UNCHANGED <<job, jobs, walk, result, prior>>

-----------------------------------------------------------------------------
(* A job                                                                   *)

\* The entries of the backup, or the lines of the list, the walk has got to.
Backup == [n \in {m \in Path : phase[m] = "visited"} |->
             [info |-> info[n], children |-> children[n], contents |-> contents[n]]]

\* makeRootNode: the root is taken to be a directory.
Start(what) ==
  /\ result # "running" /\ jobs < MaxJobs
  /\ jobs' = jobs + 1 /\ job' = what /\ result' = "running"
  /\ prior' = [job |-> job, result |-> result, backup |-> Backup]
  /\ still' = (touched = {}) /\ touched' = {} /\ moved' = {}
  /\ phase' = [n \in Path |-> "idle"] /\ names' = [n \in Path |-> {}]
  /\ info' = [n \in Path |-> IF n = Root THEN [kind |-> "dir", version |-> 0] ELSE Nothing]
  /\ children' = [n \in Path |-> <<>>] /\ contents' = [n \in Path |-> 0]
  /\ faulty' = FALSE
  /\ UNCHANGED <<disk, changes>>

Going == result = "running" /\ \A n \in Path : phase[n] # "failed"
Fail(n) == phase' = [phase EXCEPT ![n] = "failed"]

\* FindDependencies.  There is one resolver, as resolverParallelism is 1.  What
\* is not a directory has no children; a directory's names are read.
StartFind(n) ==
  /\ Going /\ phase[n] = "idle" /\ Known(n)
  /\ \A m \in Path : phase[m] # "finding"
  /\ IF info[n].kind # "dir"
       THEN phase' = [phase EXCEPT ![n] = "found"] /\ UNCHANGED names
     ELSE IF disk[n].kind # "dir" THEN Fail(n) /\ UNCHANGED names
     ELSE /\ phase' = [phase EXCEPT ![n] = "finding"]
          /\ names' = [names EXCEPT ![n] = {m \in Below(n) : Exists(m)}]
  /\ UNCHANGED <<tree, job, jobs, info, children, contents, faulty, result, prior>>

\* Mutant: a name that is gone fails the reading of its directory.
LstatGone(n, m) == Fail(n) /\ UNCHANGED info
\* Something on the way to what is in n is not a directory any more.
Blocked(n) == \E k \in SelfAndAbove(n) : disk[k].kind \notin {"none", "dir"}

\* ReadDir leaves out a name that is gone by now (ENOENT), and fails with any
\* other error (ENOTDIR).
LstatMissing(n, m) ==
  IF Blocked(n) THEN Fail(n) /\ UNCHANGED info ELSE UNCHANGED <<phase, info>>

\* ReadDir: one of the names is lstat'ed.
Lstat(n, m) ==
  /\ phase[n] = "finding" /\ m \in names[n]
  /\ names' = [names EXCEPT ![n] = @ \ {m}]
  /\ moved' = moved \ {m}
  /\ IF Exists(m) THEN info' = [info EXCEPT ![m] = disk[m]] /\ UNCHANGED phase
     ELSE LstatMissing(n, m)
  /\ UNCHANGED <<disk, changes, touched, still, job, jobs, children, contents, faulty, result, prior>>

\* shouldSkip
Kept(n) == info[n] # Nothing /\ n \notin Excluded
Unread(n) == {m \in Below(n) : Kept(m) /\ info[m].kind = "symlink" /\ contents[m] = 0}

\* Readlink: the target, if it is still a symbolic link.  Versions count from 1 here.
Readlink(n, m) ==
  /\ phase[n] = "finding" /\ names[n] = {} /\ m \in Unread(n)
  /\ IF disk[m].kind = "symlink"
       THEN contents' = [contents EXCEPT ![m] = disk[m].version + 1] /\ UNCHANGED phase
       ELSE Fail(n) /\ UNCHANGED contents
  /\ UNCHANGED <<tree, job, jobs, names, info, children, faulty, result, prior>>

\* The ways to put the members of S in a row.
Rows(S) == {q \in [1..Cardinality(S) -> S] : \A m \in S : \E i \in DOMAIN q : q[i] = m}
\* m has the smaller name of the two.
Before(n, m, k) == \E i, j \in DOMAIN Names[n] : i < j /\ Names[n][i] = m /\ Names[n][j] = k
Sorted(n, q) == \A i, j \in DOMAIN q : i < j => Before(n, q[i], q[j])

KeptBelow(n) == {m \in Below(n) : Kept(m)}

\* Mutant: the children are in the order the directory has them.
FoundUnsorted(n) == Rows(KeptBelow(n))
\* Mutant: the first excluded entry ends the listing.
FoundUpToExcluded(n) ==
  LET Cut(m) == \E i, j \in DOMAIN Names[n] :
                  /\ i < j /\ Names[n][j] = m
                  /\ Names[n][i] \in Excluded /\ info[Names[n][i]] # Nothing
      Left(m) == Kept(m) /\ ~Cut(m)
  IN {SelectSeq(Names[n], Left)}
\* The children that are left, sorted by name.
Found(n) == {q \in Rows(KeptBelow(n)) : Sorted(n, q)}

EndFind(n) ==
  /\ phase[n] = "finding" /\ names[n] = {} /\ Unread(n) = {}
  /\ phase' = [phase EXCEPT ![n] = "found"]
  /\ \E q \in Found(n) : children' = [children EXCEPT ![n] = q]
  /\ UNCHANGED <<tree, job, jobs, names, info, contents, faulty, result, prior>>

\* What opening a file and reading it can return: a symbolic link is followed.
Readable(n) ==
  CASE disk[n].kind = "file" -> {disk[n].version + 1}
    [] disk[n].kind = "symlink" -> {Elsewhere}
    [] OTHER -> {}

\* Mutant: the case of symbolic links is missing.
UnsupportedLinks(n) == info[n].kind \in {"pipe", "symlink"}
\* Visit: anything that is not a file, a directory or a symbolic link.
Unsupported(n) == info[n].kind = "pipe"

Ready(n) ==
  /\ Going /\ phase[n] = "found"
  /\ \A i \in DOMAIN children[n] : phase[children[n][i]] = "visited"

\* visitor.Visit: a file is read, a directory's listing made from its children.
VisitSave(n) ==
  /\ Ready(n) /\ job = "save"
  /\ IF Unsupported(n) \/ (info[n].kind = "file" /\ Readable(n) = {})
       THEN Fail(n) /\ UNCHANGED contents
     ELSE /\ phase' = [phase EXCEPT ![n] = "visited"]
          /\ IF info[n].kind = "file"
               THEN \E v \in Readable(n) : contents' = [contents EXCEPT ![n] = v]
               ELSE UNCHANGED contents
  /\ UNCHANGED <<tree, job, jobs, names, info, children, faulty, result, prior>>

\* listVisitor.Visit: a line for anything.
VisitList(n) ==
  /\ Ready(n) /\ job = "list"
  /\ phase' = [phase EXCEPT ![n] = "visited"]
  /\ UNCHANGED <<tree, job, jobs, names, info, children, contents, faulty, result, prior>>

\* A system call or a request fails for a reason of its own.
Fails(n) ==
  /\ phase[n] \in {"finding", "found"} /\ result = "running"
  /\ phase[n] = "found" => Ready(n)
  /\ Fail(n) /\ faulty' = TRUE
  /\ UNCHANGED <<tree, job, jobs, names, info, children, contents, result, prior>>

\* The walk is over, and so is the job.
Finish ==
  /\ result = "running" /\ \A n \in Path : phase[n] # "finding"
  /\ IF Going THEN phase[Root] = "visited" /\ result' = "ok" ELSE result' = "error"
  /\ UNCHANGED <<tree, job, jobs, walk, prior>>

Next ==
  \/ \E n \in Path : Change(n)
  \/ \E what \in {"save", "list"} : Start(what)
  \/ \E n \in Path : StartFind(n) \/ EndFind(n) \/ VisitSave(n) \/ VisitList(n) \/ Fails(n)
  \/ \E n, m \in Path : Lstat(n, m) \/ Readlink(n, m)
  \/ Finish

Spec == Init /\ [][Next]_vars

-----------------------------------------------------------------------------
(* Properties                                                              *)

TypeOK ==
  /\ disk \in [Path -> Entries] /\ changes \in Versions
  /\ job \in {"none", "save", "list"} /\ jobs \in 0..MaxJobs
  /\ phase \in [Path -> {"idle", "finding", "found", "visited", "failed"}]
  /\ names \in [Path -> SUBSET Path]
  /\ info \in [Path -> Entries]
  /\ children \in [Path -> Seq(Path)]
  /\ contents \in [Path -> 0..Elsewhere]
  /\ result \in {"none", "running", "ok", "error"} /\ faulty \in BOOLEAN
  /\ touched \subseteq Path /\ moved \subseteq Path /\ still \in BOOLEAN
  /\ job = "save" => \A n \in Path :
       phase[n] = "visited" /\ info[n].kind \in {"file", "symlink"} => contents[n] # 0

\* A save that succeeds has, of everything nobody touched while it ran, exactly
\* what is there and not excluded, with its contents, whatever was created,
\* removed or replaced beside it (FindDependencies, saveFile).
UntouchedIsSaved ==
  /\ TypeOK
  /\ result = "ok" /\ job = "save" =>
    \A n \in Path \ {Root} :
      SelfAndAbove(n) \cap touched = {} =>
        IF Exists(n) /\ SelfAndAbove(n) \cap Excluded = {}
          THEN /\ n \in DOMAIN Backup /\ info[n] = disk[n]
               /\ disk[n].kind \in {"file", "symlink"} => contents[n] = disk[n].version + 1
          ELSE n \notin DOMAIN Backup

\* A job fails, when the system does not, only over something that is not
\* excluded and became something else after its lstat, or that cannot be saved:
\* what vanishes before its lstat is no reason (readDir, Visit).
FailsForCause ==
  result = "error" /\ ~faulty =>
    \E n \in Path :
      /\ Kept(n)
      /\ n \in moved \/ (job = "save" /\ info[n].kind = "pipe")

\* Two saves of a tree that nobody changes have the same listings, in the same
\* order, and so the same score ("guaranteed to be sorted by name, for stability").
ResultIsStable ==
  result = "ok" /\ prior.result = "ok" /\ job = "save" /\ prior.job = "save" /\ still
    => Backup = prior.backup

\* What -list_only prints of a tree is what a save of it has, or one of the lines
\* is for what a save refuses, a pipe; and no save that is predicted like this
\* fails unless the system does ("list the files and directories that would be
\* saved by a backup job with the same info").
Listed(kind) == \E n \in DOMAIN prior.backup : prior.backup[n].info.kind = kind
ListPredictsSave ==
  prior.job = "list" /\ prior.result = "ok" /\ job = "save" /\ still /\ ~faulty =>
    /\ result = "error" => Listed("pipe")
    /\ result = "ok" =>
         /\ ~Listed("pipe")
         /\ DOMAIN Backup = DOMAIN prior.backup
         /\ \A n \in DOMAIN Backup : Backup[n].info = prior.backup[n].info
=============================================================================
