------------------------------- MODULE Restore -------------------------------
(***************************************************************************)
(* The restore command (restore.go, internal/restore): it empties its       *)
(* destination, then walks the backup over the contract of the walk that    *)
(* DagTraversal states, and creates each file, directory and symbolic link  *)
(* when the walk visits it: after everything below it, concurrently with     *)
(* everything that is neither above nor below.  Whoever is first in a        *)
(* directory creates it, long before the directory's own visit.             *)
(*                                                                         *)
(* The process is not the superuser.  It may be killed at any time, any     *)
(* load and any system call may fail, and the command may be run again.     *)
(***************************************************************************)
EXTENDS Integers, Sequences, FiniteSets

CONSTANTS
  Node,      \* the entries of the backup, by path
  Root,      \* the destination, which stands for the root of the backup
  Kind,      \* "dir", "file" or "symlink"
  Children,  \* Node -> the entries of its listing, in order
  Chunks,    \* Node -> how many blobs its contents are made of
  Scores,    \* Node -> how many scores its entry has
  Mode,      \* Node -> what its permissions let its owner do: "r", "w"
  Mtime,     \* Node -> the recorded mtime, in nanoseconds since 1970
  Now,       \* the mtime of what was changed and not given another one since
  MaxRuns    \* bound: runs of the command

Below(n) == {Children[n][k] : k \in DOMAIN Children[n]}

\* The paths are a tree: each is in one directory, and below the root.
IsTree ==
  /\ \A m, n \in Node : m # n => Below(m) \cap Below(n) = {}
  /\ \A n \in Node : Root \notin Below(n)
  /\ \A S \in SUBSET Node : Root \in S /\ (\A n \in S : Below(n) \subseteq S) => S = Node

ASSUME RestoreAssumption ==
  /\ Root \in Node /\ Kind \in [Node -> {"dir", "file", "symlink"}]
  /\ Kind[Root] = "dir" /\ Mode[Root] = {"r", "w"}
  /\ Children \in [Node -> Seq(Node)] /\ IsTree
  /\ \A n \in Node : Kind[n] # "dir" => Children[n] = <<>>
  /\ Chunks \in [Node -> Nat] /\ Scores \in [Node -> Nat]
  /\ \A n \in Node : Kind[n] # "file" => Chunks[n] = 0
  /\ Mode \in [Node -> SUBSET {"r", "w"}]
  /\ Mtime \in [Node -> Int] /\ Now \notin Int
  /\ MaxRuns \in Nat

VARIABLES
  pc,             \* where the command is; "idle" when none runs
  runs,           \* runs started so far
  tree,           \* what is on disk at each path
  step,           \* where the call of Visit for each node is
  phase, outcome, \* the walk (DagTraversal)
  faulty,         \* a load or a system call has failed in this run for a reason of its own
  result          \* how the last run ended

walk == <<phase, outcome>>
vars == <<pc, runs, tree, step, walk, faulty, result>>

Walk == INSTANCE DagTraversal WITH
          Start <- {Root}, Graphs <- {Children}, graph <- Children

-----------------------------------------------------------------------------
(* The file system                                                         *)

\* An entry: its contents so far, whether it has the permissions it was created
\* with or those of the backup, and its mtime.
Nothing == [kind |-> "none"]
Created(n, mode) == [kind |-> Kind[n], written |-> 0, mode |-> mode, mtime |-> Now]
Entries == {Nothing} \cup [kind : {"dir", "file", "symlink"}, written : Nat,
                           mode : {"private", "recorded"}, mtime : Int \cup {Now}]

Exists(n) == tree[n] # Nothing
Parent(n) == CHOOSE m \in Node : n \in Below(m)

\* 0700 for a directory, 0400 for a file, until it is visited.
PrivateMode(n) == IF Kind[n] = "dir" THEN {"r", "w"} ELSE {"r"}
May(n) == IF tree[n].mode = "private" THEN PrivateMode(n) ELSE Mode[n]

\* The tree with a new entry, which changes the mtime of its directory.
With(n, entry) ==
  [m \in Node |-> IF m = n THEN entry
                  ELSE IF n # Root /\ m = Parent(n) THEN [tree[m] EXCEPT !.mtime = Now]
                  ELSE tree[m]]

\* The directories above each entry: the least set with its parent and theirs.
Leading ==
  [n \in Node |-> {m \in Node : \A S \in SUBSET Node :
                     (\A k \in S \cup {n} : k # Root => Parent(k) \in S) => m \in S}]

-----------------------------------------------------------------------------
TypeOK ==
  /\ pc \in {"idle", "removing", "walking", "returned"}
  /\ runs \in 0..MaxRuns
  /\ tree \in [Node -> Entries]
  /\ \A n \in Node : Exists(n) => /\ tree[n].kind = Kind[n]
                                  /\ tree[n].written <= Scores[n]
                                  /\ n # Root => Exists(Parent(n))
  /\ step \in [Node -> {"none", "leading", "create", "write", "chmod", "chtimes"}]
  /\ phase \in [Node -> Walk!Phases] /\ outcome \in Walk!Outcomes
  /\ faulty \in BOOLEAN
  /\ result \in {"none", "ok", "error", "not removed"}

Init ==
  /\ pc = "idle" /\ runs = 0 /\ result = "none" /\ faulty = FALSE
  /\ tree = [n \in Node |-> Nothing]
  /\ step = [n \in Node |-> "none"]
  /\ phase = [n \in Node |-> "idle"] /\ outcome = "running"

-----------------------------------------------------------------------------
(* runRestore: the destination                                             *)

Start ==
  /\ pc = "idle" /\ runs < MaxRuns
  /\ pc' = "removing" /\ runs' = runs + 1 /\ result' = "none" /\ faulty' = FALSE
  /\ UNCHANGED <<tree, step, walk>>

End(how) ==
  /\ pc' = "idle" /\ result' = how
  /\ step' = [n \in Node |-> "none"]
  /\ phase' = [n \in Node |-> "idle"] /\ outcome' = "running"

\* RemoveAll can list a directory and take the entries out of it.
Removable(n) ==
  /\ Exists(n) /\ \A m \in Below(n) : ~Exists(m)
  /\ n # Root => {"r", "w"} \subseteq May(Parent(n))

RemoveEntry(n) ==
  /\ pc = "removing" /\ Removable(n)
  /\ tree' = [tree EXCEPT ![n] = Nothing]
  /\ UNCHANGED <<pc, runs, step, walk, faulty, result>>

\* Mutant: what cannot be removed is tried again.
RemoveFailsNever ==
  /\ pc = "removing" /\ Exists(Root) /\ \A n \in Node : ~Removable(n)
  /\ UNCHANGED vars

\* It removes what it can, and fails for the rest: what was restored into a
\* directory without write permission is in the way of the next restore.
RemoveFails ==
  /\ pc = "removing" /\ Exists(Root) /\ \A n \in Node : ~Removable(n)
  /\ End("not removed")
  /\ UNCHANGED <<runs, tree, faulty>>

\* Mkdir; and Restore takes its mode and mtime for those of the root node.
MakeRoot ==
  /\ pc = "removing" /\ ~Exists(Root)
  /\ tree' = With(Root, [Created(Root, "private") EXCEPT !.mtime = Mtime[Root]])
  /\ pc' = "walking"
  /\ UNCHANGED <<runs, step, walk, faulty, result>>

-----------------------------------------------------------------------------
(* The calls of the walk                                                   *)

\* Mutant: a directory is visited before what is in it.
BeginTopDown(n) ==
  /\ pc = "walking"
  /\ \/ Walk!StartFind(n) /\ UNCHANGED step
     \/ ~Walk!SomeFailed /\ Walk!Advance(n, "found", "visiting")
        /\ step' = [step EXCEPT ![n] = "leading"]
  /\ UNCHANGED <<pc, runs, tree, faulty, result>>

Begin(n) ==
  /\ pc = "walking"
  /\ \/ Walk!StartFind(n) /\ UNCHANGED step
     \/ Walk!StartVisit(n) /\ step' = [step EXCEPT ![n] = "leading"]
  /\ UNCHANGED <<pc, runs, tree, faulty, result>>

\* FindDependencies: the listing is loaded, or there is nothing to load.
Resolve(n) ==
  /\ pc = "walking" /\ phase[n] = "finding" /\ Walk!EndFind(n)
  /\ UNCHANGED <<pc, runs, tree, step, faulty, result>>

\* A load or a system call fails: a fault of the service, the disk, the network.
Fails(n) ==
  /\ pc = "walking" /\ Walk!FailCall(n) /\ faulty' = TRUE
  /\ step' = [step EXCEPT ![n] = "none"]
  /\ UNCHANGED <<pc, runs, tree, result>>

\* A system call of Visit is refused because of what Visit did before.
Refused(n) ==
  /\ Walk!FailCall(n) /\ step' = [step EXCEPT ![n] = "none"] /\ UNCHANGED tree

Goto(n, where) == step' = [step EXCEPT ![n] = where] /\ UNCHANGED walk

\* The directory takes new entries.
CanCreate(n) == n = Root \/ "w" \in May(Parent(n))

\* MkdirAll of the leading directories: one more of those that are missing, or
\* none is.  That another call creates it first is no error.
MkdirLeading(n) ==
  LET missing == {m \in Leading[n] : ~Exists(m)} IN
  /\ pc = "walking" /\ step[n] = "leading"
  /\ \/ missing = {} /\ Goto(n, "create") /\ UNCHANGED tree
     \/ \E m \in missing :
          /\ Exists(Parent(m))
          /\ IF CanCreate(m) THEN Goto(n, "leading") /\ tree' = With(m, Created(m, "private"))
                             ELSE Refused(n)
  /\ UNCHANGED <<pc, runs, faulty, result>>

\* An entry that exists is no error for a directory: MkdirAll again.
MayExist(n) == Kind[n] = "dir"

CreationMode(n) == "private"

\* The type-specific part of Visit, up to its first system call.
CreateEntry(n) ==
  /\ pc = "walking" /\ step[n] = "create"
  /\ IF IF Exists(n) THEN MayExist(n) ELSE CanCreate(n)
       THEN /\ tree' = IF Exists(n) THEN tree ELSE With(n, Created(n, CreationMode(n)))
            /\ Goto(n, IF Kind[n] = "file" THEN "write" ELSE "chmod")
       ELSE Refused(n)
  /\ UNCHANGED <<pc, runs, faulty, result>>

\* Mutant: one chunk too few.
WrittenButOne(n) == tree[n].written + 1 >= Scores[n]
Written(n) == tree[n].written >= Scores[n]

\* The next chunk is loaded and written, or the file is closed.
WriteChunk(n) ==
  /\ pc = "walking" /\ step[n] = "write"
  /\ IF Written(n) THEN Goto(n, "chmod") /\ UNCHANGED tree
       ELSE /\ tree' = [tree EXCEPT ![n].written = @ + 1, ![n].mtime = Now]
            /\ Goto(n, "write")
  /\ UNCHANGED <<pc, runs, faulty, result>>

Chmod(n) ==
  /\ pc = "walking" /\ step[n] = "chmod"
  /\ tree' = [tree EXCEPT ![n].mode = "recorded"]
  /\ Goto(n, "chtimes")
  /\ UNCHANGED <<pc, runs, faulty, result>>

\* Division in Go goes towards zero.
Quo(a, b) == IF a >= 0 THEN a \div b ELSE -((-a) \div b)
Rem(a, b) == a - b * Quo(a, b)

\* The time futimes is given: NsecToTimeval makes of the nanoseconds of a listing
\* seconds and microseconds, rounding up.
Restored(nsec) ==
  LET up == nsec + 999
      usec == Quo(Rem(up, 1000000000), 1000)
      sec == Quo(up, 1000000000)
  IN IF usec < 0 THEN 1000000000 * (sec - 1) + 1000 * (usec + 1000000)
                 ELSE 1000000000 * sec + 1000 * usec

\* chtimes opens the entry for reading, with its new permissions.
Chtimes(n) ==
  /\ pc = "walking" /\ step[n] = "chtimes"
  /\ IF "r" \in May(n)
       THEN /\ tree' = [tree EXCEPT ![n].mtime = Restored(Mtime[n])]
            /\ step' = [step EXCEPT ![n] = "none"]
            /\ Walk!EndVisit(n)
       ELSE Refused(n)
  /\ UNCHANGED <<pc, runs, faulty, result>>

\* dag.Visit returns.
WalkReturns ==
  /\ pc = "walking" /\ pc' = "returned" /\ Walk!Finish
  /\ UNCHANGED <<runs, tree, step, faulty, result>>

EndRun ==
  /\ pc = "returned"
  /\ End(IF outcome = "ok" THEN "ok" ELSE "error")
  /\ UNCHANGED <<runs, tree, faulty>>

Crash ==
  /\ pc # "idle" /\ End("none")
  /\ UNCHANGED <<runs, tree, faulty>>

Stopped == pc = "idle" /\ runs = MaxRuns /\ UNCHANGED vars

-----------------------------------------------------------------------------
Progress ==
  \/ RemoveFails \/ MakeRoot \/ WalkReturns \/ EndRun
  \/ \E n \in Node : \/ RemoveEntry(n) \/ Begin(n) \/ Resolve(n)
                     \/ MkdirLeading(n) \/ CreateEntry(n) \/ WriteChunk(n)
                     \/ Chmod(n) \/ Chtimes(n)

Next == Start \/ Progress \/ (\E n \in Node : Fails(n)) \/ Crash \/ Stopped

Spec == Init /\ [][Next]_vars
FairSpec == Spec /\ WF_vars(Progress)

-----------------------------------------------------------------------------
\* An mtime is restored to the microsecond: never to an earlier time than the
\* recorded one, and to less than a microsecond after it, or two if that is
\* before 1970.
Close(mtime, recorded) ==
  /\ mtime \in Int /\ recorded <= mtime
  /\ mtime - recorded < IF recorded >= 0 THEN 1000 ELSE 1999

\* After a successful restore everything in the backup is there, with its whole
\* contents, permissions and mtime, whatever the order of the visits and
\* whatever an earlier, interrupted restore left behind (visitor.go Visit:
\* "Fix up permissions", "Fix up mtime").
RestoredAsRecorded ==
  /\ TypeOK
  /\ outcome = "ok" \/ (pc = "idle" /\ result = "ok") =>
       \A n \in Node :
         /\ Exists(n) /\ tree[n].written = Chunks[n] /\ tree[n].mode = "recorded"
         /\ Close(tree[n].mtime, Mtime[n])

\* The restore of an intact backup never fails of its own making: no call finds
\* an entry in its way that another call or an earlier run made, nor a directory
\* already closed by the permissions restored.  What it cannot finish is an entry
\* whose own permissions, once restored, do not let its owner read it.
SoundBackupRestores ==
  outcome = "error" =>
    \/ faulty
    \/ \E n \in Node : /\ phase[n] = "failed" /\ "r" \notin Mode[n]
                       /\ Exists(n) /\ tree[n].mode = "recorded"

\* Every run ends, with success or an error.
RestoreEnds == pc # "idle" ~> pc = "idle"
=============================================================================
