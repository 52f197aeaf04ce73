---------------------------- MODULE RestoreProofs ----------------------------
(***************************************************************************)
(* Proofs about Restore, for every tree of entries, any permissions and    *)
(* contents, and any number of runs, each of which may fail or be killed    *)
(* anywhere: a successful restore leaves what was recorded, if the entries  *)
(* of the backup have a score for each of their blobs, and no restore       *)
(* stands in its own way, but for what its owner may not read once it has    *)
(* its permissions back.                                                    *)
(***************************************************************************)
EXTENDS Restore, TLAPS

------------------------------------------------------------------------------
(* The invariant                                                           *)

\* What the listings of a backup say of its files is complete.
Whole == \A n \in Node : Kind[n] = "file" => Scores[n] = Chunks[n]

Made == [kind : {"dir", "file", "symlink"}, written : Nat,
         mode : {"private", "recorded"}, mtime : Int \cup {Now}]

\* TypeOK in two parts: the tree, and the rest.
TreeType ==
    /\ tree \in [Node -> Entries]
    /\ \A n \in Node : Exists(n) => /\ tree[n].kind = Kind[n]
                                    /\ tree[n].written <= Scores[n]
                                    /\ n # Root => Exists(Parent(n))
TypeRest ==
    /\ pc \in {"idle", "removing", "walking", "returned"}
    /\ runs \in 0..MaxRuns
    /\ step \in [Node -> {"none", "leading", "create", "write", "chmod", "chtimes"}]
    /\ phase \in [Node -> Walk!Phases] /\ outcome \in Walk!Outcomes
    /\ faulty \in BOOLEAN
    /\ result \in {"none", "ok", "error", "not removed"}
TypeInv == TreeType /\ TypeRest

\* Nothing is left of the calls when a walk has ended, and a walk has a root.
AtWork == pc \in {"walking", "returned"}
RunInv ==
    /\ ~AtWork => outcome = "running" /\ \A n \in Node : phase[n] = "idle"
    /\ pc = "walking" => outcome = "running"
    /\ \A n \in Node : step[n] # "none" <=> phase[n] = "visiting"
    /\ AtWork => Exists(Root)

\* The walk comes to a directory after everything in it.
OrderInv ==
    \A n \in Node : phase[n] \in {"visiting", "visited"} =>
        \A d \in Below(n) : phase[d] = "visited"

\* The whole contents, as many blobs as there are scores.
Final(n) == IF Kind[n] = "file" THEN Scores[n] ELSE 0

\* n has not been created by its own visit yet.
Ahead(n) == phase[n] \in {"idle", "finding", "found"} \/ step[n] \in {"leading", "create"}

\* Before its visit an entry can only be there as a directory another call
\* made.
AheadInv ==
    AtWork => \A n \in Node : Ahead(n) /\ Exists(n) =>
        Kind[n] = "dir" /\ tree[n].mode = "private" /\ tree[n].written = 0

\* How far an entry is when its visit has come to a step.
StepInv ==
    \A n \in Node :
      /\ step[n] = "create" => (n = Root \/ Exists(Parent(n)))
      /\ step[n] = "write" => Exists(n) /\ Kind[n] = "file"
      /\ step[n] \in {"chmod", "chtimes"} => Exists(n) /\ tree[n].written = Final(n)
      /\ step[n] = "chtimes" => tree[n].mode = "recorded"

\* What has been visited is as in the backup, as far as the system calls can
\* make it so.
Exact(n) == tree[n] = [kind |-> Kind[n], written |-> Final(n),
                       mode |-> "recorded", mtime |-> Restored(Mtime[n])]
DoneInv == \A n \in Node : phase[n] = "visited" => Exact(n)

\* A directory gets its permissions after all that is in it.
ClosedInv ==
    AtWork => \A n \in Node : Exists(n) /\ tree[n].mode = "recorded" =>
        \A d \in Below(n) : phase[d] = "visited"

\* What a successful run leaves.
ResultInv ==
    outcome = "ok" \/ (pc = "idle" /\ result = "ok") => \A n \in Node : Exact(n)

\* A call fails for a reason of its own, or because the permissions of the
\* backup do not let it open what it has restored.
Unreadable(n) ==
    phase[n] = "failed" /\ "r" \notin Mode[n] /\ Exists(n) /\ tree[n].mode = "recorded"
FaultInv ==
    Walk!SomeFailed \/ outcome = "error" => faulty \/ \E n \in Node : Unreadable(n)

PlaceInv == AheadInv /\ StepInv /\ DoneInv /\ ClosedInv
IInv == TypeInv /\ RunInv /\ OrderInv /\ PlaceInv /\ ResultInv

------------------------------------------------------------------------------
(* The tree of the paths                                                   *)

\* What holds of the root and goes from a directory to all in it holds of all.
LEMMA Everywhere ==
    ASSUME NEW S \in SUBSET Node, Root \in S, \A n \in S : Below(n) \subseteq S
    PROVE  S = Node
  BY RestoreAssumption DEF IsTree

LEMMA BelowIs ==
    /\ \A n \in Node : Below(n) \subseteq Node
    /\ \A n \in Node : Below(n) # {} => Kind[n] = "dir"
<1>1. \A n \in Node : Children[n] \in Seq(Node)
  BY RestoreAssumption
<1>2. ASSUME NEW n \in Node PROVE Below(n) \subseteq Node
  BY <1>1 DEF Below
<1>3. ASSUME NEW n \in Node, Below(n) # {} PROVE Kind[n] = "dir"
  BY <1>3, RestoreAssumption DEF Below
<1> QED BY <1>2, <1>3

LEMMA ParentIs ==
    ASSUME NEW n \in Node, n # Root
    PROVE  Parent(n) \in Node /\ n \in Below(Parent(n))
<1> DEFINE S == {k \in Node : k = Root \/ \E m \in Node : k \in Below(m)}
<1>1. S = Node
  <2>1. S \in SUBSET Node /\ Root \in S
    BY RestoreAssumption
  <2>2. \A m \in S : Below(m) \subseteq S
    BY BelowIs
  <2> HIDE DEF S
  <2> QED BY <2>1, <2>2, Everywhere
<1>2. \E m \in Node : n \in Below(m)
  BY <1>1
<1> QED BY <1>2 DEF Parent

LEMMA ParentOf ==
    ASSUME NEW m \in Node, NEW n \in Below(m)
    PROVE  n \in Node /\ n # Root /\ Parent(n) = m
<1>1. n \in Node /\ n # Root
  BY BelowIs, RestoreAssumption DEF IsTree
<1>2. Parent(n) \in Node /\ n \in Below(Parent(n))
  BY <1>1, ParentIs
<1>3. Parent(n) = m
  BY <1>2, RestoreAssumption DEF IsTree
<1> QED BY <1>1, <1>3

\* The leading directories of a path are directories, its parent among them.
LEMMA LeadingIs ==
    ASSUME NEW n \in Node
    PROVE  /\ Leading[n] \subseteq Node
           /\ n # Root => Parent(n) \in Leading[n]
           /\ \A m \in Leading[n] : Kind[m] = "dir"
<1>1. Leading[n] = {m \in Node : \A S \in SUBSET Node :
                     (\A k \in S \cup {n} : k # Root => Parent(k) \in S) => m \in S}
  BY DEF Leading
<1>2. n # Root => Parent(n) \in Leading[n]
  BY <1>1, ParentIs
<1> DEFINE D == {k \in Node : Kind[k] = "dir"}
<1>3. \A k \in D \cup {n} : k # Root => Parent(k) \in D
  <2> TAKE k \in D \cup {n}
  <2> HAVE k # Root
  <2>1. Parent(k) \in Node /\ k \in Below(Parent(k))
    BY ParentIs
  <2> QED BY <2>1, BelowIs
<1>4. D \in SUBSET Node
  OBVIOUS
<1>5. Leading[n] \subseteq D
  <2> HIDE DEF D
  <2> QED BY <1>1, <1>3, <1>4
<1> QED BY <1>1, <1>2, <1>5

------------------------------------------------------------------------------
(* The times                                                               *)

LEMMA RoundedUp ==
    ASSUME NEW t \in Int
    PROVE  Restored(t) \in Int /\ Close(Restored(t), t)
<1>1. /\ Restored(t) \in Int /\ t <= Restored(t)
      /\ Restored(t) < t + 1999 /\ (t >= 0 => Restored(t) < t + 1000)
  BY SMT DEF Restored, Quo, Rem
<1>2. PICK r \in Int : r = Restored(t)
  BY <1>1
<1> QED BY <1>1, <1>2, SMT DEF Close

LEMMA RestoredIs ==
    ASSUME NEW n \in Node
    PROVE  Restored(Mtime[n]) \in Int /\ Close(Restored(Mtime[n]), Mtime[n])
  BY RoundedUp, RestoreAssumption

------------------------------------------------------------------------------
(* How a step changes the tree                                             *)

LEMMA MadeIs ==
    /\ Entries = {Nothing} \cup Made
    /\ Nothing \notin Made
    /\ \A n \in Node : Created(n, "private") \in Made
    /\ \A n \in Node : /\ Created(n, "private").kind = Kind[n]
                       /\ Created(n, "private").written = 0
                       /\ Created(n, "private").mode = "private"
<1>1. Entries = {Nothing} \cup Made
  BY DEF Entries, Made
<1>2. \A e \in Made : e.kind # "none"
  BY DEF Made
<1>3. Nothing.kind = "none"
  BY DEF Nothing
<1>4. \A n \in Node : Kind[n] \in {"dir", "file", "symlink"}
  BY RestoreAssumption
<1> QED BY <1>1, <1>2, <1>3, <1>4 DEF Created, Made

LEMMA StampIs ==
    ASSUME NEW e \in Made, NEW t \in Int \cup {Now}
    PROVE  /\ [e EXCEPT !.mtime = t] \in Made
           /\ [e EXCEPT !.mtime = t].kind = e.kind
           /\ [e EXCEPT !.mtime = t].written = e.written
           /\ [e EXCEPT !.mtime = t].mode = e.mode
           /\ [e EXCEPT !.mtime = t].mtime = t
  BY DEF Made

LEMMA ChmodIs ==
    ASSUME NEW e \in Made
    PROVE  /\ [e EXCEPT !.mode = "recorded"] \in Made
           /\ [e EXCEPT !.mode = "recorded"].kind = e.kind
           /\ [e EXCEPT !.mode = "recorded"].written = e.written
           /\ [e EXCEPT !.mode = "recorded"].mode = "recorded"
           /\ [e EXCEPT !.mode = "recorded"].mtime = e.mtime
  BY DEF Made

LEMMA ChunkIs ==
    ASSUME NEW e \in Made
    PROVE  LET f == [e EXCEPT !.written = @ + 1, !.mtime = Now] IN
           /\ f \in Made /\ f.kind = e.kind /\ f.written = e.written + 1
           /\ f.mode = e.mode /\ f.mtime = Now
<1>1. PICK w \in Nat : w = e.written + 1
  BY DEF Made
<1>2. PICK f : f = [e EXCEPT !.written = w, !.mtime = Now]
  OBVIOUS
<1>3. f = [kind |-> e.kind, written |-> w, mode |-> e.mode, mtime |-> Now]
  BY <1>2 DEF Made
<1> QED BY <1>1, <1>2, <1>3 DEF Made

LEMMA EntryIs ==
    ASSUME NEW e \in Made
    PROVE  e = [kind |-> e.kind, written |-> e.written, mode |-> e.mode, mtime |-> e.mtime]
  BY DEF Made

\* What exists is a whole entry.
LEMMA ExistsIs ==
    ASSUME TreeType, NEW n \in Node
    PROVE  /\ Exists(n) <=> tree[n] \in Made
           /\ ~Exists(n) <=> tree[n] = Nothing
  BY MadeIs DEF TreeType, Exists

\* m is as it was, but for its mtime.
Kept(m) ==
    /\ Exists(m)' <=> Exists(m)
    /\ Exists(m) => /\ tree'[m].kind = tree[m].kind
                    /\ tree'[m].written = tree[m].written
                    /\ tree'[m].mode = tree[m].mode

\* A new entry leaves all others alone, but for the mtime of its directory.
LEMMA NewEntry ==
    ASSUME TreeType, NEW n \in Node, ~Exists(n), n = Root \/ Exists(Parent(n)),
           NEW e \in Made, e.kind = Kind[n], e.written = 0, tree' = With(n, e)
    PROVE  /\ TreeType' /\ tree'[n] = e /\ Exists(n)'
           /\ \A m \in Node : m # n => Kept(m)
           /\ \A m \in Node : m # n /\ n \notin Below(m) => tree'[m] = tree[m]
<1>1. /\ tree'[n] = e /\ Exists(n)' /\ tree' \in [Node -> Entries]
      /\ \A m \in Node : m # n => tree'[m] = IF n # Root /\ m = Parent(n)
                                                THEN [tree[m] EXCEPT !.mtime = Now]
                                                ELSE tree[m]
  <2>1. ASSUME n # Root PROVE [tree[Parent(n)] EXCEPT !.mtime = Now] \in Made
    <3>1. tree[Parent(n)] \in Made
      BY <2>1, ParentIs, ExistsIs
    <3> QED BY <3>1, StampIs
  <2> QED BY <2>1, MadeIs DEF With, TreeType, Exists
<1>2. ASSUME NEW m \in Node, m # n
      PROVE  /\ Kept(m)
             /\ Exists(m) => /\ tree'[m].kind = tree[m].kind
                             /\ tree'[m].written = tree[m].written
  <2>1. CASE n # Root /\ m = Parent(n)
    <3>1. tree[m] \in Made
      BY <2>1, ExistsIs
    <3>2. /\ tree'[m] \in Made /\ tree'[m].kind = tree[m].kind
          /\ tree'[m].written = tree[m].written /\ tree'[m].mode = tree[m].mode
      <4>1. tree'[m] = [tree[m] EXCEPT !.mtime = Now]
        BY <1>1, <1>2, <2>1
      <4>2. Now \in Int \cup {Now}
        OBVIOUS
      <4>3. PICK f : f = [tree[m] EXCEPT !.mtime = Now]
        OBVIOUS
      <4>4. /\ f \in Made /\ f.kind = tree[m].kind
            /\ f.written = tree[m].written /\ f.mode = tree[m].mode
        BY <3>1, <4>2, <4>3, StampIs
      <4> QED BY <4>1, <4>3, <4>4
    <3> QED BY <3>1, <3>2, MadeIs DEF Kept, Exists
  <2>2. CASE ~(n # Root /\ m = Parent(n))
    BY <1>1, <1>2, <2>2 DEF Kept, Exists
  <2> QED BY <2>1, <2>2
<1>3. \A m \in Node : m # n /\ n \notin Below(m) => tree'[m] = tree[m]
  BY <1>1, ParentIs
<1>4. \A m \in Node : Exists(m) => Exists(m)'
  BY <1>1, <1>2 DEF Kept
<1>5. ASSUME NEW m \in Node, Exists(m)'
      PROVE  /\ tree'[m].kind = Kind[m] /\ tree'[m].written <= Scores[m]
             /\ m # Root => Exists(Parent(m))'
  <2>1. CASE m = n
    <3>1. Scores[n] \in Nat
      BY RestoreAssumption
    <3> QED BY <1>1, <1>4, <2>1, <3>1, ParentIs
  <2>2. CASE m # n
    BY <1>2, <1>4, <1>5, <2>2, ParentIs DEF Kept, TreeType
  <2> QED BY <2>1, <2>2
<1> QED BY <1>1, <1>2, <1>3, <1>5 DEF TreeType

\* A change to one entry that exists.
LEMMA ChangedEntry ==
    ASSUME TreeType, NEW n \in Node, Exists(n), NEW e \in Made,
           e.kind = tree[n].kind, e.written <= Scores[n], tree' = [tree EXCEPT ![n] = e]
    PROVE  /\ TreeType' /\ tree'[n] = e /\ Exists(n)'
           /\ \A m \in Node : m # n => tree'[m] = tree[m]
           /\ \A m \in Node : Exists(m)' <=> Exists(m)
<1>1. tree'[n] = e /\ \A m \in Node : m # n => tree'[m] = tree[m]
  BY DEF TreeType
<1>2. \A m \in Node : Exists(m)' <=> Exists(m)
  BY <1>1, MadeIs DEF Exists
<1>3. tree' \in [Node -> Entries]
  BY MadeIs DEF TreeType
<1>4. ASSUME NEW m \in Node, Exists(m)'
      PROVE  /\ tree'[m].kind = Kind[m] /\ tree'[m].written <= Scores[m]
             /\ m # Root => Exists(Parent(m))'
  BY <1>1, <1>2, <1>4, ParentIs DEF TreeType
<1> QED BY <1>1, <1>2, <1>3, <1>4 DEF TreeType

------------------------------------------------------------------------------
(* What the steps of a walk do                                             *)

\* A call of the walk that begins or ends changes one phase, and nothing else
\* of the walk.
LEMMA CallMoves ==
    ASSUME TypeRest, NEW n \in Node,
           \/ Walk!StartFind(n) \/ Walk!StartVisit(n) \/ Walk!EndFind(n)
           \/ Walk!EndVisit(n) \/ Walk!FailCall(n)
    PROVE  /\ phase' \in [Node -> Walk!Phases] /\ outcome = "running" /\ outcome' = outcome
           /\ \A m \in Node : m # n => phase'[m] = phase[m]
           /\ <<phase[n], phase'[n]>> \in
                 {<<"idle", "finding">>, <<"finding", "found">>, <<"found", "visiting">>,
                  <<"visiting", "visited">>, <<"finding", "failed">>, <<"visiting", "failed">>}
  BY DEF TypeRest, Walk!StartFind, Walk!StartVisit, Walk!EndFind,
         Walk!EndVisit, Walk!FailCall, Walk!Advance, Walk!Phases

LEMMA DepsAreBelow == \A n : Walk!Deps(Children, n) = Below(n)
  BY DEF Walk!Deps, Below

\* What a visit has to create it may create: a directory is not closed while
\* something is missing in it.
LEMMA MayCreate ==
    ASSUME TypeInv, PlaceInv, AtWork, NEW n \in Node, ~Exists(n),
           n = Root \/ Exists(Parent(n))
    PROVE  CanCreate(n)
<1> SUFFICES ASSUME n # Root PROVE "w" \in May(Parent(n))
  BY DEF CanCreate
<1>1. Parent(n) \in Node /\ n \in Below(Parent(n)) /\ Kind[Parent(n)] = "dir"
  BY ParentIs, BelowIs
<1>2. tree[Parent(n)].mode # "recorded"
  <2>1. phase[n] # "visited"
    <3>1. ASSUME Exact(n) PROVE Exists(n)
      <4>1. tree[n].kind = Kind[n] /\ Kind[n] \in {"dir", "file", "symlink"}
        BY <3>1, RestoreAssumption DEF Exact
      <4>2. Nothing.kind = "none"
        BY DEF Nothing
      <4> QED BY <4>1, <4>2 DEF Exists
    <3> QED BY <3>1 DEF PlaceInv, DoneInv
  <2> QED BY <1>1, <2>1 DEF PlaceInv, ClosedInv
<1>3. tree[Parent(n)] \in Made
  BY <1>1, ExistsIs DEF TypeInv
<1> QED BY <1>1, <1>2, <1>3 DEF May, PrivateMode, Made

LEMMA LeadingStep ==
    ASSUME TypeInv, RunInv, PlaceInv, NEW n \in Node, MkdirLeading(n)
    PROVE  /\ pc = "walking" /\ step[n] = "leading" /\ UNCHANGED <<pc, runs, walk, faulty, result>>
           /\ \/ /\ step' = [step EXCEPT ![n] = "create"] /\ tree' = tree
                 /\ n = Root \/ Exists(Parent(n))
              \/ /\ step' = step
                 /\ \E m \in Node : /\ ~Exists(m) /\ m # Root /\ Exists(Parent(m))
                                    /\ Kind[m] = "dir"
                                    /\ tree' = With(m, Created(m, "private"))
<1> DEFINE missing == {m \in Leading[n] : ~Exists(m)}
<1>1. AtWork /\ Exists(Root)
  BY DEF MkdirLeading, AtWork, RunInv
<1>2. CASE missing = {} /\ Goto(n, "create") /\ UNCHANGED tree
  <2>1. n # Root => Exists(Parent(n))
    BY <1>2, LeadingIs
  <2> QED BY <1>2, <2>1 DEF MkdirLeading, Goto
<1>3. CASE \E m \in missing :
             /\ Exists(Parent(m))
             /\ IF CanCreate(m) THEN Goto(n, "leading") /\ tree' = With(m, Created(m, "private"))
                                ELSE Refused(n)
  <2>1. PICK m \in missing :
             /\ Exists(Parent(m))
             /\ IF CanCreate(m) THEN Goto(n, "leading") /\ tree' = With(m, Created(m, "private"))
                                ELSE Refused(n)
    BY <1>3
  <2>2. m \in Node /\ ~Exists(m) /\ m # Root /\ Kind[m] = "dir"
    BY <1>1, <2>1, LeadingIs
  <2>3. CanCreate(m)
    BY <1>1, <2>1, <2>2, MayCreate
  <2>4. step' = step
    BY <2>1, <2>3 DEF MkdirLeading, Goto, TypeInv, TypeRest
  <2> QED BY <2>1, <2>2, <2>3, <2>4 DEF MkdirLeading, Goto
<1> QED BY <1>2, <1>3 DEF MkdirLeading

\* The first system call of a visit, after its directory was made: it finds
\* nothing in its way but a directory.
LEMMA CreateStep ==
    ASSUME TypeInv, RunInv, PlaceInv, NEW n \in Node, CreateEntry(n)
    PROVE  /\ pc = "walking" /\ step[n] = "create" /\ UNCHANGED <<pc, runs, walk, faulty, result>>
           /\ step' = [step EXCEPT ![n] = IF Kind[n] = "file" THEN "write" ELSE "chmod"]
           /\ \/ Exists(n) /\ Kind[n] = "dir" /\ tree' = tree
              \/ /\ ~Exists(n) /\ n # Root /\ Exists(Parent(n))
                 /\ tree' = With(n, Created(n, "private"))
<1>1. AtWork /\ Exists(Root) /\ step[n] = "create" /\ Ahead(n)
  BY DEF CreateEntry, AtWork, RunInv, Ahead
<1>2. n = Root \/ Exists(Parent(n))
  BY <1>1 DEF PlaceInv, StepInv
<1>3. Exists(n) => MayExist(n)
  BY <1>1 DEF PlaceInv, AheadInv, MayExist
<1>4. ~Exists(n) => CanCreate(n)
  BY <1>1, <1>2, MayCreate
<1> QED BY <1>1, <1>2, <1>3, <1>4 DEF CreateEntry, Goto, MayExist, CreationMode

LEMMA WriteStep ==
    ASSUME TypeInv, PlaceInv, NEW n \in Node, WriteChunk(n)
    PROVE  /\ pc = "walking" /\ step[n] = "write" /\ UNCHANGED <<pc, runs, walk, faulty, result>>
           /\ Exists(n) /\ Kind[n] = "file"
           /\ \/ /\ step' = [step EXCEPT ![n] = "chmod"] /\ tree' = tree
                 /\ tree[n].written = Scores[n]
              \/ /\ step' = step /\ TreeType' /\ Exists(n)'
                 /\ \A m \in Node : m # n => tree'[m] = tree[m]
                 /\ \A m \in Node : Exists(m)' <=> Exists(m)
                 /\ tree'[n].mode = tree[n].mode
<1>1. /\ step[n] = "write" /\ Exists(n) /\ Kind[n] = "file"
      /\ tree[n] \in Made /\ tree[n].written <= Scores[n]
  BY ExistsIs DEF WriteChunk, PlaceInv, StepInv, TypeInv, TreeType
<1>2. tree[n].written \in Nat /\ Scores[n] \in Nat
  BY <1>1, RestoreAssumption DEF Made
<1>3. CASE Written(n)
  BY <1>1, <1>2, <1>3 DEF WriteChunk, Goto, Written
<1>4. CASE ~Written(n)
  <2>1. PICK e : e = [tree[n] EXCEPT !.written = @ + 1, !.mtime = Now]
    OBVIOUS
  <2>2. /\ e \in Made /\ e.kind = tree[n].kind /\ e.written = tree[n].written + 1
        /\ e.mode = tree[n].mode
    BY <1>1, <2>1, ChunkIs
  <2>3. e.written <= Scores[n]
    BY <1>2, <1>4, <2>2 DEF Written
  <2>4. tree' = [tree EXCEPT ![n] = e]
    BY <1>4, <2>1 DEF WriteChunk
  <2>5. step' = step
    BY <1>1, <1>4 DEF WriteChunk, Goto, TypeInv, TypeRest
  <2>6. /\ TreeType' /\ tree'[n] = e /\ Exists(n)'
        /\ \A m \in Node : m # n => tree'[m] = tree[m]
        /\ \A m \in Node : Exists(m)' <=> Exists(m)
    BY <1>1, <2>2, <2>3, <2>4, ChangedEntry DEF TypeInv
  <2> QED BY <1>1, <1>4, <2>2, <2>5, <2>6 DEF WriteChunk, Goto
<1> QED BY <1>3, <1>4

LEMMA ChmodStep ==
    ASSUME TypeInv, PlaceInv, NEW n \in Node, Chmod(n)
    PROVE  /\ pc = "walking" /\ step[n] = "chmod" /\ UNCHANGED <<pc, runs, walk, faulty, result>>
           /\ step' = [step EXCEPT ![n] = "chtimes"] /\ TreeType' /\ Exists(n)'
           /\ \A m \in Node : m # n => tree'[m] = tree[m]
           /\ \A m \in Node : Exists(m)' <=> Exists(m)
           /\ tree'[n].mode = "recorded" /\ tree'[n].written = tree[n].written
<1>1. /\ step[n] = "chmod" /\ Exists(n) /\ tree[n] \in Made
      /\ tree[n].written <= Scores[n]
  BY ExistsIs DEF Chmod, PlaceInv, StepInv, TypeInv, TreeType
<1>2. PICK e : e = [tree[n] EXCEPT !.mode = "recorded"]
  OBVIOUS
<1>3. /\ e \in Made /\ e.kind = tree[n].kind /\ e.written = tree[n].written
      /\ e.mode = "recorded"
  BY <1>1, <1>2, ChmodIs
<1>4. tree' = [tree EXCEPT ![n] = e]
  BY <1>2 DEF Chmod
<1>5. /\ TreeType' /\ tree'[n] = e /\ Exists(n)'
      /\ \A m \in Node : m # n => tree'[m] = tree[m]
      /\ \A m \in Node : Exists(m)' <=> Exists(m)
  BY <1>1, <1>3, <1>4, ChangedEntry DEF TypeInv
<1> QED BY <1>1, <1>3, <1>5 DEF Chmod, Goto

LEMMA ChtimesStep ==
    ASSUME TypeInv, PlaceInv, NEW n \in Node, Chtimes(n)
    PROVE  /\ pc = "walking" /\ step[n] = "chtimes" /\ UNCHANGED <<pc, runs, faulty, result>>
           /\ step' = [step EXCEPT ![n] = "none"] /\ TreeType'
           /\ \A m \in Node : m # n => tree'[m] = tree[m]
           /\ \A m \in Node : Exists(m)' <=> Exists(m)
           /\ \/ Walk!EndVisit(n) /\ Exact(n)' /\ Exists(n)'
              \/ Walk!FailCall(n) /\ tree' = tree /\ "r" \notin Mode[n]
<1>1. /\ step[n] = "chtimes" /\ Exists(n) /\ tree[n] \in Made
      /\ tree[n].kind = Kind[n] /\ tree[n].written <= Scores[n]
      /\ tree[n].written = Final(n) /\ tree[n].mode = "recorded"
  BY ExistsIs DEF Chtimes, PlaceInv, StepInv, TypeInv, TreeType
<1>2. CASE "r" \in May(n)
  <2>1. PICK e : e = [tree[n] EXCEPT !.mtime = Restored(Mtime[n])]
    OBVIOUS
  <2>2. /\ e \in Made /\ e.kind = tree[n].kind /\ e.written = tree[n].written
        /\ e.mode = tree[n].mode /\ e.mtime = Restored(Mtime[n])
    <3>1. Restored(Mtime[n]) \in Int
      BY RestoredIs
    <3> QED BY <1>1, <2>1, <3>1, StampIs
  <2>3. tree' = [tree EXCEPT ![n] = e]
    BY <1>2, <2>1 DEF Chtimes
  <2>4. /\ TreeType' /\ tree'[n] = e /\ Exists(n)'
        /\ \A m \in Node : m # n => tree'[m] = tree[m]
        /\ \A m \in Node : Exists(m)' <=> Exists(m)
    BY <1>1, <2>2, <2>3, ChangedEntry DEF TypeInv
  <2>5. Exact(n)'
    BY <1>1, <2>2, <2>4, EntryIs DEF Exact, Final
  <2> QED BY <1>1, <1>2, <2>4, <2>5 DEF Chtimes
<1>3. CASE "r" \notin May(n)
  <2>1. "r" \notin Mode[n]
    BY <1>1, <1>3 DEF May
  <2>2. tree' = tree
    BY <1>3 DEF Chtimes, Refused
  <2>3. TreeType' /\ \A m \in Node : Exists(m)' <=> Exists(m)
    BY <2>2 DEF TypeInv, TreeType, Exists
  <2> QED BY <1>1, <1>3, <2>1, <2>2, <2>3 DEF Chtimes, Refused
<1> QED BY <1>2, <1>3

------------------------------------------------------------------------------
(* Every step keeps the types, and no call is left over                    *)

LEMMA InitIInv == Init => IInv /\ FaultInv
<1> SUFFICES ASSUME Init PROVE IInv /\ FaultInv
  OBVIOUS
<1>1. \A n \in Node : phase[n] = "idle" /\ step[n] = "none" /\ ~Exists(n)
  BY DEF Init, Exists
<1>2. TypeInv
  <2>1. TreeType
    BY <1>1, MadeIs DEF Init, TreeType
  <2>2. runs \in 0..MaxRuns
    BY RestoreAssumption DEF Init
  <2> QED BY <2>1, <2>2 DEF Init, TypeInv, TypeRest, Walk!Phases, Walk!Outcomes
<1>3. RunInv /\ OrderInv /\ PlaceInv /\ ResultInv /\ FaultInv
  BY <1>1 DEF Init, RunInv, AtWork, OrderInv, PlaceInv, AheadInv, StepInv, DoneInv,
     ClosedInv, ResultInv, FaultInv, Walk!SomeFailed
<1> QED BY <1>2, <1>3 DEF IInv

\* A step of an unfinished visit changes neither what the walk knows nor where
\* the command is.
VisitStep(n) == MkdirLeading(n) \/ CreateEntry(n) \/ WriteChunk(n) \/ Chmod(n)

\* A call that begins or ends, at the nodes it is about.
CallStep(n) == Begin(n) \/ Resolve(n) \/ Fails(n)

LEMMA CallStepIs ==
    ASSUME TypeInv, RunInv, NEW n \in Node, CallStep(n)
    PROVE  /\ pc = "walking" /\ UNCHANGED <<pc, runs, tree, result, outcome>>
           /\ outcome = "running" /\ phase' \in [Node -> Walk!Phases]
           /\ \A m \in Node : m # n => phase'[m] = phase[m] /\ step'[m] = step[m]
           /\ \/ phase[n] = "idle" /\ phase'[n] = "finding"
              \/ phase[n] = "finding" /\ phase'[n] = "found"
              \/ phase[n] = "found" /\ phase'[n] = "visiting" /\ Walk!StartVisit(n)
              \/ phase[n] \in {"finding", "visiting"} /\ phase'[n] = "failed"
           /\ step'[n] = IF phase'[n] = "visiting" THEN "leading" ELSE "none"
           /\ step' \in [Node -> {"none", "leading", "create", "write", "chmod", "chtimes"}]
           /\ faulty' = IF phase'[n] = "failed" THEN TRUE ELSE faulty
<1>0. /\ step \in [Node -> {"none", "leading", "create", "write", "chmod", "chtimes"}]
      /\ phase \in [Node -> Walk!Phases]
      /\ step[n] # "none" <=> phase[n] = "visiting"
  BY DEF TypeInv, TypeRest, RunInv
<1>1. CASE Begin(n)
  <2>1. CASE Walk!StartFind(n) /\ UNCHANGED step
    <3>1. phase[n] = "idle" /\ phase'[n] = "finding"
      BY <1>0, <2>1 DEF Walk!StartFind, Walk!Advance
    <3> QED BY <1>0, <1>1, <2>1, <3>1, CallMoves DEF Begin, TypeInv
  <2>2. CASE Walk!StartVisit(n) /\ step' = [step EXCEPT ![n] = "leading"]
    <3>1. phase[n] = "found" /\ phase'[n] = "visiting"
      BY <1>0, <2>2 DEF Walk!StartVisit, Walk!Advance
    <3> QED BY <1>0, <1>1, <2>2, <3>1, CallMoves DEF Begin, TypeInv
  <2> QED BY <1>1, <2>1, <2>2 DEF Begin
<1>2. CASE Resolve(n)
  <2>1. phase[n] = "finding" /\ phase'[n] = "found"
    BY <1>0, <1>2 DEF Resolve, Walk!EndFind, Walk!Advance
  <2> QED BY <1>0, <1>2, <2>1, CallMoves DEF Resolve, TypeInv
<1>3. CASE Fails(n)
  <2>1. phase[n] \in {"finding", "visiting"} /\ phase'[n] = "failed"
    BY <1>0, <1>3 DEF Fails, Walk!FailCall, Walk!Advance
  <2> QED BY <1>0, <1>3, <2>1, CallMoves DEF Fails, TypeInv
<1> QED BY <1>1, <1>2, <1>3 DEF CallStep

\* The steps of a run outside its walk.
RunStep ==
    \/ Start \/ RemoveFails \/ MakeRoot \/ WalkReturns \/ EndRun \/ Crash
    \/ (\E n \in Node : RemoveEntry(n)) \/ UNCHANGED vars

LEMMA NextCases ==
    ASSUME [Next]_vars
    PROVE  RunStep \/ \E n \in Node : VisitStep(n) \/ CallStep(n) \/ Chtimes(n)
  BY DEF Next, Progress, Stopped, RunStep, VisitStep, CallStep

LEMMA NextRest ==
    ASSUME IInv, [Next]_vars
    PROVE  TypeRest' /\ RunInv'
<1> USE DEF walk
<1>0. TypeInv /\ RunInv /\ PlaceInv /\ TypeRest /\ Root \in Node /\ MaxRuns \in Nat
  BY RestoreAssumption DEF IInv, TypeInv
<1>1. ASSUME NEW n \in Node, CallStep(n) PROVE TypeRest' /\ RunInv'
  <2>1. /\ pc = "walking" /\ UNCHANGED <<pc, runs, tree, result, outcome>>
        /\ phase' \in [Node -> Walk!Phases] /\ outcome = "running" /\ faulty' \in BOOLEAN
        /\ step' \in [Node -> {"none", "leading", "create", "write", "chmod", "chtimes"}]
        /\ \A m \in Node : m # n => phase'[m] = phase[m] /\ step'[m] = step[m]
        /\ step'[n] = IF phase'[n] = "visiting" THEN "leading" ELSE "none"
    BY <1>0, <1>1, CallStepIs DEF TypeRest
  <2>2. TypeRest'
    BY <1>0, <2>1 DEF TypeRest
  <2>3. \A m \in Node : step'[m] # "none" <=> phase'[m] = "visiting"
    BY <1>0, <2>1 DEF RunInv
  <2>4. Exists(Root)'
    BY <1>0, <2>1 DEF Exists, RunInv, AtWork
  <2> QED BY <2>1, <2>2, <2>3, <2>4 DEF RunInv, AtWork
<1>2. ASSUME NEW n \in Node, Chtimes(n) PROVE TypeRest' /\ RunInv'
  <2>1. Walk!EndVisit(n) \/ Walk!FailCall(n)
    BY <1>0, <1>2, ChtimesStep
  <2>2. /\ phase' \in [Node -> Walk!Phases] /\ outcome = "running" /\ outcome' = outcome
        /\ \A m \in Node : m # n => phase'[m] = phase[m]
        /\ phase'[n] # "visiting"
    <3>1. phase[n] = "visiting"
      BY <1>0, <1>2 DEF Chtimes, RunInv
    <3> QED BY <1>0, <2>1, <3>1, CallMoves
  <2>3. /\ pc = "walking" /\ UNCHANGED <<pc, runs, faulty, result>>
        /\ step' = [step EXCEPT ![n] = "none"] /\ (Exists(Root)' <=> Exists(Root))
    BY <1>0, <1>2, ChtimesStep
  <2>4. TypeRest'
    BY <1>0, <2>2, <2>3 DEF TypeRest
  <2>5. \A m \in Node : step'[m] # "none" <=> phase'[m] = "visiting"
    BY <1>0, <2>2, <2>3 DEF TypeRest, RunInv
  <2> QED BY <1>0, <2>2, <2>3, <2>4, <2>5 DEF RunInv, AtWork
<1>3. ASSUME NEW n \in Node, VisitStep(n) PROVE TypeRest' /\ RunInv'
  <2>1. UNCHANGED <<pc, runs, phase, outcome, faulty, result>> /\ pc = "walking"
    BY <1>0, <1>3, LeadingStep, CreateStep, WriteStep, ChmodStep DEF VisitStep
  <2>2. /\ step[n] # "none"
        /\ \/ step' = step
           \/ \E s \in {"create", "write", "chmod", "chtimes"} : step' = [step EXCEPT ![n] = s]
    BY <1>0, <1>3, LeadingStep, CreateStep, WriteStep, ChmodStep DEF VisitStep
  <2>3. Exists(Root)'
    <3>1. Exists(Root)
      BY <1>0, <2>1 DEF RunInv, AtWork
    <3>2. ASSUME NEW m \in Node, ~Exists(m), m # Root, Exists(Parent(m)),
                 tree' = With(m, Created(m, "private"))
          PROVE  Exists(Root)'
      <4>1. Kept(Root)
        BY <1>0, <3>2, NewEntry, MadeIs DEF TypeInv
      <4> QED BY <3>1, <4>1 DEF Kept
    <3>3. CASE tree' = tree
      BY <3>1, <3>3 DEF Exists
    <3> QED BY <1>0, <1>3, <3>1, <3>2, <3>3, LeadingStep, CreateStep, WriteStep, ChmodStep
        DEF VisitStep
  <2>4. TypeRest'
    <3>1. step' \in [Node -> {"none", "leading", "create", "write", "chmod", "chtimes"}]
      BY <1>0, <2>2 DEF TypeRest
    <3> QED BY <1>0, <2>1, <3>1 DEF TypeRest
  <2>5. \A m \in Node : step'[m] # "none" <=> phase'[m] = "visiting"
    BY <1>0, <2>1, <2>2 DEF TypeRest, RunInv
  <2> QED BY <1>0, <2>1, <2>3, <2>4, <2>5 DEF RunInv, AtWork
<1>4. CASE RunStep
  <2>1. ASSUME NEW how \in {"none", "ok", "error", "not removed"}, End(how),
               UNCHANGED <<runs, tree, faulty>>
        PROVE  TypeRest' /\ RunInv'
    BY <1>0, <2>1 DEF End, TypeRest, RunInv, AtWork, Walk!Phases, Walk!Outcomes
  <2>2. CASE RemoveFails \/ EndRun \/ Crash
    <3>1. \E how \in {"none", "ok", "error", "not removed"} :
             End(how) /\ UNCHANGED <<runs, tree, faulty>>
      BY <2>2 DEF RemoveFails, EndRun, Crash
    <3> QED BY <2>1, <3>1
  <2>3. CASE Start
    <3>1. runs' \in 0..MaxRuns
      <4>1. PICK r \in 0..MaxRuns : r = runs
        BY <1>0 DEF TypeRest
      <4>2. r < MaxRuns /\ runs' = r + 1
        BY <2>3, <4>1 DEF Start
      <4>3. r + 1 \in 0..MaxRuns
        BY <1>0, <4>1, <4>2
      <4> QED BY <4>2, <4>3
    <3> QED BY <1>0, <2>3, <3>1 DEF Start, TypeRest, RunInv, AtWork
  <2>7. CASE \E n \in Node : RemoveEntry(n)
    BY <1>0, <2>7 DEF RemoveEntry, TypeRest, RunInv, AtWork
  <2>4. CASE MakeRoot
    <3>1. tree' = With(Root, [Created(Root, "private") EXCEPT !.mtime = Mtime[Root]]) /\ ~Exists(Root)
      BY <2>4 DEF MakeRoot
    <3>2. PICK e : e = [Created(Root, "private") EXCEPT !.mtime = Mtime[Root]]
      OBVIOUS
    <3>3. e \in Made /\ e.kind = Kind[Root] /\ e.written = 0
      <4>1. PICK c \in Made : c = Created(Root, "private") /\ c.kind = Kind[Root] /\ c.written = 0
        BY <1>0, MadeIs
      <4> QED BY <3>2, <4>1, StampIs, RestoreAssumption
    <3>4. Exists(Root)'
      BY <1>0, <3>1, <3>2, <3>3, NewEntry DEF TypeInv
    <3> QED BY <1>0, <2>4, <3>4 DEF MakeRoot, TypeRest, RunInv, AtWork
  <2>5. CASE WalkReturns
    BY <1>0, <2>5 DEF WalkReturns, Walk!Finish, TypeRest, RunInv, AtWork, Exists, Walk!Outcomes
  <2>6. CASE UNCHANGED vars
    BY <1>0, <2>6 DEF vars, TypeRest, RunInv, AtWork, Exists
  <2> QED BY <1>4, <2>2, <2>3, <2>4, <2>5, <2>6, <2>7 DEF RunStep
<1> QED BY <1>1, <1>2, <1>3, <1>4, NextCases

------------------------------------------------------------------------------
(* Every step keeps the order of the visits and what they have made        *)

\* An entry that is as in the backup exists.
LEMMA ExactExists ==
    ASSUME NEW n \in Node, Exact(n)
    PROVE  Exists(n)
<1>1. tree[n].kind = Kind[n] /\ Kind[n] \in {"dir", "file", "symlink"}
  BY RestoreAssumption DEF Exact
<1>2. Nothing.kind = "none"
  BY DEF Nothing
<1> QED BY <1>1, <1>2 DEF Exists

LEMMA NextOrder ==
    ASSUME IInv, [Next]_vars
    PROVE  OrderInv'
<1> USE DEF walk
<1>0. TypeInv /\ RunInv /\ PlaceInv /\ TypeRest /\ OrderInv
  BY DEF IInv, TypeInv
<1>1. ASSUME NEW n \in Node, CallStep(n) PROVE OrderInv'
  <2>1. /\ \A m \in Node : m # n => phase'[m] = phase[m]
        /\ phase[n] # "visited" /\ phase'[n] # "visited"
        /\ phase'[n] = "visiting" => Walk!StartVisit(n)
    BY <1>0, <1>1, CallStepIs
  <2>2. Walk!StartVisit(n) => \A d \in Below(n) : phase[d] = "visited"
    BY DepsAreBelow DEF Walk!StartVisit
  <2>3. ASSUME NEW m \in Node, phase'[m] \in {"visiting", "visited"}, NEW d \in Below(m)
        PROVE  phase'[d] = "visited"
    <3>1. phase[d] = "visited"
      BY <1>0, <2>1, <2>2, <2>3 DEF OrderInv
    <3> QED BY <2>1, <2>3, <3>1, BelowIs
  <2> QED BY <2>3 DEF OrderInv
<1>2. ASSUME NEW n \in Node, Chtimes(n) PROVE OrderInv'
  <2>1. Walk!EndVisit(n) \/ Walk!FailCall(n)
    BY <1>0, <1>2, ChtimesStep
  <2>2. phase[n] = "visiting"
    BY <1>0, <1>2 DEF Chtimes, RunInv
  <2>3. \A m \in Node : m # n => phase'[m] = phase[m]
    BY <1>0, <2>1, CallMoves
  <2>4. ASSUME NEW m \in Node, phase'[m] \in {"visiting", "visited"}, NEW d \in Below(m)
        PROVE  phase'[d] = "visited"
    <3>1. phase[d] = "visited"
      BY <1>0, <2>2, <2>3, <2>4 DEF OrderInv
    <3> QED BY <2>2, <2>3, <2>4, <3>1, BelowIs
  <2> QED BY <2>4 DEF OrderInv
<1>3. ASSUME NEW n \in Node, VisitStep(n) PROVE OrderInv'
  <2>1. phase' = phase
    BY <1>0, <1>3, LeadingStep, CreateStep, WriteStep, ChmodStep DEF VisitStep
  <2> QED BY <1>0, <2>1 DEF OrderInv
<1>4. CASE RunStep
  <2>1. phase' = phase \/ \A n \in Node : phase'[n] = "idle"
    BY <1>4 DEF RunStep, Start, RemoveFails, MakeRoot, WalkReturns, EndRun, Crash,
       RemoveEntry, vars, End, Walk!Finish
  <2> QED BY <1>0, <2>1 DEF OrderInv
<1> QED BY <1>1, <1>2, <1>3, <1>4, NextCases

\* A new entry takes nothing from what is there.
LEMMA NewKeeps ==
    ASSUME IInv, AtWork, NEW n \in Node, ~Exists(n), n # Root, Exists(Parent(n)),
           tree' = With(n, Created(n, "private")), UNCHANGED phase
    PROVE  /\ TreeType' /\ DoneInv' /\ ClosedInv' /\ Exists(n)'
           /\ tree'[n].kind = Kind[n] /\ tree'[n].written = 0 /\ tree'[n].mode = "private"
           /\ \A m \in Node : m # n => Kept(m)
           /\ \A m \in Node : Exists(m) => m # n /\ Exists(m)'
<1>0. TypeInv /\ RunInv /\ PlaceInv /\ OrderInv /\ TreeType
  BY DEF IInv, TypeInv
<1>1. /\ TreeType' /\ Exists(n)'
      /\ tree'[n].kind = Kind[n] /\ tree'[n].written = 0 /\ tree'[n].mode = "private"
      /\ \A m \in Node : m # n => Kept(m)
      /\ \A m \in Node : m # n /\ n \notin Below(m) => tree'[m] = tree[m]
  <2>1. PICK e \in Made : /\ e = Created(n, "private") /\ e.kind = Kind[n] /\ e.written = 0
                          /\ e.mode = "private"
    BY MadeIs
  <2> QED BY <1>0, <2>1, NewEntry
<1>2. \A m \in Node : Exists(m) => m # n /\ Exists(m)'
  BY <1>1 DEF Kept
<1>3. phase[n] # "visited"
  BY <1>0, ExactExists DEF PlaceInv, DoneInv
<1>4. ASSUME NEW m \in Node, phase'[m] = "visited"
      PROVE  Exact(m)'
  <2>1. m # n /\ n \notin Below(m)
    BY <1>0, <1>3, <1>4 DEF OrderInv
  <2> QED BY <1>0, <1>1, <1>4, <2>1 DEF PlaceInv, DoneInv, Exact, Final
<1>5. ASSUME NEW m \in Node, Exists(m)', tree'[m].mode = "recorded", NEW d \in Below(m)
      PROVE  phase'[d] = "visited"
  <2>1. m # n
    BY <1>1, <1>5
  <2>2. Exists(m) /\ tree[m].mode = "recorded"
    BY <1>1, <1>5, <2>1 DEF Kept
  <2> QED BY <1>0, <2>2 DEF PlaceInv, ClosedInv
<1> QED BY <1>1, <1>2, <1>4, <1>5 DEF DoneInv, ClosedInv

\* A change to the entry whose visit is under way takes nothing from others.
LEMMA OneKeeps ==
    ASSUME IInv, NEW n \in Node, phase[n] = "visiting", UNCHANGED phase, AtWork,
           \A m \in Node : m # n => tree'[m] = tree[m],
           \A m \in Node : Exists(m)' <=> Exists(m)
    PROVE  DoneInv' /\ ClosedInv'
<1>1. ASSUME NEW m \in Node, phase'[m] = "visited"
      PROVE  Exact(m)'
  BY <1>1 DEF IInv, PlaceInv, DoneInv, Exact, Final
<1>2. ASSUME NEW m \in Node, Exists(m)', tree'[m].mode = "recorded", NEW d \in Below(m)
      PROVE  phase'[d] = "visited"
  <2>1. CASE m = n
    BY <2>1 DEF IInv, OrderInv
  <2>2. CASE m # n
    BY <1>2, <2>2 DEF IInv, PlaceInv, ClosedInv
  <2> QED BY <2>1, <2>2
<1> QED BY <1>1, <1>2 DEF DoneInv, ClosedInv

LEMMA LeadingKeeps ==
    ASSUME IInv, NEW n \in Node, MkdirLeading(n)
    PROVE  TreeType' /\ PlaceInv'
<1> USE DEF walk
<1>0. TypeInv /\ RunInv /\ PlaceInv /\ TypeRest /\ TreeType /\ AtWork
  BY DEF IInv, TypeInv, MkdirLeading, AtWork
<1>1. /\ step[n] = "leading" /\ UNCHANGED <<pc, phase>>
      /\ \/ /\ step' = [step EXCEPT ![n] = "create"] /\ tree' = tree
            /\ n = Root \/ Exists(Parent(n))
         \/ /\ step' = step
            /\ \E m \in Node : /\ ~Exists(m) /\ m # Root /\ Exists(Parent(m))
                               /\ Kind[m] = "dir"
                               /\ tree' = With(m, Created(m, "private"))
  BY <1>0, LeadingStep
<1>2. CASE /\ step' = [step EXCEPT ![n] = "create"] /\ tree' = tree
           /\ n = Root \/ Exists(Parent(n))
  <2>1. /\ step'[n] = "create" /\ \A m \in Node : m # n => step'[m] = step[m]
        /\ \A m : Exists(m)' <=> Exists(m)
        /\ \A m \in Node : Ahead(m)' <=> Ahead(m)
    BY <1>0, <1>1, <1>2 DEF TypeRest, Exists, Ahead
  <2>2. TreeType' /\ AheadInv' /\ DoneInv' /\ ClosedInv'
    BY <1>0, <1>1, <1>2, <2>1
       DEF TreeType, PlaceInv, AheadInv, DoneInv, ClosedInv, AtWork, Exact, Final
  <2>3. StepInv'
    BY <1>0, <1>2, <2>1 DEF PlaceInv, StepInv, Final
  <2> QED BY <2>2, <2>3 DEF PlaceInv
<1>3. ASSUME step' = step, NEW m \in Node, ~Exists(m), m # Root, Exists(Parent(m)),
             Kind[m] = "dir", tree' = With(m, Created(m, "private"))
      PROVE  TreeType' /\ PlaceInv'
  <2>1. /\ TreeType' /\ DoneInv' /\ ClosedInv' /\ Exists(m)'
        /\ tree'[m].written = 0 /\ tree'[m].mode = "private"
        /\ \A k \in Node : k # m => Kept(k)
        /\ \A k \in Node : Exists(k) => k # m /\ Exists(k)'
    BY <1>0, <1>1, <1>3, NewKeeps
  <2>2. AheadInv'
    <3>1. ASSUME NEW k \in Node, Ahead(k)', Exists(k)'
          PROVE  Kind[k] = "dir" /\ tree'[k].mode = "private" /\ tree'[k].written = 0
      <4>1. Ahead(k)
        BY <1>1, <1>3, <3>1 DEF Ahead
      <4>2. CASE k = m
        BY <1>3, <2>1, <4>2
      <4>3. CASE k # m
        BY <1>0, <2>1, <3>1, <4>1, <4>3 DEF Kept, PlaceInv, AheadInv
      <4> QED BY <4>2, <4>3
    <3> QED BY <3>1 DEF AheadInv
  <2>3. StepInv'
    <3>1. ASSUME NEW k \in Node
          PROVE  /\ step'[k] = "create" => (k = Root \/ Exists(Parent(k))')
                 /\ step'[k] = "write" => Exists(k)' /\ Kind[k] = "file"
                 /\ step'[k] \in {"chmod", "chtimes"} => Exists(k)' /\ tree'[k].written = Final(k)
                 /\ step'[k] = "chtimes" => tree'[k].mode = "recorded"
      <4>1. step'[k] = "create" => (k = Root \/ Exists(Parent(k))')
        BY <1>0, <1>3, <2>1, ParentIs DEF PlaceInv, StepInv
      <4>2. step'[k] \in {"write", "chmod", "chtimes"} => Exists(k) /\ k # m
        BY <1>0, <1>3 DEF PlaceInv, StepInv
      <4> QED BY <1>0, <1>3, <2>1, <4>1, <4>2 DEF PlaceInv, StepInv, Kept
    <3> QED BY <3>1 DEF StepInv, Final
  <2> QED BY <2>1, <2>2, <2>3 DEF PlaceInv
<1> QED BY <1>1, <1>2, <1>3

LEMMA CreateKeeps ==
    ASSUME IInv, NEW n \in Node, CreateEntry(n)
    PROVE  TreeType' /\ PlaceInv'
<1> USE DEF walk
<1>0. TypeInv /\ RunInv /\ PlaceInv /\ TypeRest /\ TreeType /\ AtWork
  BY DEF IInv, TypeInv, CreateEntry, AtWork
<1>1. /\ step[n] = "create" /\ UNCHANGED <<pc, phase>> /\ phase[n] = "visiting"
      /\ step' = [step EXCEPT ![n] = IF Kind[n] = "file" THEN "write" ELSE "chmod"]
      /\ \/ Exists(n) /\ Kind[n] = "dir" /\ tree' = tree
         \/ /\ ~Exists(n) /\ n # Root /\ Exists(Parent(n))
            /\ tree' = With(n, Created(n, "private"))
  BY <1>0, CreateStep DEF RunInv
<1>2. /\ step'[n] = IF Kind[n] = "file" THEN "write" ELSE "chmod"
      /\ \A m \in Node : m # n => step'[m] = step[m]
  BY <1>0, <1>1 DEF TypeRest
<1>3. ~Ahead(n)' /\ \A m \in Node : m # n => (Ahead(m)' <=> Ahead(m))
  BY <1>1, <1>2 DEF Ahead
<1>4. /\ TreeType' /\ DoneInv' /\ ClosedInv' /\ Exists(n)' /\ tree'[n].written = 0
      /\ \A k \in Node : k # n => Kept(k)
      /\ \A k \in Node : Exists(k) => Exists(k)'
  <2>1. CASE Exists(n) /\ Kind[n] = "dir" /\ tree' = tree
    <3>1. tree[n].written = 0
      BY <1>0, <1>1, <2>1 DEF PlaceInv, AheadInv, Ahead
    <3>2. \A m : Exists(m)' <=> Exists(m)
      BY <2>1 DEF Exists
    <3>3. TreeType' /\ DoneInv' /\ ClosedInv'
      BY <1>0, <1>1, <2>1, <3>2
         DEF TreeType, PlaceInv, DoneInv, ClosedInv, AtWork, Exact, Final
    <3> QED BY <2>1, <3>1, <3>2, <3>3 DEF Kept
  <2>2. CASE /\ ~Exists(n) /\ n # Root /\ Exists(Parent(n))
             /\ tree' = With(n, Created(n, "private"))
    BY <1>0, <1>1, <2>2, NewKeeps
  <2> QED BY <1>1, <2>1, <2>2
<1>5. AheadInv'
  <2>1. ASSUME NEW k \in Node, Ahead(k)', Exists(k)'
        PROVE  Kind[k] = "dir" /\ tree'[k].mode = "private" /\ tree'[k].written = 0
    BY <1>0, <1>3, <1>4, <2>1 DEF Kept, PlaceInv, AheadInv
  <2> QED BY <2>1 DEF AheadInv
<1>6. StepInv'
  <2>1. ASSUME NEW k \in Node
        PROVE  /\ step'[k] = "create" => (k = Root \/ Exists(Parent(k))')
               /\ step'[k] = "write" => Exists(k)' /\ Kind[k] = "file"
               /\ step'[k] \in {"chmod", "chtimes"} => Exists(k)' /\ tree'[k].written = Final(k)
               /\ step'[k] = "chtimes" => tree'[k].mode = "recorded"
    <3>1. CASE k = n
      BY <1>2, <1>4, <3>1 DEF Final
    <3>2. CASE k # n
      <4>1. step'[k] = "create" => (k = Root \/ Exists(Parent(k))')
        BY <1>0, <1>2, <1>4, <3>2, ParentIs DEF PlaceInv, StepInv
      <4> QED BY <1>0, <1>2, <1>4, <3>2, <4>1 DEF PlaceInv, StepInv, Kept
    <3> QED BY <3>1, <3>2
  <2> QED BY <2>1 DEF StepInv, Final
<1> QED BY <1>4, <1>5, <1>6 DEF PlaceInv

\* The steps that change one entry, during its visit.
LEMMA WriteKeeps ==
    ASSUME IInv, NEW n \in Node, WriteChunk(n) \/ Chmod(n)
    PROVE  TreeType' /\ PlaceInv'
<1> USE DEF walk
<1>0. TypeInv /\ RunInv /\ PlaceInv /\ TypeRest /\ TreeType /\ AtWork
  BY DEF IInv, TypeInv, WriteChunk, Chmod, AtWork
<1>1. /\ step[n] \in {"write", "chmod"} /\ UNCHANGED <<pc, phase>> /\ phase[n] = "visiting"
      /\ TreeType' /\ Exists(n)'
      /\ \A m \in Node : m # n => tree'[m] = tree[m]
      /\ \A m \in Node : Exists(m)' <=> Exists(m)
      /\ \/ /\ step' = [step EXCEPT ![n] = "chmod"] /\ tree'[n].written = Final(n)
         \/ step' = step /\ step[n] = "write" /\ Kind[n] = "file"
         \/ /\ step' = [step EXCEPT ![n] = "chtimes"]
            /\ tree'[n].mode = "recorded" /\ tree'[n].written = Final(n)
  <2>1. CASE WriteChunk(n)
    <3>1. CASE tree' = tree
      <4>1. TreeType' /\ \A m : Exists(m)' <=> Exists(m)
        BY <1>0, <3>1 DEF TreeType, Exists
      <4> QED BY <1>0, <2>1, <3>1, <4>1, WriteStep DEF RunInv, Final
    <3>2. CASE tree' # tree
      BY <1>0, <2>1, <3>2, WriteStep DEF RunInv
    <3> QED BY <3>1, <3>2
  <2>2. CASE Chmod(n)
    BY <1>0, <2>2, ChmodStep DEF RunInv, PlaceInv, StepInv
  <2> QED BY <2>1, <2>2
<1>2. DoneInv' /\ ClosedInv'
  BY <1>0, <1>1, OneKeeps
<1>3. step'[n] \in {"write", "chmod", "chtimes"} /\ \A m \in Node : m # n => step'[m] = step[m]
  BY <1>0, <1>1 DEF TypeRest
<1>4. AheadInv'
  <2>1. ~Ahead(n)' /\ \A m \in Node : m # n => (Ahead(m)' <=> Ahead(m))
    BY <1>1, <1>3 DEF Ahead
  <2>2. ASSUME NEW k \in Node, Ahead(k)', Exists(k)'
        PROVE  Kind[k] = "dir" /\ tree'[k].mode = "private" /\ tree'[k].written = 0
    BY <1>0, <1>1, <2>1, <2>2 DEF PlaceInv, AheadInv
  <2> QED BY <2>2 DEF AheadInv
<1>5. StepInv'
  <2>1. ASSUME NEW k \in Node
        PROVE  /\ step'[k] = "create" => (k = Root \/ Exists(Parent(k))')
               /\ step'[k] = "write" => Exists(k)' /\ Kind[k] = "file"
               /\ step'[k] \in {"chmod", "chtimes"} => Exists(k)' /\ tree'[k].written = Final(k)
               /\ step'[k] = "chtimes" => tree'[k].mode = "recorded"
    <3>1. CASE k = n
      BY <1>0, <1>1, <3>1 DEF TypeRest
    <3>2. CASE k # n
      <4>1. step'[k] = "create" => (k = Root \/ Exists(Parent(k))')
        BY <1>0, <1>1, <1>3, <3>2, ParentIs DEF PlaceInv, StepInv
      <4> QED BY <1>0, <1>1, <1>3, <3>2, <4>1 DEF PlaceInv, StepInv
    <3> QED BY <3>1, <3>2
  <2> QED BY <2>1 DEF StepInv, Final
<1> QED BY <1>1, <1>2, <1>4, <1>5 DEF PlaceInv

LEMMA ChtimesKeeps ==
    ASSUME IInv, NEW n \in Node, Chtimes(n)
    PROVE  TreeType' /\ PlaceInv'
<1>0. TypeInv /\ RunInv /\ PlaceInv /\ TypeRest /\ OrderInv
  BY DEF IInv, TypeInv
<1>1. /\ TreeType' /\ pc = "walking" /\ pc' = pc /\ step' = [step EXCEPT ![n] = "none"]
      /\ \A m \in Node : m # n => tree'[m] = tree[m]
      /\ \A m \in Node : Exists(m)' <=> Exists(m)
      /\ \/ Walk!EndVisit(n) /\ Exact(n)'
         \/ Walk!FailCall(n)
  BY <1>0, ChtimesStep
<1>2. phase[n] = "visiting"
  BY <1>0 DEF Chtimes, RunInv
<1>3. /\ \A m \in Node : m # n => phase'[m] = phase[m] /\ step'[m] = step[m]
      /\ step'[n] = "none"
      /\ (phase'[n] = "visited" /\ Exact(n)') \/ phase'[n] = "failed"
  <2>1. /\ \A m \in Node : m # n => phase'[m] = phase[m]
        /\ phase'[n] \in {"visited", "failed"}
    BY <1>0, <1>1, <1>2, CallMoves
  <2>2. Walk!FailCall(n) => phase'[n] = "failed"
    BY <1>0 DEF Walk!FailCall, Walk!Advance, TypeRest
  <2> QED BY <1>0, <1>1, <2>1, <2>2 DEF TypeRest
<1>4. AheadInv'
  <2>1. ~Ahead(n)' /\ \A m \in Node : m # n => (Ahead(m)' <=> Ahead(m))
    BY <1>3 DEF Ahead
  <2>2. ASSUME NEW k \in Node, Ahead(k)', Exists(k)'
        PROVE  Kind[k] = "dir" /\ tree'[k].mode = "private" /\ tree'[k].written = 0
    BY <1>0, <1>1, <2>1, <2>2 DEF PlaceInv, AheadInv, AtWork
  <2> QED BY <2>2 DEF AheadInv
<1>5. StepInv'
  <2>1. ASSUME NEW k \in Node, k # n
        PROVE  /\ step'[k] = "create" => (k = Root \/ Exists(Parent(k))')
               /\ step'[k] = "write" => Exists(k)' /\ Kind[k] = "file"
               /\ step'[k] \in {"chmod", "chtimes"} => Exists(k)' /\ tree'[k].written = Final(k)
               /\ step'[k] = "chtimes" => tree'[k].mode = "recorded"
    <3>1. step'[k] = "create" => (k = Root \/ Exists(Parent(k))')
      BY <1>0, <1>1, <1>3, <2>1, ParentIs DEF PlaceInv, StepInv
    <3> QED BY <1>0, <1>1, <1>3, <2>1, <3>1 DEF PlaceInv, StepInv
  <2> QED BY <1>3, <2>1 DEF StepInv, Final
<1>6. DoneInv'
  <2>1. ASSUME NEW k \in Node, phase'[k] = "visited" PROVE Exact(k)'
    BY <1>0, <1>1, <1>3, <2>1 DEF PlaceInv, DoneInv, Exact, Final
  <2> QED BY <2>1 DEF DoneInv
<1>7. ClosedInv'
  <2>1. ASSUME NEW k \in Node, Exists(k)', tree'[k].mode = "recorded", NEW d \in Below(k)
        PROVE  phase'[d] = "visited"
    <3>1. phase[d] = "visited"
      BY <1>0, <1>1, <1>2, <2>1 DEF PlaceInv, ClosedInv, OrderInv, AtWork
    <3> QED BY <1>2, <1>3, <3>1, BelowIs
  <2> QED BY <2>1 DEF ClosedInv
<1> QED BY <1>1, <1>4, <1>5, <1>6, <1>7 DEF PlaceInv

LEMMA CallKeeps ==
    ASSUME IInv, NEW n \in Node, CallStep(n)
    PROVE  TreeType' /\ PlaceInv'
<1>0. TypeInv /\ RunInv /\ PlaceInv /\ TreeType
  BY DEF IInv, TypeInv
<1>1. /\ pc = "walking" /\ pc' = pc /\ tree' = tree
      /\ \A m \in Node : m # n => phase'[m] = phase[m] /\ step'[m] = step[m]
      /\ phase[n] # "visited" /\ phase'[n] # "visited"
      /\ \/ phase[n] \in {"idle", "finding", "found"} /\ step'[n] \in {"none", "leading"}
         \/ phase'[n] = "failed" /\ step'[n] = "none"
  BY <1>0, CallStepIs
<1>2. TreeType' /\ \A m : Exists(m)' <=> Exists(m)
  BY <1>0, <1>1 DEF TreeType, Exists
<1>3. \A m \in Node : Ahead(m)' => Ahead(m)
  BY <1>1 DEF Ahead
<1>4. AheadInv'
  BY <1>0, <1>1, <1>2, <1>3 DEF PlaceInv, AheadInv, AtWork
<1>5. StepInv'
  <2>1. ASSUME NEW k \in Node, k # n
        PROVE  /\ step'[k] = "create" => (k = Root \/ Exists(Parent(k))')
               /\ step'[k] = "write" => Exists(k)' /\ Kind[k] = "file"
               /\ step'[k] \in {"chmod", "chtimes"} => Exists(k)' /\ tree'[k].written = Final(k)
               /\ step'[k] = "chtimes" => tree'[k].mode = "recorded"
    BY <1>0, <1>1, <1>2, <2>1 DEF PlaceInv, StepInv
  <2> QED BY <1>1, <2>1 DEF StepInv, Final
<1>6. DoneInv'
  BY <1>0, <1>1 DEF PlaceInv, DoneInv, Exact, Final
<1>7. ClosedInv'
  <2>1. ASSUME NEW k \in Node, Exists(k)', tree'[k].mode = "recorded", NEW d \in Below(k)
        PROVE  phase'[d] = "visited"
    <3>1. phase[d] = "visited"
      BY <1>0, <1>1, <1>2, <2>1 DEF PlaceInv, ClosedInv, AtWork
    <3> QED BY <1>1, <2>1, <3>1, BelowIs
  <2> QED BY <2>1 DEF ClosedInv
<1> QED BY <1>2, <1>4, <1>5, <1>6, <1>7 DEF PlaceInv

\* Without its root, nothing is left of the destination.
LEMMA RootIsAll ==
    ASSUME TreeType, ~Exists(Root), NEW n \in Node
    PROVE  ~Exists(n)
<1> DEFINE S == {m \in Node : ~Exists(m)}
<1>1. S \in SUBSET Node /\ Root \in S
  BY RestoreAssumption
<1>2. \A m \in S : Below(m) \subseteq S
  <2> TAKE m \in S
  <2>1. ASSUME NEW d \in Below(m) PROVE d \in S
    BY ParentOf DEF TreeType
  <2> QED BY <2>1
<1>3. S = Node
  <2> HIDE DEF S
  <2> QED BY <1>1, <1>2, Everywhere
<1> QED BY <1>3

LEMMA RunKeeps ==
    ASSUME IInv, RunStep, RunInv'
    PROVE  TreeType' /\ PlaceInv'
<1> USE DEF walk
<1>0. TypeInv /\ RunInv /\ PlaceInv /\ TreeType
  BY DEF IInv, TypeInv
<1>1. CASE \E n \in Node : RemoveEntry(n)
  <2>1. PICK n \in Node : RemoveEntry(n)
    BY <1>1
  <2>2. /\ tree' = [tree EXCEPT ![n] = Nothing] /\ ~AtWork'
        /\ \A m \in Below(n) : ~Exists(m)
    BY <2>1 DEF RemoveEntry, Removable, AtWork
  <2>3. \A m \in Node : tree'[m] = IF m = n THEN Nothing ELSE tree[m]
    BY <1>0, <2>2 DEF TreeType
  <2>4. \A m \in Node : Exists(m)' <=> Exists(m) /\ m # n
    BY <2>3 DEF Exists
  <2>5. \A m \in Node : m # Root /\ Exists(m) => Parent(m) # n
    BY <2>2, ParentIs
  <2>6. TreeType'
    <3>1. tree' \in [Node -> Entries]
      BY <1>0, <2>2, MadeIs DEF TreeType
    <3>2. ASSUME NEW m \in Node, Exists(m)'
          PROVE  /\ tree'[m].kind = Kind[m] /\ tree'[m].written <= Scores[m]
                 /\ m # Root => Exists(Parent(m))'
      BY <1>0, <2>3, <2>4, <2>5, <3>2, ParentIs DEF TreeType
    <3> QED BY <3>1, <3>2 DEF TreeType
  <2>7. \A m \in Node : phase'[m] = "idle" /\ step'[m] = "none"
    BY <1>0, <2>1, <2>2 DEF RemoveEntry, RunInv, AtWork
  <2> QED BY <2>2, <2>6, <2>7 DEF PlaceInv, AheadInv, StepInv, DoneInv, ClosedInv
<1>2. CASE MakeRoot
  <2>0. ~Exists(Root) /\ Root \in Node /\ ~AtWork
    BY <1>2, RestoreAssumption DEF MakeRoot, AtWork
  <2>1. PICK e \in Made : /\ e = [Created(Root, "private") EXCEPT !.mtime = Mtime[Root]]
                          /\ e.kind = Kind[Root] /\ e.written = 0 /\ e.mode = "private"
    <3>1. PICK c \in Made : /\ c = Created(Root, "private") /\ c.kind = Kind[Root]
                            /\ c.written = 0 /\ c.mode = "private"
      BY <2>0, MadeIs
    <3>2. /\ [c EXCEPT !.mtime = Mtime[Root]] \in Made
          /\ [c EXCEPT !.mtime = Mtime[Root]].kind = c.kind
          /\ [c EXCEPT !.mtime = Mtime[Root]].written = c.written
          /\ [c EXCEPT !.mtime = Mtime[Root]].mode = c.mode
      BY <2>0, StampIs, RestoreAssumption
    <3> QED BY <3>1, <3>2
  <2>2. tree' = With(Root, e)
    BY <1>2, <2>1 DEF MakeRoot
  <2>3. /\ TreeType' /\ tree'[Root] = e
        /\ \A m \in Node : m # Root => Kept(m)
    BY <1>0, <2>0, <2>1, <2>2, NewEntry
  <2>4. \A m \in Node : Exists(m)' => m = Root
    BY <1>0, <2>0, <2>3, RootIsAll DEF Kept
  <2>5. \A m \in Node : phase'[m] = "idle" /\ step'[m] = "none"
    BY <1>0, <1>2, <2>0 DEF MakeRoot, RunInv
  <2>6. Kind[Root] = "dir"
    BY RestoreAssumption
  <2>7. AheadInv' /\ ClosedInv'
    BY <2>1, <2>3, <2>4, <2>6 DEF AheadInv, ClosedInv
  <2> QED BY <2>3, <2>5, <2>7 DEF PlaceInv, StepInv, DoneInv
<1>3. CASE UNCHANGED tree /\ ~AtWork'
  <2>1. \A m \in Node : phase'[m] = "idle" /\ step'[m] = "none"
    BY <1>3 DEF RunInv
  <2>2. TreeType'
    BY <1>0, <1>3 DEF TreeType, Exists
  <2> QED BY <1>3, <2>1, <2>2 DEF PlaceInv, AheadInv, StepInv, DoneInv, ClosedInv
<1>4. CASE UNCHANGED <<tree, phase, step>> /\ (AtWork' <=> AtWork)
  <2>1. \A m : (Exists(m)' <=> Exists(m)) /\ (Ahead(m)' <=> Ahead(m))
    BY <1>4 DEF Exists, Ahead
  <2>2. TreeType'
    BY <1>0, <1>4, <2>1 DEF TreeType
  <2>3. AheadInv' /\ ClosedInv' /\ DoneInv'
    BY <1>0, <1>4, <2>1 DEF PlaceInv, AheadInv, ClosedInv, DoneInv, Exact, Final
  <2>4. StepInv'
    BY <1>0, <1>4, <2>1 DEF PlaceInv, StepInv, Final
  <2> QED BY <2>2, <2>3, <2>4 DEF PlaceInv
<1>5. CASE Start \/ RemoveFails \/ EndRun \/ Crash
  BY <1>3, <1>5 DEF Start, RemoveFails, EndRun, Crash, End, AtWork
<1>6. CASE WalkReturns \/ UNCHANGED vars
  BY <1>4, <1>6 DEF WalkReturns, Walk!Finish, vars, AtWork
<1> QED BY <1>1, <1>2, <1>5, <1>6 DEF RunStep

------------------------------------------------------------------------------
(* What a run leaves, and why it fails                                     *)

LEMMA AllReached == Walk!Reachable(Children) = Node
<1>1. ASSUME NEW S \in SUBSET Node, {Root} \subseteq S, Walk!Closed(Children, S)
      PROVE  S = Node
  BY <1>1, DepsAreBelow, Everywhere DEF Walk!Closed
<1>2. \A n \in Node : n \in Walk!Reachable(Children)
  BY <1>1 DEF Walk!Reachable
<1> QED BY <1>2 DEF Walk!Reachable

LEMMA NextResult ==
    ASSUME IInv, [Next]_vars
    PROVE  ResultInv'
<1> USE DEF walk
<1>0. TypeInv /\ RunInv /\ PlaceInv /\ ResultInv
  BY DEF IInv
<1>1. ASSUME outcome' = "running", pc' # "idle" \/ result' # "ok"
      PROVE  ResultInv'
  BY <1>1 DEF ResultInv
<1>2. ASSUME UNCHANGED tree, \A n \in Node : Exact(n)
      PROVE  ResultInv'
  BY <1>2 DEF ResultInv, Exact, Final
<1>3. ASSUME NEW n \in Node, VisitStep(n) \/ CallStep(n) \/ Chtimes(n)
      PROVE  ResultInv'
  <2>1. pc' = "walking" /\ outcome' = "running"
    <3>1. CASE VisitStep(n)
      BY <1>0, <3>1, LeadingStep, CreateStep, WriteStep, ChmodStep DEF VisitStep, RunInv
    <3>2. CASE CallStep(n)
      BY <1>0, <3>2, CallStepIs
    <3>3. CASE Chtimes(n)
      <4>1. Walk!EndVisit(n) \/ Walk!FailCall(n)
        BY <1>0, <3>3, ChtimesStep
      <4> QED BY <1>0, <3>3, <4>1, CallMoves DEF Chtimes, TypeInv
    <3> QED BY <1>3, <3>1, <3>2, <3>3
  <2> QED BY <1>1, <2>1
<1>4. CASE RunStep
  <2>1. CASE Start \/ MakeRoot \/ RemoveFails \/ Crash \/ \E n \in Node : RemoveEntry(n)
    BY <1>0, <1>1, <2>1 DEF Start, MakeRoot, RemoveFails, Crash, RemoveEntry, End, RunInv, AtWork
  <2>2. CASE EndRun
    <3>1. CASE outcome = "ok"
      BY <1>0, <1>2, <2>2, <3>1 DEF EndRun, ResultInv
    <3>2. CASE outcome # "ok"
      BY <1>1, <2>2, <3>2 DEF EndRun, End
    <3> QED BY <3>1, <3>2
  <2>3. CASE WalkReturns
    <3>1. CASE outcome' = "ok"
      <4>1. \A n \in Node : phase[n] = "visited"
        BY <2>3, <3>1, AllReached DEF WalkReturns, Walk!Finish
      <4> QED BY <1>0, <1>2, <2>3, <4>1 DEF WalkReturns, PlaceInv, DoneInv
    <3>2. CASE outcome' # "ok"
      BY <2>3, <3>2 DEF WalkReturns, ResultInv
    <3> QED BY <3>1, <3>2
  <2>4. CASE UNCHANGED vars
    BY <1>0, <2>4 DEF vars, ResultInv, Exact, Final
  <2> QED BY <1>4, <2>1, <2>2, <2>3, <2>4 DEF RunStep
<1> QED BY <1>3, <1>4, NextCases

LEMMA NextIInv ==
    ASSUME IInv, [Next]_vars
    PROVE  IInv'
<1>1. TypeRest' /\ RunInv' /\ OrderInv' /\ ResultInv'
  BY NextRest, NextOrder, NextResult
<1>2. TreeType' /\ PlaceInv'
  <2>1. ASSUME NEW n \in Node, VisitStep(n) \/ CallStep(n) \/ Chtimes(n)
        PROVE  TreeType' /\ PlaceInv'
    BY <2>1, LeadingKeeps, CreateKeeps, WriteKeeps, ChtimesKeeps, CallKeeps DEF VisitStep
  <2> QED BY <1>1, <2>1, RunKeeps, NextCases
<1> QED BY <1>1, <1>2 DEF IInv, TypeInv

\* What could not be opened stays so: nothing else changes it in this walk.
LEMMA StaysUnreadable ==
    ASSUME IInv, NEW n \in Node, Unreadable(n),
           NEW k \in Node, VisitStep(k) \/ CallStep(k) \/ Chtimes(k)
    PROVE  Unreadable(n)'
<1> USE DEF walk
<1>0. TypeInv /\ RunInv /\ PlaceInv /\ TypeRest /\ TreeType
  BY DEF IInv, TypeInv
<1>1. phase[n] = "failed" /\ Exists(n) /\ tree[n].mode = "recorded"
  BY DEF Unreadable
<1>2. ASSUME phase'[n] = phase[n], Kept(n) PROVE Unreadable(n)'
  BY <1>1, <1>2 DEF Unreadable, Kept
<1>3. ASSUME phase'[n] = phase[n], tree'[n] = tree[n] PROVE Unreadable(n)'
  BY <1>3 DEF Unreadable, Exists
<1>4. CASE VisitStep(k)
  <2>1. phase' = phase /\ k # n
    BY <1>0, <1>1, <1>4, LeadingStep, CreateStep, WriteStep, ChmodStep DEF VisitStep, RunInv
  <2>2. ASSUME NEW m \in Node, ~Exists(m), m # Root, Exists(Parent(m)),
               tree' = With(m, Created(m, "private"))
        PROVE  Unreadable(n)'
    <3>1. Kept(n)
      BY <1>0, <1>1, <2>2, NewEntry, MadeIs
    <3> QED BY <1>2, <2>1, <3>1
  <2>3. CASE tree' = tree
    BY <1>3, <2>1, <2>3
  <2>4. CASE WriteChunk(k) \/ Chmod(k)
    <3>1. tree'[n] = tree[n]
      BY <1>0, <2>1, <2>4, WriteStep, ChmodStep
    <3> QED BY <1>3, <2>1, <3>1
  <2> QED BY <1>0, <1>4, <2>2, <2>3, <2>4, LeadingStep, CreateStep DEF VisitStep
<1>5. CASE CallStep(k)
  <2>1. k # n /\ tree' = tree /\ phase'[n] = phase[n]
    BY <1>0, <1>1, <1>5, CallStepIs
  <2> QED BY <1>3, <2>1
<1>6. CASE Chtimes(k)
  <2>1. phase[k] = "visiting" /\ (Walk!EndVisit(k) \/ Walk!FailCall(k))
    BY <1>0, <1>6, ChtimesStep DEF Chtimes, RunInv
  <2>2. k # n /\ tree'[n] = tree[n] /\ phase'[n] = phase[n]
    BY <1>0, <1>1, <1>6, <2>1, ChtimesStep, CallMoves
  <2> QED BY <1>3, <2>2
<1> QED BY <1>4, <1>5, <1>6

LEMMA NextFault ==
    ASSUME IInv, FaultInv, [Next]_vars
    PROVE  FaultInv'
<1> USE DEF walk
<1>0. TypeInv /\ RunInv /\ PlaceInv /\ TypeRest
  BY DEF IInv, TypeInv
<1>1. ASSUME NEW n \in Node, CallStep(n) PROVE FaultInv'
  <2>1. /\ \A m \in Node : m # n => phase'[m] = phase[m]
        /\ faulty' = IF phase'[n] = "failed" THEN TRUE ELSE faulty
        /\ outcome' = "running" /\ outcome = "running"
    BY <1>0, <1>1, CallStepIs
  <2>2. CASE \E m \in Node : Unreadable(m)
    BY <1>1, <2>2, StaysUnreadable DEF FaultInv
  <2>3. CASE ~\E m \in Node : Unreadable(m)
    BY <1>0, <2>1, <2>3 DEF FaultInv, Walk!SomeFailed
  <2> QED BY <2>2, <2>3
<1>2. ASSUME NEW n \in Node, Chtimes(n) PROVE FaultInv'
  <2>1. CASE \E m \in Node : Unreadable(m)
    BY <1>2, <2>1, StaysUnreadable DEF FaultInv
  <2>2. CASE Walk!EndVisit(n)
    <3>1. /\ phase'[n] = "visited" /\ outcome' = outcome /\ faulty' = faulty
          /\ \A m \in Node : m # n => phase'[m] = phase[m]
      BY <1>0, <1>2, <2>2, ChtimesStep, CallMoves DEF Walk!EndVisit, Walk!Advance, TypeRest
    <3> QED BY <2>1, <3>1 DEF FaultInv, Walk!SomeFailed
  <2>3. CASE Walk!FailCall(n) /\ tree' = tree /\ "r" \notin Mode[n]
    <3>1. phase'[n] = "failed"
      BY <1>0, <2>3 DEF Walk!FailCall, Walk!Advance, TypeRest
    <3>2. step[n] = "chtimes" /\ Exists(n) /\ tree[n].mode = "recorded"
      BY <1>0, <1>2 DEF Chtimes, PlaceInv, StepInv
    <3>3. Unreadable(n)'
      BY <2>3, <3>1, <3>2 DEF Unreadable, Exists
    <3> QED BY <3>3 DEF FaultInv
  <2> QED BY <1>0, <1>2, <2>2, <2>3, ChtimesStep
<1>3. ASSUME NEW n \in Node, VisitStep(n) PROVE FaultInv'
  <2>1. CASE \E m \in Node : Unreadable(m)
    BY <1>3, <2>1, StaysUnreadable DEF FaultInv
  <2>2. UNCHANGED <<phase, outcome, faulty>>
    BY <1>0, <1>3, LeadingStep, CreateStep, WriteStep, ChmodStep DEF VisitStep
  <2> QED BY <2>1, <2>2 DEF FaultInv, Walk!SomeFailed
<1>4. CASE RunStep
  <2>1. CASE Start \/ MakeRoot \/ \E n \in Node : RemoveEntry(n)
    <3>1. /\ ~AtWork /\ UNCHANGED <<phase, outcome>>
      BY <2>1 DEF Start, MakeRoot, RemoveEntry, AtWork
    <3> QED BY <1>0, <3>1 DEF RunInv, FaultInv, Walk!SomeFailed
  <2>2. CASE RemoveFails \/ EndRun \/ Crash
    <3>1. outcome' = "running" /\ \A n \in Node : phase'[n] = "idle"
      BY <2>2 DEF RemoveFails, EndRun, Crash, End
    <3> QED BY <3>1 DEF FaultInv, Walk!SomeFailed
  <2>3. CASE WalkReturns
    <3>1. UNCHANGED <<phase, tree, faulty>> /\ (outcome' = "error" => Walk!SomeFailed)
      BY <2>3 DEF WalkReturns, Walk!Finish
    <3> QED BY <3>1 DEF FaultInv, Walk!SomeFailed, Unreadable, Exists
  <2>4. CASE UNCHANGED vars
    BY <2>4 DEF vars, FaultInv, Walk!SomeFailed, Unreadable, Exists
  <2> QED BY <1>4, <2>1, <2>2, <2>3, <2>4 DEF RunStep
<1> QED BY <1>1, <1>2, <1>3, <1>4, NextCases

------------------------------------------------------------------------------
(* The theorems                                                            *)

LEMMA AlwaysIInv == Spec => []IInv
<1>1. IInv /\ [Next]_vars => IInv'
  BY NextIInv
<1> QED BY InitIInv, <1>1, PTL DEF Spec

LEMMA TypeIs == TypeInv => TypeOK
  BY DEF TypeInv, TreeType, TypeRest, TypeOK

\* The destination is at all times a tree of entries of the backup, none with
\* more than its contents, whatever fails and wherever a run is killed.
THEOREM TypeCorrect == Spec => []TypeOK
<1>1. IInv => TypeOK
  BY TypeIs DEF IInv
<1> QED BY AlwaysIInv, <1>1, PTL

\* If the listings of the backup are whole, a restore that reports success has
\* restored every entry, its contents and permissions as they were recorded and
\* its mtime to the microsecond: whatever the order of the visits, whichever
\* call made the directories, and whatever was there before (visitor.Visit,
\* chtimes).
THEOREM SuccessMeansRestored ==
    ASSUME Whole
    PROVE  Spec => []RestoredAsRecorded
<1>1. \A n \in Node : Final(n) = Chunks[n]
  BY RestoreAssumption DEF Whole, Final
<1>2. ASSUME NEW n \in Node, Exact(n)
      PROVE  /\ Exists(n) /\ tree[n].written = Chunks[n] /\ tree[n].mode = "recorded"
             /\ Close(tree[n].mtime, Mtime[n])
  <2>1. /\ tree[n].written = Final(n) /\ tree[n].mode = "recorded"
        /\ tree[n].mtime = Restored(Mtime[n])
    BY <1>2 DEF Exact
  <2> QED BY <1>1, <1>2, <2>1, ExactExists, RestoredIs
<1>3. IInv => RestoredAsRecorded
  BY <1>2, TypeIs DEF IInv, ResultInv, RestoredAsRecorded
<1> QED BY AlwaysIInv, <1>3, PTL

\* No system call of a restore is refused because of what the restore did, but
\* the opening of an entry to set its times, when its restored permissions do
\* not let its owner read it: whatever else fails, fails for a reason of its own
\* (visitor.Visit, chtimes).
THEOREM NothingInItsWay == Spec => []SoundBackupRestores
<1>1. IInv /\ FaultInv /\ [Next]_vars => IInv' /\ FaultInv'
  BY NextIInv, NextFault
<1>2. Init => IInv /\ FaultInv
  BY InitIInv
<1>3. FaultInv => SoundBackupRestores
  BY DEF FaultInv, Unreadable, SoundBackupRestores
<1> QED BY <1>1, <1>2, <1>3, PTL DEF Spec

\* A directory is given its permissions and its times after everything in it
\* has been, and so never closed too early (Visit of package dag).
THEOREM ClosedLast ==
    Spec => [](pc = "walking" =>
                 \A n \in Node : Exists(n) /\ tree[n].mode = "recorded" =>
                     \A m \in Below(n) : Exact(m))
<1>1. ASSUME IInv, pc = "walking", NEW n \in Node, Exists(n), tree[n].mode = "recorded",
             NEW m \in Below(n)
      PROVE  Exact(m)
  BY <1>1, BelowIs DEF IInv, PlaceInv, ClosedInv, DoneInv, AtWork
<1>2. IInv => (pc = "walking" =>
                 \A n \in Node : Exists(n) /\ tree[n].mode = "recorded" =>
                     \A m \in Below(n) : Exact(m))
  BY <1>1
<1> QED BY AlwaysIInv, <1>2, PTL
=============================================================================
