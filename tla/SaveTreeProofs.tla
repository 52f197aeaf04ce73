--------------------------- MODULE SaveTreeProofs ---------------------------
(***************************************************************************)
(* Proofs about SaveTree, for every set of paths, every exclusion and any   *)
(* number of jobs and of changes to the tree: what a successful save has, of *)
(* a tree that changes while it is read, why a save fails, and that neither  *)
(* depends on anything but the tree when nobody changes it.                *)
(***************************************************************************)
EXTENDS SaveTree, FiniteSetTheorems, WellFoundedInduction, TLAPS

------------------------------------------------------------------------------
(* The invariant                                                           *)

Phases == {"idle", "finding", "found", "visited", "failed"}

DiskType ==
    /\ disk \in [Path -> Entries] /\ changes \in Versions
    /\ IsTree(disk)
    /\ \A n \in Path : disk[n].kind = "none" => disk[n] = Nothing
JobType ==
    /\ job \in {"none", "save", "list"} /\ jobs \in 0..MaxJobs
    /\ result \in {"none", "running", "ok", "error"} /\ faulty \in BOOLEAN
    /\ touched \subseteq Path /\ moved \subseteq Path /\ still \in BOOLEAN
WalkType ==
    /\ phase \in [Path -> Phases]
    /\ names \in [Path -> SUBSET Path]
    /\ info \in [Path -> Entries]
    /\ children \in [Path -> Seq(Path)]
    /\ contents \in [Path -> 0..Elsewhere]
TypeInv == DiskType /\ JobType /\ WalkType

\* A path has been found when the directory it is in has, and the exclusions and
\* the lstat let it.
Past == {"found", "visited", "failed"}
NamesInv ==
    \A n \in Path : /\ names[n] \subseteq Below(n)
                    /\ names[n] # {} => phase[n] \in {"finding", "failed"}
                    /\ phase[n] = "finding" => info[n].kind = "dir"
ChildrenInv ==
    \A n \in Path : \A i \in DOMAIN children[n] :
        phase[n] \in Past /\ children[n][i] \in KeptBelow(n)
OrderInv ==
    \A n \in Path \ {Root} : phase[n] # "idle" => Kept(n) /\ phase[Parent(n)] \in Past
EmptyInv ==
    \A n \in Path : phase[n] = "idle" \/ info[n].kind # "dir" =>
        \A m \in Below(n) : info[m] = Nothing /\ contents[m] = 0
RunInv == NamesInv /\ ChildrenInv /\ OrderInv /\ EmptyInv

EndInv ==
    /\ result = "none" => job = "none" /\ \A n \in Path : phase[n] = "idle"
    /\ result # "running" => \A n \in Path : phase[n] # "finding"
    /\ result # "none" => info[Root].kind = "dir" /\ info[Root].version = 0
    /\ result = "ok" => phase[Root] = "visited" /\ \A n \in Path : phase[n] # "failed"
    /\ result = "error" => \E n \in Path : phase[n] = "failed"
    /\ Root \notin touched /\ moved \subseteq touched
    /\ still => touched = {}

\* The names of n have been read, and nothing failed.
Read(n) == info[n].kind = "dir" /\ phase[n] \in {"finding", "found", "visited"}

\* What was lstat'ed is as it is now, if nobody touched it, and of the same kind
\* if it has not moved.  Of what is in a directory that has been read, the names
\* not lstat'ed yet are there if nobody touched them, and the others are as their
\* lstat said.
SeenInv ==
    \A n \in Path \ {Root} : info[n] # Nothing =>
        /\ n \notin touched => info[n] = disk[n]
        /\ n \notin moved => info[n].kind = disk[n].kind
UnseenInv ==
    \A n \in Path : Read(n) => \A d \in Below(n) :
        IF d \in names[n] THEN info[d] = Nothing /\ (d \notin touched => Exists(d))
                          ELSE d \notin touched => info[d] = disk[d]
LookInv == SeenInv /\ UnseenInv

\* What a found directory has; no symbolic link is unread when it is found.
FoundInv ==
    /\ \A n \in Path : phase[n] \in {"found", "visited"} =>
         children[n] \in Found(n) /\ names[n] = {} /\ Unread(n) = {}
    /\ \A n \in Path \ {Root} : phase[n] # "idle" /\ info[n].kind = "symlink" => contents[n] # 0

\* The visits come after those of everything below.
VisitInv ==
    \A n \in Path : phase[n] = "visited" =>
        /\ \A d \in KeptBelow(n) : phase[d] = "visited"
        /\ job = "save" => info[n].kind # "pipe" /\ (info[n].kind = "file" => contents[n] # 0)

\* Contents are those of what is there now, if nobody touched it.
ContentsInv ==
    \A n \in Path : contents[n] # 0 =>
        /\ n # Root /\ info[n].kind \in {"file", "symlink"}
        /\ n \notin touched => contents[n] = disk[n].version + 1

\* A failure that is not the system's has its cause.
Cause(n) == Kept(n) /\ (n \in moved \/ (job = "save" /\ info[n].kind = "pipe"))
CauseInv == ~faulty /\ (\E n \in Path : phase[n] = "failed") => \E n \in Path : Cause(n)

IInv == TypeInv /\ RunInv /\ EndInv /\ LookInv /\ FoundInv /\ VisitInv /\ ContentsInv /\ CauseInv

\* What a save or a list of the tree as it is now has.
Should(n) == n = Root \/ (Exists(n) /\ SelfAndAbove(n) \cap Excluded = {})
NowInfo(n) == IF n = Root THEN [kind |-> "dir", version |-> 0] ELSE disk[n]
NowBelow(n) == {m \in Below(n) : Exists(m) /\ m \notin Excluded}
NowRow(n) == CHOOSE q \in Rows(NowBelow(n)) : Sorted(n, q)
NowContents(n) == IF n # Root /\ disk[n].kind \in {"file", "symlink"} THEN disk[n].version + 1 ELSE 0

\* The backup of a save of the tree, and what a list of it shares with that.
NowBackup ==
    [n \in {m \in Path : Should(m)} |->
       [info |-> NowInfo(n), children |-> NowRow(n), contents |-> NowContents(n)]]
SaysNow(backup) ==
    /\ DOMAIN backup = {m \in Path : Should(m)}
    /\ \A n \in DOMAIN backup : backup[n].info = NowInfo(n)

PriorInv ==
    still /\ prior.result = "ok" =>
        /\ prior.job = "list" => SaysNow(prior.backup)
        /\ prior.job = "save" => prior.backup = NowBackup

------------------------------------------------------------------------------
(* The tree of the paths                                                   *)

\* What holds of the root and goes from a directory to all in it holds of all.
LEMMA Everywhere ==
    ASSUME NEW S \in SUBSET Path, Root \in S, \A n \in S : Below(n) \subseteq S
    PROVE  S = Path
  BY PathAssumption DEF PathsAreATree

LEMMA BelowIs ==
    ASSUME NEW n \in Path
    PROVE  /\ Names[n] \in Seq(Path) /\ Len(Names[n]) \in Nat
           /\ DOMAIN Names[n] = 1..Len(Names[n])
           /\ Below(n) \subseteq Path /\ Root \notin Below(n)
<1>1. Names[n] \in Seq(Path)
  BY PathAssumption
<1>2. Root \notin Below(n)
  BY PathAssumption DEF PathsAreATree
<1> QED BY <1>1, <1>2 DEF Below

LEMMA ParentIs ==
    ASSUME NEW n \in Path, n # Root
    PROVE  Parent(n) \in Path /\ n \in Below(Parent(n))
<1> DEFINE S == {k \in Path : k = Root \/ \E m \in Path : k \in Below(m)}
<1>1. S = Path
  <2>1. S \in SUBSET Path /\ Root \in S
    BY PathAssumption
  <2>2. \A m \in S : Below(m) \subseteq S
    BY BelowIs
  <2> HIDE DEF S
  <2> QED BY <2>1, <2>2, Everywhere
<1>2. \E m \in Path : n \in Below(m)
  BY <1>1
<1> QED BY <1>2 DEF Parent

LEMMA ParentOf ==
    ASSUME NEW m \in Path, NEW n \in Below(m)
    PROVE  n \in Path /\ n # Root /\ Parent(n) = m
<1>1. n \in Path /\ n # Root
  BY BelowIs
<1>2. Parent(n) \in Path /\ n \in Below(Parent(n))
  BY <1>1, ParentIs
<1>3. Parent(n) = m
  <2>1. \A k \in Path : k # m => Below(k) \cap Below(m) = {}
    BY PathAssumption DEF PathsAreATree
  <2> QED BY <1>2, <2>1
<1> QED BY <1>1, <1>3

\* The directories above a path are its own and those above that.
LEMMA AboveIs ==
    /\ Above[Root] = {}
    /\ \A m \in Path : \A n \in Below(m) : SelfAndAbove(n) = {n} \cup SelfAndAbove(m)
<1> DEFINE Closed(S, n) == \A k \in S \cup {n} : k # Root => Parent(k) \in S
<1>1. \A n \in Path : Above[n] = {m \in Path : \A S \in SUBSET Path : Closed(S, n) => m \in S}
  BY DEF Above
<1>2. Above[Root] = {}
  <2>1. {} \in SUBSET Path /\ Closed({}, Root) /\ Root \in Path
    BY PathAssumption
  <2> HIDE DEF Closed
  <2> QED BY <1>1, <2>1
<1>3. ASSUME NEW m \in Path, NEW n \in Below(m)
      PROVE  Above[n] = {m} \cup Above[m]
  <2>1. n \in Path /\ n # Root /\ Parent(n) = m
    BY ParentOf
  <2>2. \A S \in SUBSET Path : Closed(S, n) => m \in S /\ Closed(S, m)
    BY <2>1
  <2>3. \A S \in SUBSET Path : Closed(S, m) => Closed(S \cup {m}, n)
    BY <2>1
  <2>4. \A S \in SUBSET Path : S \cup {m} \in SUBSET Path
    OBVIOUS
  <2> HIDE DEF Closed
  <2>5. {m} \cup Above[m] \subseteq Above[n]
    BY <1>1, <2>1, <2>2
  <2>6. ASSUME NEW k \in Above[n], k # m PROVE k \in Above[m]
    <3>1. k \in Path /\ \A S \in SUBSET Path : Closed(S, n) => k \in S
      BY <1>1, <2>1
    <3>2. ASSUME NEW S \in SUBSET Path, Closed(S, m) PROVE k \in S
      <4>1. k \in S \cup {m}
        BY <2>3, <2>4, <3>1, <3>2
      <4> QED BY <2>6, <4>1
    <3> QED BY <1>1, <3>1, <3>2
  <2> QED BY <2>5, <2>6
<1> QED BY <1>2, <1>3 DEF SelfAndAbove

------------------------------------------------------------------------------
(* Rows                                                                    *)

\* The kept entries of a directory are finitely many, so that a row of them is a
\* sequence.
LEMMA RowIs ==
    ASSUME NEW n \in Path, NEW S, S \subseteq Below(n), NEW q \in Rows(S)
    PROVE  /\ q \in Seq(Path) /\ DOMAIN q = 1..Cardinality(S) /\ Cardinality(S) \in Nat
           /\ \A i \in DOMAIN q : q[i] \in S
           /\ \A m \in S : \E i \in DOMAIN q : q[i] = m
<1>1. IsFiniteSet(Below(n))
  <2> DEFINE f == [i \in 1..Len(Names[n]) |-> Names[n][i]]
  <2>1. f \in Surjection(1..Len(Names[n]), Below(n))
    BY BelowIs DEF Below, Surjection
  <2>2. IsFiniteSet(1..Len(Names[n]))
    BY BelowIs, FS_Interval
  <2> HIDE DEF f
  <2> QED BY <2>1, <2>2, FS_Surjection
<1>2. IsFiniteSet(S) /\ Cardinality(S) \in Nat
  BY <1>1, FS_Subset, FS_CardinalityType
<1>3. q \in [1..Cardinality(S) -> S] /\ \A m \in S : \E i \in DOMAIN q : q[i] = m
  BY DEF Rows
<1>4. S \subseteq Path
  BY BelowIs
<1>5. q \in Seq(Path)
  BY <1>2, <1>3, <1>4
<1> QED BY <1>2, <1>3, <1>5

\* No two names are before one another.
LEMMA BeforeIs ==
    ASSUME NEW n \in Path, NEW a, NEW b, Before(n, a, b)
    PROVE  a # b /\ ~Before(n, b, a)
<1>1. DOMAIN Names[n] \subseteq Int
  BY BelowIs
<1>2. \A i, j \in DOMAIN Names[n] : Names[n][i] = Names[n][j] => i = j
  BY PathAssumption DEF PathsAreATree
<1>3. PICK i, j \in DOMAIN Names[n] : i < j /\ Names[n][i] = a /\ Names[n][j] = b
  BY DEF Before
<1>4. a # b
  BY <1>1, <1>2, <1>3
<1>5. ASSUME Before(n, b, a) PROVE FALSE
  <2>1. PICK k, l \in DOMAIN Names[n] : k < l /\ Names[n][k] = b /\ Names[n][l] = a
    BY <1>5 DEF Before
  <2>2. k = j /\ l = i
    BY <1>2, <1>3, <2>1
  <2> QED BY <1>1, <1>3, <2>1, <2>2
<1> QED BY <1>4, <1>5

\* A set of names has one sorted row.
LEMMA OneRow ==
    ASSUME NEW n \in Path, NEW S, S \subseteq Below(n),
           NEW q \in Rows(S), NEW r \in Rows(S), Sorted(n, q), Sorted(n, r)
    PROVE  q = r
<1>1. /\ DOMAIN q = DOMAIN r /\ DOMAIN q \subseteq Nat
      /\ q \in Seq(Path) /\ r \in Seq(Path)
      /\ \A i \in DOMAIN q : q[i] \in S /\ r[i] \in S
      /\ \A m \in S : (\E i \in DOMAIN q : q[i] = m) /\ (\E i \in DOMAIN r : r[i] = m)
  BY RowIs
<1> DEFINE T == {i \in DOMAIN q : q[i] # r[i]}
<1>2. ASSUME T # {} PROVE FALSE
  <2>1. T \subseteq Nat
    BY <1>1
  <2>2. PICK i \in T : \A j \in T : ~(<<j, i>> \in OpToRel(<, Nat))
    BY <1>2, <2>1, WFMin, NatLessThanWellFounded
  <2>3. i \in DOMAIN q /\ i \in Nat /\ q[i] # r[i]
    BY <1>1
  <2>4. \A j \in DOMAIN q : j < i => q[j] = r[j]
    BY <1>1, <2>2, <2>3 DEF OpToRel
  <2>5. PICK k \in DOMAIN q : r[k] = q[i]
    BY <1>1, <2>3
  <2>6. PICK l \in DOMAIN q : q[l] = r[i]
    BY <1>1, <2>3
  <2>7. Before(n, r[i], q[i])
    <3>1. ~(k < i)
      <4>1. ASSUME k < i PROVE FALSE
        <5>1. Before(n, q[k], q[i]) /\ q[k] = q[i]
          BY <2>3, <2>4, <2>5, <4>1 DEF Sorted
        <5> QED BY <5>1, BeforeIs
      <4> QED BY <4>1
    <3>2. k # i
      BY <2>3, <2>5
    <3>3. i < k
      BY <1>1, <2>3, <3>1, <3>2
    <3> QED BY <1>1, <2>3, <2>5, <3>3 DEF Sorted
  <2>8. Before(n, q[i], r[i])
    <3>1. ~(l < i)
      <4>1. ASSUME l < i PROVE FALSE
        <5>1. Before(n, r[l], r[i]) /\ r[l] = r[i]
          BY <1>1, <2>3, <2>4, <2>6, <4>1 DEF Sorted
        <5> QED BY <5>1, BeforeIs
      <4> QED BY <4>1
    <3>2. l # i
      BY <2>3, <2>6
    <3>3. i < l
      BY <1>1, <2>3, <3>1, <3>2
    <3> QED BY <1>1, <2>3, <2>6, <3>3 DEF Sorted
  <2> QED BY <2>7, <2>8, BeforeIs
<1>3. \A i \in DOMAIN q : q[i] = r[i]
  BY <1>2
<1> QED BY <1>1, <1>3

------------------------------------------------------------------------------
(* What each step does                                                     *)

Outside == <<disk, changes, touched, still, job, jobs, result, prior>>

LEMMA ChangeStep ==
    ASSUME TypeInv, NEW n \in Path, Change(n)
    PROVE  /\ n # Root /\ DiskType' /\ touched' = touched \cup {n} /\ still' = FALSE
           /\ moved \subseteq moved' /\ moved' \subseteq moved \cup {n}
           /\ disk'[n].kind # disk[n].kind => n \in moved'
           /\ \A m \in Path \ {n} : disk'[m] = disk[m]
           /\ UNCHANGED <<job, jobs, walk, result, prior>>
<1>1. PICK new :
        /\ \E kind \in MayBe[n] :
             new = IF kind = "none" THEN Nothing ELSE [kind |-> kind, version |-> changes + 1]
        /\ disk' = [disk EXCEPT ![n] = new]
        /\ moved' = IF new.kind # disk[n].kind THEN moved \cup {n} ELSE moved
  BY DEF Change
<1>2. changes' \in Versions /\ changes + 1 \in Versions
  BY PathAssumption DEF Change, TypeInv, DiskType, Versions
<1>3. new \in Entries /\ (new.kind = "none" => new = Nothing)
  <2>1. PICK kind \in MayBe[n] :
             new = IF kind = "none" THEN Nothing ELSE [kind |-> kind, version |-> changes + 1]
    BY <1>1
  <2>2. kind \in Kinds /\ 0 \in Versions /\ "none" \in Kinds
    <3>1. MayBe \in [Path -> SUBSET Kinds] /\ MaxChanges \in Nat
      BY PathAssumption
    <3> QED BY <2>1, <3>1 DEF Versions, Kinds
  <2> QED BY <1>2, <2>1, <2>2 DEF Entries, Nothing
<1>4. disk'[n] = new /\ \A m \in Path \ {n} : disk'[m] = disk[m]
  BY <1>1 DEF TypeInv, DiskType
<1>5. DiskType'
  <2>1. disk' \in [Path -> Entries]
    BY <1>1, <1>3 DEF TypeInv, DiskType
  <2>2. \A m \in Path : disk'[m].kind = "none" => disk'[m] = Nothing
    BY <1>3, <1>4 DEF TypeInv, DiskType
  <2> QED BY <1>2, <2>1, <2>2 DEF DiskType, Change
<1> QED BY <1>1, <1>4, <1>5 DEF Change

LEMMA StartStep ==
    ASSUME NEW what \in {"save", "list"}, Start(what)
    PROVE  /\ result # "running" /\ job' = what /\ result' = "running" /\ faulty' = FALSE
           /\ prior' = [job |-> job, result |-> result, backup |-> Backup]
           /\ still' = (touched = {}) /\ touched' = {} /\ moved' = {}
           /\ \A n \in Path : /\ phase'[n] = "idle" /\ names'[n] = {}
                              /\ children'[n] = <<>> /\ contents'[n] = 0
                              /\ n # Root => info'[n] = Nothing
           /\ info'[Root] = [kind |-> "dir", version |-> 0]
           /\ UNCHANGED <<disk, changes>>
  BY PathAssumption DEF Start

LEMMA StartFindStep ==
    ASSUME TypeInv, NEW n \in Path, StartFind(n)
    PROVE  /\ Going /\ phase[n] = "idle" /\ Known(n) /\ \A m \in Path : phase[m] # "finding"
           /\ UNCHANGED <<Outside, moved, info, children, contents, faulty>>
           /\ \A m \in Path \ {n} : phase'[m] = phase[m] /\ names'[m] = names[m]
           /\ \/ /\ info[n].kind # "dir" /\ phase'[n] = "found" /\ names'[n] = names[n]
              \/ /\ info[n].kind = "dir" /\ disk[n].kind # "dir"
                 /\ phase'[n] = "failed" /\ names'[n] = names[n]
              \/ /\ info[n].kind = "dir" /\ disk[n].kind = "dir"
                 /\ phase'[n] = "finding" /\ names'[n] = {m \in Below(n) : Exists(m)}
<1>1. phase \in [Path -> Phases] /\ names \in [Path -> SUBSET Path]
  BY DEF TypeInv, WalkType
<1> QED BY <1>1 DEF StartFind, Fail, Outside, tree

\* The way to what is in a directory is of directories.
LEMMA BlockedIs ==
    ASSUME TypeInv, NEW n \in Path, Blocked(n)
    PROVE  disk[n].kind # "dir"
<1> SUFFICES ASSUME disk[n].kind = "dir" PROVE FALSE
  OBVIOUS
<1> DEFINE S == {k \in Path : disk[k].kind = "dir"}
<1>1. \A k \in S \cup {n} : k # Root => Parent(k) \in S
  <2>1. ASSUME NEW k \in S, k # Root PROVE Parent(k) \in S
    <3>1. Parent(k) \in Path /\ k \in Below(Parent(k))
      BY <2>1, ParentIs
    <3> QED BY <3>1 DEF TypeInv, DiskType, IsTree
  <2> QED BY <2>1
<1>2. S \in SUBSET Path /\ n \in S
  OBVIOUS
<1>3. Above[n] \subseteq S
  <2> HIDE DEF S
  <2> QED BY <1>1, <1>2 DEF Above
<1> QED BY <1>2, <1>3 DEF Blocked, SelfAndAbove

LEMMA LstatStep ==
    ASSUME TypeInv, NEW n \in Path, NEW m \in Path, Lstat(n, m)
    PROVE  /\ phase[n] = "finding" /\ m \in names[n] /\ moved' = moved \ {m}
           /\ UNCHANGED <<Outside, children, contents, faulty>>
           /\ \A k \in Path \ {n} : phase'[k] = phase[k]
           /\ names'[n] = names[n] \ {m}
           /\ \A k \in Path \ {n} : names'[k] = names[k]
           /\ \A k \in Path \ {m} : info'[k] = info[k]
           /\ \/ phase' = phase /\ Exists(m) /\ info'[m] = disk[m]
              \/ phase' = phase /\ ~Exists(m) /\ info'[m] = info[m]
              \/ /\ phase'[n] = "failed" /\ disk[n].kind # "dir"
                 /\ ~Exists(m) /\ info'[m] = info[m]
<1>1. /\ info \in [Path -> Entries] /\ names \in [Path -> SUBSET Path]
      /\ phase \in [Path -> Phases]
  BY DEF TypeInv, WalkType
<1>2. Blocked(n) => disk[n].kind # "dir"
  BY BlockedIs
<1> QED BY <1>1, <1>2 DEF Lstat, LstatMissing, Fail, Outside, tree

LEMMA ReadlinkStep ==
    ASSUME TypeInv, NEW n \in Path, NEW m \in Path, Readlink(n, m)
    PROVE  /\ phase[n] = "finding" /\ names[n] = {} /\ m \in Unread(n)
           /\ UNCHANGED <<Outside, moved, names, info, children, faulty>>
           /\ \A k \in Path \ {n} : phase'[k] = phase[k]
           /\ \A k \in Path \ {m} : contents'[k] = contents[k]
           /\ \/ /\ disk[m].kind = "symlink" /\ phase' = phase
                 /\ contents'[m] = disk[m].version + 1
              \/ /\ disk[m].kind # "symlink" /\ phase'[n] = "failed" /\ contents' = contents
<1>1. phase \in [Path -> Phases] /\ contents \in [Path -> 0..Elsewhere]
  BY DEF TypeInv, WalkType
<1> QED BY <1>1 DEF Readlink, Fail, Outside, tree

LEMMA EndFindStep ==
    ASSUME TypeInv, NEW n \in Path, EndFind(n)
    PROVE  /\ phase[n] = "finding" /\ names[n] = {} /\ Unread(n) = {}
           /\ phase'[n] = "found" /\ children'[n] \in Found(n)
           /\ UNCHANGED <<Outside, moved, names, info, contents, faulty>>
           /\ \A k \in Path \ {n} : phase'[k] = phase[k] /\ children'[k] = children[k]
<1>1. phase \in [Path -> Phases] /\ children \in [Path -> Seq(Path)]
  BY DEF TypeInv, WalkType
<1> QED BY <1>1 DEF EndFind, Outside, tree

\* The visit of either visitor.
Visit(n) == VisitSave(n) \/ VisitList(n)

LEMMA VisitStep ==
    ASSUME TypeInv, NEW n \in Path, Visit(n)
    PROVE  /\ Going /\ phase[n] = "found"
           /\ \A i \in DOMAIN children[n] : phase[children[n][i]] = "visited"
           /\ UNCHANGED <<Outside, moved, names, info, children, faulty>>
           /\ \A k \in Path \ {n} : phase'[k] = phase[k] /\ contents'[k] = contents[k]
           /\ \/ /\ phase'[n] = "failed" /\ contents' = contents /\ job = "save"
                 /\ \/ info[n].kind = "pipe"
                    \/ info[n].kind = "file" /\ disk[n].kind \notin {"file", "symlink"}
              \/ /\ phase'[n] = "visited" /\ contents' = contents
                 /\ job = "save" => info[n].kind \notin {"pipe", "file"}
              \/ /\ phase'[n] = "visited" /\ job = "save" /\ info[n].kind = "file"
                 /\ contents'[n] \in Readable(n)
<1>1. phase \in [Path -> Phases] /\ contents \in [Path -> 0..Elsewhere]
  BY DEF TypeInv, WalkType
<1>2. Readable(n) = {} => disk[n].kind \notin {"file", "symlink"}
  BY DEF Readable
<1>3. CASE VisitList(n)
  BY <1>1, <1>3 DEF VisitList, Ready, Outside, tree
<1>4. CASE VisitSave(n)
  <2>1. CASE Unsupported(n) \/ (info[n].kind = "file" /\ Readable(n) = {})
    BY <1>1, <1>2, <1>4, <2>1 DEF VisitSave, Ready, Fail, Unsupported, Outside, tree
  <2>2. CASE ~(Unsupported(n) \/ (info[n].kind = "file" /\ Readable(n) = {})) /\ info[n].kind = "file"
    BY <1>1, <1>4, <2>2 DEF VisitSave, Ready, Unsupported, Outside, tree
  <2>3. CASE ~(Unsupported(n) \/ (info[n].kind = "file" /\ Readable(n) = {})) /\ info[n].kind # "file"
    BY <1>1, <1>4, <2>3 DEF VisitSave, Ready, Unsupported, Outside, tree
  <2> QED BY <2>1, <2>2, <2>3
<1> QED BY <1>3, <1>4 DEF Visit

LEMMA FailsStep ==
    ASSUME TypeInv, NEW n \in Path, Fails(n)
    PROVE  /\ phase[n] \in {"finding", "found"} /\ result = "running"
           /\ phase'[n] = "failed" /\ faulty' = TRUE
           /\ UNCHANGED <<Outside, moved, names, info, children, contents>>
           /\ \A k \in Path \ {n} : phase'[k] = phase[k]
<1>1. phase \in [Path -> Phases]
  BY DEF TypeInv, WalkType
<1> QED BY <1>1 DEF Fails, Fail, Outside, tree

LEMMA NextCases ==
    ASSUME [Next]_vars
    PROVE  \/ \E n \in Path : \/ Change(n) \/ StartFind(n) \/ EndFind(n) \/ Visit(n) \/ Fails(n)
           \/ \E what \in {"save", "list"} : Start(what)
           \/ \E n, m \in Path : Lstat(n, m) \/ Readlink(n, m)
           \/ Finish \/ UNCHANGED vars
  BY DEF Next, Visit

------------------------------------------------------------------------------
(* Types                                                                   *)

LEMMA EntryIs ==
    ASSUME DiskType, NEW n \in Path
    PROVE  disk[n] \in Entries /\ disk[n].version + 1 \in 1..MaxChanges + 1
<1>1. disk[n] \in Entries
  BY DEF DiskType
<1>2. disk[n].version \in 0..MaxChanges
  BY <1>1 DEF Entries, Versions
<1> QED BY <1>1, <1>2, PathAssumption

LEMMA MaxIs == Elsewhere \in Nat /\ 1..MaxChanges + 1 \subseteq 0..Elsewhere
<1>1. MaxChanges \in Nat
  BY PathAssumption
<1> QED BY <1>1 DEF Elsewhere

LEMMA InitTypes ==
    ASSUME Init
    PROVE  TypeInv
<1>1. 0 \in Versions /\ Nothing \in Entries /\ 0 \in 0..Elsewhere /\ 0 \in 0..MaxJobs
  BY PathAssumption DEF Versions, Nothing, Entries, Kinds, Elsewhere
<1>2. DiskType
  <2>1. disk \in [Path -> [kind : Kinds, version : {0}]] /\ IsTree(disk)
    BY DEF Init
  <2>2. disk \in [Path -> Entries]
    BY <1>1, <2>1 DEF Entries
  <2>3. \A n \in Path : disk[n].kind = "none" => disk[n] = Nothing
    BY <2>1 DEF Nothing
  <2> QED BY <1>1, <2>1, <2>2, <2>3 DEF DiskType, Init
<1>3. WalkType
  BY <1>1 DEF Init, WalkType, Phases
<1>4. JobType
  BY <1>1 DEF Init, JobType
<1> QED BY <1>2, <1>3, <1>4 DEF TypeInv

LEMMA NextTypes ==
    ASSUME TypeInv, [Next]_vars
    PROVE  TypeInv'
<1> USE DEF TypeInv
<1>1. ASSUME NEW n \in Path, Change(n) PROVE TypeInv'
  <2>1. DiskType'
    BY <1>1, ChangeStep
  <2>2. JobType' /\ WalkType'
    BY <1>1, ChangeStep DEF JobType, WalkType, walk
  <2> QED BY <2>1, <2>2
<1>2. ASSUME NEW what \in {"save", "list"}, Start(what) PROVE TypeInv'
  <2>1. DiskType'
    BY <1>2 DEF Start, DiskType
  <2>2. jobs' \in 0..MaxJobs
    <3>1. jobs \in 0..MaxJobs /\ jobs < MaxJobs /\ jobs' = jobs + 1 /\ MaxJobs \in Nat
      BY <1>2, PathAssumption DEF Start, JobType
    <3> QED BY <3>1
  <2>3. JobType'
    BY <1>2, <2>2 DEF Start, JobType
  <2>4. /\ Nothing \in Entries /\ 0 \in 0..Elsewhere
        /\ [kind |-> "dir", version |-> 0] \in Entries
    BY PathAssumption DEF Nothing, Entries, Kinds, Versions, Elsewhere
  <2>5. WalkType'
    BY <1>2, <2>4 DEF Start, WalkType, Phases
  <2> QED BY <2>1, <2>3, <2>5
<1>3. ASSUME NEW n \in Path, StartFind(n) PROVE TypeInv'
  <2>1. {m \in Below(n) : Exists(m)} \in SUBSET Path
    BY BelowIs
  <2>2. WalkType'
    BY <1>3, <2>1 DEF StartFind, Fail, WalkType, Phases
  <2> QED BY <1>3, <2>2, StartFindStep DEF Outside, DiskType, JobType
<1>4. ASSUME NEW n \in Path, EndFind(n) PROVE TypeInv'
  <2>1. PICK q \in Found(n) : children' = [children EXCEPT ![n] = q]
    BY <1>4 DEF EndFind
  <2>2. q \in Seq(Path)
    BY <2>1, RowIs DEF Found, KeptBelow
  <2>3. WalkType'
    BY <1>4, <2>1, <2>2 DEF EndFind, WalkType, Phases
  <2> QED BY <1>4, <2>3, EndFindStep DEF Outside, DiskType, JobType
<1>5. ASSUME NEW n \in Path, Visit(n) PROVE TypeInv'
  <2>1. Readable(n) \subseteq 0..Elsewhere
    <3>1. disk[n].version + 1 \in 0..Elsewhere /\ Elsewhere \in 0..Elsewhere
      BY EntryIs, MaxIs
    <3> QED BY <3>1 DEF Readable
  <2>2. /\ \/ contents' = contents
           \/ \E v \in Readable(n) : contents' = [contents EXCEPT ![n] = v]
        /\ \/ phase' = [phase EXCEPT ![n] = "failed"]
           \/ phase' = [phase EXCEPT ![n] = "visited"]
    BY <1>5 DEF Visit, VisitSave, VisitList, Fail
  <2>3. WalkType'
    <3>1. phase' \in [Path -> Phases]
      BY <2>2 DEF WalkType, Phases
    <3>2. contents' \in [Path -> 0..Elsewhere]
      <4>1. CASE contents' = contents
        BY <4>1 DEF WalkType
      <4>2. CASE \E v \in Readable(n) : contents' = [contents EXCEPT ![n] = v]
        BY <2>1, <4>2 DEF WalkType
      <4> QED BY <2>2, <4>1, <4>2
    <3>3. UNCHANGED <<names, info, children>>
      BY <1>5, VisitStep
    <3> QED BY <3>1, <3>2, <3>3 DEF WalkType
  <2> QED BY <1>5, <2>3, VisitStep DEF Outside, DiskType, JobType
<1>6. ASSUME NEW n \in Path, Fails(n) PROVE TypeInv'
  <2>1. WalkType'
    BY <1>6 DEF Fails, Fail, WalkType, Phases
  <2> QED BY <1>6, <2>1, FailsStep DEF Outside, DiskType, JobType
<1>7. ASSUME NEW n \in Path, NEW m \in Path, Lstat(n, m) PROVE TypeInv'
  <2>1. disk[m] \in Entries
    BY DEF DiskType
  <2>2. WalkType'
    BY <1>7, <2>1 DEF Lstat, LstatMissing, Fail, WalkType, Phases
  <2> QED BY <1>7, <2>2, LstatStep DEF Outside, DiskType, JobType
<1>8. ASSUME NEW n \in Path, NEW m \in Path, Readlink(n, m) PROVE TypeInv'
  <2>1. disk[m].version + 1 \in 0..Elsewhere
    BY EntryIs, MaxIs
  <2>2. WalkType'
    BY <1>8, <2>1 DEF Readlink, Fail, WalkType, Phases
  <2> QED BY <1>8, <2>2, ReadlinkStep DEF Outside, DiskType, JobType
<1>9. CASE Finish
  BY <1>9 DEF Finish, tree, walk, DiskType, JobType, WalkType
<1>10. CASE UNCHANGED vars
  BY <1>10 DEF vars, tree, walk, DiskType, JobType, WalkType
<1> QED BY <1>1, <1>2, <1>3, <1>4, <1>5, <1>6, <1>7, <1>8, <1>9, <1>10, NextCases

------------------------------------------------------------------------------
(* The order of the walk                                                   *)

\* What is known, but for the root, was found in its directory.
LEMMA KnownIs ==
    ASSUME RunInv, NEW n \in Path \ {Root}, Known(n)
    PROVE  /\ Parent(n) \in Path /\ n \in KeptBelow(Parent(n)) /\ Kept(n)
           /\ phase[Parent(n)] \in Past
<1>1. PICK m \in Path : \E i \in DOMAIN children[m] : children[m][i] = n
  BY DEF Known
<1>2. n \in KeptBelow(m) /\ phase[m] \in Past
  BY <1>1 DEF RunInv, ChildrenInv
<1>3. n \in Below(m) /\ Kept(n)
  BY <1>2 DEF KeptBelow
<1>4. Parent(n) = m
  BY <1>3, ParentOf
<1> QED BY <1>2, <1>3, <1>4

\* A path whose lstat is still to come has not been found, nor has anything in it.
LEMMA LstatIsEarly ==
    ASSUME RunInv, NEW n \in Path, phase[n] = "finding", NEW m \in names[n]
    PROVE  /\ m \in Below(n) /\ m \in Path /\ m # Root /\ m # n /\ Parent(m) = n
           /\ phase[m] = "idle" /\ info[n].kind = "dir"
<1>1. m \in Below(n) /\ info[n].kind = "dir"
  BY DEF RunInv, NamesInv
<1>2. m \in Path /\ m # Root /\ Parent(m) = n
  BY <1>1, ParentOf
<1>3. phase[m] = "idle"
  <2>1. phase[Parent(m)] \notin Past
    BY <1>2 DEF Past
  <2> QED BY <1>2, <2>1 DEF RunInv, OrderInv
<1> QED BY <1>1, <1>2, <1>3

LEMMA NextRun ==
    ASSUME TypeInv, RunInv, [Next]_vars
    PROVE  RunInv'
<1>a. NamesInv /\ ChildrenInv /\ OrderInv /\ EmptyInv
  BY DEF RunInv
<1>b. SUFFICES NamesInv' /\ ChildrenInv' /\ OrderInv' /\ EmptyInv'
  BY DEF RunInv
<1> USE DEF NamesInv, ChildrenInv, OrderInv, EmptyInv
<1>c. \A n \in Path : Below(n) \subseteq Path /\ Root \notin Below(n)
  BY BelowIs
<1>0. ASSUME UNCHANGED walk PROVE NamesInv' /\ ChildrenInv' /\ OrderInv' /\ EmptyInv'
  BY <1>0, <1>a DEF walk, KeptBelow, Kept
<1>1. ASSUME NEW what \in {"save", "list"}, Start(what)
      PROVE  NamesInv' /\ ChildrenInv' /\ OrderInv' /\ EmptyInv'
  <2>1. \A n \in Path : /\ phase'[n] = "idle" /\ names'[n] = {} /\ children'[n] = <<>>
                        /\ contents'[n] = 0 /\ (n # Root => info'[n] = Nothing)
    BY <1>1, StartStep
  <2>2. NamesInv' /\ OrderInv'
    BY <2>1
  <2>3. ChildrenInv'
    BY <2>1
  <2>4. EmptyInv'
    BY <1>c, <2>1
  <2> QED BY <2>2, <2>3, <2>4
<1>2. ASSUME NEW n \in Path, StartFind(n)
      PROVE  NamesInv' /\ ChildrenInv' /\ OrderInv' /\ EmptyInv'
  <2>1. /\ phase[n] = "idle" /\ Known(n) /\ UNCHANGED <<info, children, contents>>
        /\ \A m \in Path \ {n} : phase'[m] = phase[m] /\ names'[m] = names[m]
        /\ \/ phase'[n] \in {"found", "failed"} /\ names'[n] = names[n]
           \/ /\ info[n].kind = "dir" /\ phase'[n] = "finding"
              /\ names'[n] = {m \in Below(n) : Exists(m)}
    BY <1>2, StartFindStep
  <2>2. names[n] = {} /\ DOMAIN children[n] = {}
    BY <1>a, <2>1 DEF Past
  <2>3. NamesInv'
    BY <1>a, <2>1, <2>2
  <2>4. ChildrenInv'
    BY <1>a, <2>1, <2>2 DEF KeptBelow, Kept
  <2>5. n # Root => Kept(n) /\ phase[Parent(n)] \in Past
    BY <2>1, KnownIs
  <2>6. ASSUME NEW m \in Path \ {Root}, phase'[m] # "idle"
        PROVE  Kept(m)' /\ (phase[Parent(m)] \in Past)'
    <3>1. Kept(m) /\ phase[Parent(m)] \in Past
      BY <1>a, <2>1, <2>5, <2>6
    <3>2. Parent(m) # n /\ Parent(m) \in Path
      BY <2>1, <3>1, ParentIs DEF Past
    <3> QED BY <2>1, <3>1, <3>2 DEF Kept
  <2>7. OrderInv'
    BY <2>6
  <2>8. EmptyInv'
    BY <1>a, <2>1
  <2> QED BY <2>3, <2>4, <2>7, <2>8
<1>3. ASSUME NEW n \in Path, EndFind(n)
      PROVE  NamesInv' /\ ChildrenInv' /\ OrderInv' /\ EmptyInv'
  <2>1. /\ phase[n] = "finding" /\ phase'[n] = "found" /\ children'[n] \in Found(n)
        /\ names[n] = {} /\ UNCHANGED <<names, info, contents>>
        /\ \A k \in Path \ {n} : phase'[k] = phase[k] /\ children'[k] = children[k]
    BY <1>3, EndFindStep
  <2>2. \A i \in DOMAIN children'[n] : children'[n][i] \in KeptBelow(n)
    BY <2>1, RowIs DEF Found, KeptBelow
  <2>3. NamesInv'
    BY <1>a, <2>1
  <2>4. ChildrenInv'
    BY <1>a, <2>1, <2>2 DEF KeptBelow, Kept, Past
  <2>5. OrderInv'
    BY <1>a, <2>1, ParentIs DEF Kept, Past
  <2>6. EmptyInv'
    BY <1>a, <2>1
  <2> QED BY <2>3, <2>4, <2>5, <2>6
<1>4. ASSUME NEW n \in Path, Visit(n) \/ Fails(n)
      PROVE  NamesInv' /\ ChildrenInv' /\ OrderInv' /\ EmptyInv'
  <2>1. /\ \/ phase[n] = "found" /\ phase'[n] \in {"failed", "visited"}
           \/ phase[n] = "finding" /\ phase'[n] = "failed" /\ contents' = contents
        /\ UNCHANGED <<names, info, children>>
        /\ \A k \in Path \ {n} : phase'[k] = phase[k] /\ contents'[k] = contents[k]
    BY <1>4, VisitStep, FailsStep
  <2>2. NamesInv'
    BY <1>a, <2>1
  <2>3. ChildrenInv'
    BY <1>a, <2>1 DEF KeptBelow, Kept, Past
  <2>4. OrderInv'
    BY <1>a, <2>1, ParentIs DEF Kept, Past
  <2>5. ASSUME NEW k \in Path, (phase[k] = "idle" \/ info[k].kind # "dir")', NEW m \in Below(k)
        PROVE  (info[m] = Nothing /\ contents[m] = 0)'
    <3>1. info[m] = Nothing /\ contents[m] = 0
      BY <1>a, <2>1, <2>5
    <3>2. m \in Path /\ m # Root
      BY <1>c
    <3>3. m # n
      BY <1>a, <2>1, <3>1, <3>2 DEF Kept
    <3> QED BY <2>1, <3>1, <3>2, <3>3
  <2> QED BY <2>2, <2>3, <2>4, <2>5
<1>5. ASSUME NEW n \in Path, NEW m \in Path, Lstat(n, m)
      PROVE  NamesInv' /\ ChildrenInv' /\ OrderInv' /\ EmptyInv'
  <2>1. /\ phase[n] = "finding" /\ m \in names[n] /\ UNCHANGED <<children, contents>>
        /\ phase'[n] \in {"finding", "failed"} /\ \A k \in Path \ {n} : phase'[k] = phase[k]
        /\ names'[n] = names[n] \ {m}
        /\ \A k \in Path \ {n} : names'[k] = names[k]
        /\ \A k \in Path \ {m} : info'[k] = info[k]
    BY <1>5, LstatStep
  <2>2. /\ m \in Below(n) /\ m # Root /\ m # n /\ Parent(m) = n
        /\ phase[m] = "idle" /\ info[n].kind = "dir"
    BY <2>1, LstatIsEarly
  <2>3. NamesInv'
    BY <1>a, <2>1, <2>2
  <2>4. ASSUME NEW k \in Path, NEW i \in DOMAIN children[k]
        PROVE  (phase[k] \in Past /\ children[k][i] \in KeptBelow(k))'
    <3>1. phase[k] \in Past /\ children[k][i] \in Below(k) /\ Kept(children[k][i])
      BY <1>a DEF KeptBelow
    <3>2. children[k][i] \in Path /\ Parent(children[k][i]) = k
      BY <3>1, ParentOf
    <3>3. children[k][i] # m /\ k # n
      BY <2>1, <2>2, <3>1, <3>2 DEF Past
    <3> QED BY <2>1, <3>1, <3>2, <3>3 DEF KeptBelow, Kept
  <2>5. ChildrenInv'
    BY <2>1, <2>4
  <2>6. ASSUME NEW k \in Path \ {Root}, phase'[k] # "idle"
        PROVE  Kept(k)' /\ phase'[Parent(k)] \in Past
    <3>1. phase[k] # "idle" /\ k # m
      BY <2>1, <2>2, <2>6
    <3>2. Kept(k) /\ phase[Parent(k)] \in Past /\ Parent(k) \in Path
      BY <1>a, <3>1, ParentIs
    <3>3. Parent(k) # n
      BY <2>1, <3>2 DEF Past
    <3> QED BY <2>1, <3>1, <3>2, <3>3 DEF Kept
  <2>7. ASSUME NEW k \in Path, (phase[k] = "idle" \/ info[k].kind # "dir")', NEW d \in Below(k)
        PROVE  (info[d] = Nothing /\ contents[d] = 0)'
    <3>1. d \in Path /\ Parent(d) = k
      BY ParentOf
    <3>2. k # n
      BY <2>1, <2>2, <2>7
    <3>3. phase[k] = "idle" \/ info[k].kind # "dir"
      BY <2>1, <2>2, <2>7
    <3> QED BY <1>a, <2>1, <2>2, <3>1, <3>2, <3>3
  <2> QED BY <2>3, <2>5, <2>6, <2>7
<1>6. ASSUME NEW n \in Path, NEW m \in Path, Readlink(n, m)
      PROVE  NamesInv' /\ ChildrenInv' /\ OrderInv' /\ EmptyInv'
  <2>1. /\ phase[n] = "finding" /\ names[n] = {} /\ m \in Below(n)
        /\ UNCHANGED <<names, info, children>> /\ phase'[n] \in {"finding", "failed"}
        /\ \A k \in Path \ {n} : phase'[k] = phase[k]
        /\ \A k \in Path \ {m} : contents'[k] = contents[k]
    <3>1. \/ phase' = phase /\ contents'[m] = disk[m].version + 1
          \/ phase'[n] = "failed" /\ contents' = contents
      BY <1>6, ReadlinkStep
    <3>2. phase[n] = "finding" /\ phase'[n] \in {"finding", "failed"}
      BY <1>6, <3>1, ReadlinkStep
    <3> QED BY <1>6, <3>2, ReadlinkStep DEF Unread
  <2>2. Parent(m) = n /\ info[n].kind = "dir"
    BY <1>a, <2>1, ParentOf
  <2>3. NamesInv' /\ ChildrenInv'
    BY <1>a, <2>1 DEF KeptBelow, Kept, Past
  <2>4. OrderInv'
    BY <1>a, <2>1, ParentIs DEF Kept, Past
  <2>5. ASSUME NEW k \in Path, (phase[k] = "idle" \/ info[k].kind # "dir")', NEW d \in Below(k)
        PROVE  (info[d] = Nothing /\ contents[d] = 0)'
    <3>1. d \in Path /\ Parent(d) = k
      BY ParentOf
    <3>2. k # n
      BY <2>1, <2>2, <2>5
    <3> QED BY <1>a, <2>1, <2>2, <2>5, <3>1, <3>2
  <2> QED BY <2>3, <2>4, <2>5
<1>7. ASSUME NEW n \in Path, Change(n) PROVE UNCHANGED walk
  BY <1>7 DEF Change
<1>8. ASSUME Finish \/ UNCHANGED vars PROVE UNCHANGED walk
  BY <1>8 DEF Finish, vars
<1> QED
  <2> HIDE DEF NamesInv, ChildrenInv, OrderInv, EmptyInv
  <2> QED BY <1>0, <1>1, <1>2, <1>3, <1>4, <1>5, <1>6, <1>7, <1>8, NextCases

\* A step of the walk is taken while the job runs.
Work(n) == \/ StartFind(n) \/ EndFind(n) \/ Visit(n) \/ Fails(n)
           \/ \E m \in Path : Lstat(n, m) \/ Readlink(n, m)

LEMMA WorkStep ==
    ASSUME TypeInv, RunInv, EndInv, NEW n \in Path, Work(n)
    PROVE  /\ result = "running" /\ UNCHANGED Outside /\ moved' \subseteq moved
           /\ info'[Root] = info[Root]
<1>1. phase[n] = "finding" => result = "running"
  BY DEF EndInv
<1>2. Root \in Path
  BY PathAssumption
<1>3. ASSUME NEW m \in Path, Lstat(n, m)
      PROVE  /\ result = "running" /\ UNCHANGED Outside /\ moved' \subseteq moved
             /\ info'[Root] = info[Root]
  <2>1. m # Root
    BY <1>3, LstatStep, LstatIsEarly
  <2> QED BY <1>1, <1>2, <1>3, <2>1, LstatStep
<1>4. ASSUME NEW m \in Path, Readlink(n, m)
      PROVE  result = "running" /\ UNCHANGED <<Outside, moved, info>>
  BY <1>1, <1>4, ReadlinkStep
<1>5. ASSUME StartFind(n) \/ EndFind(n)
      PROVE  result = "running" /\ UNCHANGED <<Outside, moved, info>>
  BY <1>1, <1>5, StartFindStep, EndFindStep DEF Going
<1>6. ASSUME Visit(n) \/ Fails(n)
      PROVE  result = "running" /\ UNCHANGED <<Outside, moved, info>>
  BY <1>6, VisitStep, FailsStep DEF Going
<1> QED BY <1>3, <1>4, <1>5, <1>6 DEF Work

LEMMA StepCases ==
    ASSUME [Next]_vars
    PROVE  \/ \E n \in Path : Change(n) \/ Work(n)
           \/ \E what \in {"save", "list"} : Start(what)
           \/ Finish \/ UNCHANGED vars
  BY NextCases DEF Work

LEMMA NextEnd ==
    ASSUME TypeInv, RunInv, EndInv, [Next]_vars
    PROVE  EndInv'
<1>1. ASSUME NEW n \in Path, Change(n) PROVE EndInv'
  <2>1. /\ n # Root /\ touched' = touched \cup {n} /\ still' = FALSE
        /\ moved' \subseteq moved \cup {n} /\ UNCHANGED <<job, walk, result>>
    BY <1>1, ChangeStep
  <2> QED BY <2>1 DEF EndInv, walk
<1>2. ASSUME NEW n \in Path, Work(n) PROVE EndInv'
  BY <1>2, WorkStep DEF EndInv, Outside
<1>3. ASSUME NEW what \in {"save", "list"}, Start(what) PROVE EndInv'
  <2>1. /\ result' = "running" /\ touched' = {} /\ moved' = {}
        /\ info'[Root] = [kind |-> "dir", version |-> 0]
    BY <1>3, StartStep
  <2> QED BY <2>1 DEF EndInv
<1>4. CASE Finish
  <2>1. /\ result = "running" /\ \A n \in Path : phase[n] # "finding"
        /\ IF Going THEN phase[Root] = "visited" /\ result' = "ok" ELSE result' = "error"
        /\ UNCHANGED <<job, still, touched, moved, phase, info>>
    BY <1>4 DEF Finish, tree, walk
  <2> QED BY <2>1 DEF EndInv, Going
<1>5. CASE UNCHANGED vars
  BY <1>5 DEF EndInv, vars, tree, walk
<1> QED BY <1>1, <1>2, <1>3, <1>4, <1>5, StepCases

------------------------------------------------------------------------------
(* What the lstats saw                                                     *)

LEMMA NextSeen ==
    ASSUME TypeInv, RunInv, EndInv, LookInv, [Next]_vars
    PROVE  SeenInv'
<1> USE DEF SeenInv
<1>a. SeenInv
  BY DEF LookInv
<1>1. ASSUME NEW k \in Path, Change(k) PROVE SeenInv'
  <2>1. /\ touched' = touched \cup {k} /\ moved \subseteq moved'
        /\ disk'[k].kind # disk[k].kind => k \in moved'
        /\ \A m \in Path \ {k} : disk'[m] = disk[m]
        /\ info' = info
    BY <1>1, ChangeStep DEF walk
  <2> QED BY <1>a, <2>1
<1>2. ASSUME NEW n \in Path, Work(n) PROVE SeenInv'
  <2>1. disk' = disk /\ touched' = touched
    BY <1>2, WorkStep DEF Outside
  <2>2. ASSUME NEW m \in Path, Lstat(n, m) PROVE SeenInv'
    <3>1. /\ phase[n] = "finding" /\ m \in names[n] /\ moved' = moved \ {m}
          /\ \A k \in Path \ {m} : info'[k] = info[k]
          /\ info'[m] = disk[m] \/ info'[m] = info[m]
      BY <2>2, LstatStep
    <3>2. m \in Below(n) /\ info[n].kind = "dir"
      BY <3>1, LstatIsEarly
    <3>3. info[m] = Nothing
      BY <3>1, <3>2 DEF LookInv, UnseenInv, Read
    <3> QED BY <1>a, <2>1, <3>1, <3>3
  <2>3. ASSUME NEW m \in Path, Readlink(n, m) PROVE UNCHANGED <<info, moved>>
    BY <2>3, ReadlinkStep
  <2>4. ASSUME StartFind(n) \/ EndFind(n) PROVE UNCHANGED <<info, moved>>
    BY <2>4, StartFindStep, EndFindStep
  <2>5. ASSUME Visit(n) \/ Fails(n) PROVE UNCHANGED <<info, moved>>
    BY <2>5, VisitStep, FailsStep
  <2>6. ASSUME UNCHANGED <<info, moved>> PROVE SeenInv'
    BY <1>a, <2>1, <2>6
  <2> HIDE DEF SeenInv
  <2> QED BY <1>2, <2>2, <2>3, <2>4, <2>5, <2>6 DEF Work
<1>3. ASSUME NEW what \in {"save", "list"}, Start(what) PROVE SeenInv'
  <2>1. \A n \in Path \ {Root} : info'[n] = Nothing
    BY <1>3, StartStep
  <2> QED BY <2>1
<1>4. CASE Finish \/ UNCHANGED vars
  BY <1>a, <1>4 DEF Finish, vars, tree, walk
<1> HIDE DEF SeenInv
<1> QED BY <1>1, <1>2, <1>3, <1>4, StepCases

LEMMA NextUnseen ==
    ASSUME TypeInv, RunInv, EndInv, LookInv, [Next]_vars
    PROVE  UnseenInv'
<1> USE DEF UnseenInv
<1>a. UnseenInv
  BY DEF LookInv
<1>b. \A n \in Path : Below(n) \subseteq Path
  BY BelowIs
<1>c. \A n \in Path : ~Exists(n) => disk[n] = Nothing
  BY DEF TypeInv, DiskType, Exists
\* What is read does not change, and nothing more is.
<1>0. ASSUME UNCHANGED <<names, info, disk, touched>>, \A n \in Path : Read(n)' => Read(n)
      PROVE  UnseenInv'
  BY <1>a, <1>0 DEF Exists
<1>1. ASSUME NEW k \in Path, Change(k) PROVE UnseenInv'
  <2>1. /\ touched' = touched \cup {k} /\ \A m \in Path \ {k} : disk'[m] = disk[m]
        /\ UNCHANGED <<info, phase, names>>
    BY <1>1, ChangeStep DEF walk
  <2> QED BY <1>a, <1>b, <2>1 DEF Exists, Read
<1>2. ASSUME NEW n \in Path, StartFind(n) PROVE UnseenInv'
  <2>1. /\ phase[n] = "idle" /\ UNCHANGED <<info, disk, touched>>
        /\ \A m \in Path \ {n} : phase'[m] = phase[m] /\ names'[m] = names[m]
        /\ Read(n)' => names'[n] = {m \in Below(n) : Exists(m)}
    BY <1>2, StartFindStep DEF Outside, Read
  <2>2. \A d \in Below(n) : info[d] = Nothing
    BY <2>1 DEF RunInv, EmptyInv
  <2>3. \A m \in Path \ {n} : Read(m)' => Read(m)
    BY <2>1 DEF Read
  <2>4. ASSUME NEW d \in Below(n), Read(n)'
        PROVE  IF d \in names'[n] THEN info'[d] = Nothing /\ (d \notin touched' => Exists(d)')
                                  ELSE d \notin touched' => info'[d] = disk'[d]
    BY <1>b, <1>c, <2>1, <2>2, <2>4 DEF Exists
  <2>5. ASSUME NEW m \in Path \ {n}, NEW d \in Below(m), Read(m)'
        PROVE  IF d \in names'[m] THEN info'[d] = Nothing /\ (d \notin touched' => Exists(d)')
                                  ELSE d \notin touched' => info'[d] = disk'[d]
    BY <1>a, <2>1, <2>3, <2>5 DEF Exists
  <2> QED BY <2>4, <2>5
<1>3. ASSUME NEW n \in Path, EndFind(n) \/ Visit(n) \/ Fails(n) PROVE UnseenInv'
  <2>1. /\ UNCHANGED <<names, info, disk, touched>> /\ phase[n] \in {"finding", "found"}
        /\ \A k \in Path \ {n} : phase'[k] = phase[k]
    BY <1>3, EndFindStep, VisitStep, FailsStep DEF Outside
  <2>2. \A k \in Path : Read(k)' => Read(k)
    BY <2>1 DEF Read
  <2> QED BY <1>0, <2>1, <2>2
<1>4. ASSUME NEW n \in Path, NEW m \in Path, Readlink(n, m) PROVE UnseenInv'
  <2>1. /\ UNCHANGED <<names, info, disk, touched>> /\ phase[n] = "finding"
        /\ \A k \in Path \ {n} : phase'[k] = phase[k]
    BY <1>4, ReadlinkStep DEF Outside
  <2>2. \A k \in Path : Read(k)' => Read(k)
    BY <2>1 DEF Read
  <2> QED BY <1>0, <2>1, <2>2
<1>5. ASSUME NEW n \in Path, NEW m \in Path, Lstat(n, m) PROVE UnseenInv'
  <2>1. /\ phase[n] = "finding" /\ m \in names[n] /\ UNCHANGED <<disk, touched>>
        /\ \A k \in Path \ {n} : phase'[k] = phase[k]
        /\ names'[n] = names[n] \ {m}
        /\ \A k \in Path \ {n} : names'[k] = names[k]
        /\ \A k \in Path \ {m} : info'[k] = info[k]
        /\ \/ Exists(m) /\ info'[m] = disk[m]
           \/ ~Exists(m) /\ info'[m] = info[m]
    BY <1>5, LstatStep DEF Outside
  <2>2. m \in Below(n) /\ m # n /\ Parent(m) = n /\ phase[m] = "idle" /\ info[n].kind = "dir"
    BY <2>1, LstatIsEarly
  <2>3. Read(n) /\ info[m] = Nothing /\ info'[m] = disk[m]
    BY <1>a, <1>c, <2>1, <2>2 DEF Read
  <2>4. ASSUME NEW k \in Path, Read(k)', NEW d \in Below(k)
        PROVE  IF d \in names'[k] THEN info'[d] = Nothing /\ (d \notin touched' => Exists(d)')
                                  ELSE d \notin touched' => info'[d] = disk'[d]
    <3>1. Read(k)
      BY <2>1, <2>2, <2>4 DEF Read
    <3>2. d \in Path /\ Parent(d) = k
      BY ParentOf
    <3>3. CASE d = m
      <4>1. k = n
        BY <2>2, <3>2, <3>3
      <4> QED BY <2>1, <2>3, <3>3, <4>1
    <3>4. CASE d # m
      BY <1>a, <2>1, <3>1, <3>2, <3>4 DEF Exists
    <3> QED BY <3>3, <3>4
  <2> QED BY <2>4
<1>6. ASSUME NEW what \in {"save", "list"}, Start(what) PROVE UnseenInv'
  <2>1. \A n \in Path : ~Read(n)'
    BY <1>6, StartStep DEF Read
  <2> QED BY <2>1
<1>7. CASE Finish \/ UNCHANGED vars
  BY <1>0, <1>7 DEF Finish, vars, tree, walk, Read
<1> HIDE DEF UnseenInv
<1> QED BY <1>1, <1>2, <1>3, <1>4, <1>5, <1>6, <1>7, NextCases

------------------------------------------------------------------------------
(* What a found directory has                                              *)

\* Contents that were read are never 0.
LEMMA ContentsGrow ==
    ASSUME TypeInv, NEW n \in Path, Work(n)
    PROVE  \A k \in Path : contents[k] # 0 => contents'[k] # 0
<1>1. \A k \in Path : disk[k].version + 1 # 0
  BY EntryIs, PathAssumption DEF TypeInv
<1>2. Elsewhere # 0
  BY PathAssumption DEF Elsewhere
<1>3. ASSUME Visit(n) PROVE \A k \in Path : contents[k] # 0 => contents'[k] # 0
  <2>1. 0 \notin Readable(n)
    BY <1>1, <1>2 DEF Readable
  <2> QED BY <1>3, <2>1, VisitStep
<1>4. ASSUME NEW m \in Path, Readlink(n, m)
      PROVE  \A k \in Path : contents[k] # 0 => contents'[k] # 0
  BY <1>1, <1>4, ReadlinkStep
<1>5. ASSUME NEW m \in Path, Lstat(n, m) PROVE contents' = contents
  BY <1>5, LstatStep
<1>6. ASSUME StartFind(n) \/ EndFind(n) \/ Fails(n) PROVE contents' = contents
  BY <1>6, StartFindStep, EndFindStep, FailsStep
<1> QED BY <1>3, <1>4, <1>5, <1>6 DEF Work

LEMMA KeptSame ==
    ASSUME NEW n \in Path, \A d \in Below(n) : info'[d] = info[d]
    PROVE  KeptBelow(n)' = KeptBelow(n) /\ Found(n)' = Found(n)
<1>1. KeptBelow(n)' = KeptBelow(n)
  BY DEF KeptBelow, Kept
<1> QED BY <1>1 DEF Found

\* A directory with no kept entries has the empty listing.
LEMMA EmptyRow ==
    ASSUME NEW n \in Path, KeptBelow(n) = {}, NEW q \in Seq(Path), DOMAIN q = {}
    PROVE  q \in Found(n)
<1>1. Cardinality({}) = 0
  BY FS_EmptySet
<1>2. q \in [1..0 -> {}]
  BY 1..0 = {}
<1>3. q \in Rows({})
  BY <1>1, <1>2 DEF Rows
<1> QED BY <1>3 DEF Found, Sorted

\* A lstat is of nothing that is in a directory which has been found.
LEMMA LstatElsewhere ==
    ASSUME TypeInv, RunInv, NEW n \in Path, NEW m \in Path, Lstat(n, m),
           NEW k \in Path, phase[k] \in Past
    PROVE  k # m /\ phase'[k] = phase[k] /\ \A d \in Below(k) : info'[d] = info[d]
<1>1. /\ phase[n] = "finding" /\ m \in names[n] /\ \A j \in Path \ {n} : phase'[j] = phase[j]
      /\ \A j \in Path \ {m} : info'[j] = info[j]
  BY LstatStep
<1>2. Parent(m) = n /\ phase[m] = "idle"
  BY <1>1, LstatIsEarly
<1>3. \A d \in Below(k) : d \in Path /\ Parent(d) = k
  BY ParentOf
<1> QED BY <1>1, <1>2, <1>3 DEF Past

LEMMA NextFound ==
    ASSUME TypeInv, RunInv, EndInv, FoundInv, [Next]_vars
    PROVE  FoundInv'
<1> DEFINE Has(n) == children[n] \in Found(n) /\ names[n] = {} /\ Unread(n) = {}
<1>a. /\ \A n \in Path : phase[n] \in {"found", "visited"} => Has(n)
      /\ \A n \in Path \ {Root} : phase[n] # "idle" /\ info[n].kind = "symlink" => contents[n] # 0
  BY DEF FoundInv
<1>b. \A n \in Path : Below(n) \subseteq Path
  BY BelowIs
\* What keeps a found directory as it is.
<1>0. ASSUME NEW n \in Path, Has(n), children'[n] = children[n], names'[n] = names[n],
             \A d \in Below(n) : info'[d] = info[d] /\ (contents[d] # 0 => contents'[d] # 0)
      PROVE  Has(n)'
  <2>1. Found(n)' = Found(n)
    BY <1>0, KeptSame
  <2>2. Unread(n)' \subseteq Unread(n)
    BY <1>0 DEF Unread, Kept
  <2> QED BY <1>0, <2>1, <2>2
<1>1. ASSUME NEW n \in Path, StartFind(n) PROVE FoundInv'
  <2>1. /\ Going /\ phase[n] = "idle" /\ Known(n) /\ UNCHANGED <<info, children, contents>>
        /\ \A m \in Path \ {n} : phase'[m] = phase[m] /\ names'[m] = names[m]
        /\ phase'[n] \in {"found", "failed", "finding"}
        /\ phase'[n] = "found" => names'[n] = names[n]
    BY <1>1, StartFindStep
  <2>2. \A d \in Below(n) : info[d] = Nothing
    BY <2>1 DEF RunInv, EmptyInv
  <2>3. Unread(n) = {} /\ KeptBelow(n) = {}
    BY <2>2 DEF Unread, KeptBelow, Kept
  <2>4. children[n] \in Found(n)
    <3>1. children[n] \in Seq(Path) /\ DOMAIN children[n] = {}
      BY <2>1 DEF TypeInv, WalkType, RunInv, ChildrenInv, Past
    <3> QED BY <2>3, <3>1, EmptyRow
  <2>5. names[n] = {}
    BY <2>1 DEF RunInv, NamesInv
  <2>6. ASSUME NEW m \in Path, phase'[m] \in {"found", "visited"} PROVE Has(m)'
    <3>1. CASE m = n
      BY <1>0, <2>1, <2>3, <2>4, <2>5, <2>6, <3>1
    <3>2. CASE m # n
      BY <1>0, <1>a, <2>1, <2>6, <3>2
    <3> QED BY <3>1, <3>2
  <2>7. n # Root /\ info[n].kind = "symlink" => contents[n] # 0
    <3>1. SUFFICES ASSUME n # Root, info[n].kind = "symlink" PROVE contents[n] # 0
      OBVIOUS
    <3>2. /\ Parent(n) \in Path /\ n \in KeptBelow(Parent(n)) /\ Kept(n)
          /\ phase[Parent(n)] \in {"found", "visited"}
      BY <2>1, <3>1, KnownIs DEF Going, Past
    <3>3. Unread(Parent(n)) = {}
      BY <1>a, <3>2
    <3> QED BY <3>1, <3>2, <3>3 DEF Unread, KeptBelow
  <2>8. ASSUME NEW m \in Path \ {Root}, phase'[m] # "idle", info'[m].kind = "symlink"
        PROVE  contents'[m] # 0
    BY <1>a, <2>1, <2>7, <2>8
  <2> QED BY <2>6, <2>8 DEF FoundInv
<1>2. ASSUME NEW n \in Path, EndFind(n) PROVE FoundInv'
  <2>1. /\ phase[n] = "finding" /\ phase'[n] = "found" /\ children'[n] \in Found(n)
        /\ names[n] = {} /\ Unread(n) = {} /\ UNCHANGED <<names, info, contents>>
        /\ \A k \in Path \ {n} : phase'[k] = phase[k] /\ children'[k] = children[k]
    BY <1>2, EndFindStep
  <2>2. Has(n)'
    <3>1. Found(n)' = Found(n)
      BY <2>1, KeptSame
    <3>2. Unread(n)' = Unread(n)
      BY <2>1 DEF Unread, Kept
    <3> QED BY <2>1, <3>1, <3>2
  <2>3. \A m \in Path \ {n} : phase'[m] \in {"found", "visited"} => Has(m)'
    BY <1>0, <1>a, <2>1
  <2>4. ASSUME NEW m \in Path \ {Root}, phase'[m] # "idle", info'[m].kind = "symlink"
        PROVE  contents'[m] # 0
    BY <1>a, <2>1, <2>4
  <2> QED BY <2>2, <2>3, <2>4 DEF FoundInv
<1>3. ASSUME NEW n \in Path, Visit(n) \/ Fails(n) PROVE FoundInv'
  <2>1. /\ phase[n] # "idle" /\ phase'[n] \in {"visited", "failed"}
        /\ phase'[n] = "visited" => phase[n] = "found"
        /\ UNCHANGED <<names, info, children>>
        /\ \A k \in Path \ {n} : phase'[k] = phase[k]
    BY <1>3, VisitStep, FailsStep
  <2>2. \A k \in Path : contents[k] # 0 => contents'[k] # 0
    BY <1>3, ContentsGrow DEF Work
  <2>3. \A k \in Path : phase'[k] \in {"found", "visited"} => phase[k] \in {"found", "visited"}
    BY <2>1
  <2>4. \A m \in Path : phase'[m] \in {"found", "visited"} => Has(m)'
    BY <1>0, <1>a, <1>b, <2>1, <2>2, <2>3
  <2>5. ASSUME NEW m \in Path \ {Root}, phase'[m] # "idle", info'[m].kind = "symlink"
        PROVE  contents'[m] # 0
    BY <1>a, <2>1, <2>2, <2>5
  <2> QED BY <2>4, <2>5 DEF FoundInv
<1>4. ASSUME NEW n \in Path, NEW m \in Path, Lstat(n, m) PROVE FoundInv'
  <2>1. /\ phase[n] = "finding" /\ m \in names[n] /\ UNCHANGED <<children, contents>>
        /\ phase'[n] \in {"finding", "failed"} /\ \A k \in Path \ {n} : phase'[k] = phase[k]
        /\ \A k \in Path \ {n} : names'[k] = names[k]
        /\ \A k \in Path \ {m} : info'[k] = info[k]
    BY <1>4, LstatStep
  <2>2. ASSUME NEW k \in Path, phase[k] \in {"found", "visited"} PROVE Has(k)'
    <3>1. k # n /\ \A d \in Below(k) : info'[d] = info[d]
      BY <1>4, <2>1, <2>2, LstatElsewhere DEF Past
    <3> QED BY <1>0, <1>a, <2>1, <2>2, <3>1
  <2>3. phase[m] = "idle"
    BY <2>1, LstatIsEarly
  <2>4. ASSUME NEW k \in Path \ {Root}, phase'[k] # "idle", info'[k].kind = "symlink"
        PROVE  contents'[k] # 0
    BY <1>a, <2>1, <2>3, <2>4
  <2> QED BY <2>1, <2>2, <2>4 DEF FoundInv
<1>5. ASSUME NEW n \in Path, NEW m \in Path, Readlink(n, m) PROVE FoundInv'
  <2>1. /\ phase[n] = "finding" /\ UNCHANGED <<names, info, children>>
        /\ \A k \in Path \ {n} : phase'[k] = phase[k]
        /\ phase' = phase \/ phase'[n] = "failed"
    BY <1>5, ReadlinkStep
  <2>2. \A k \in Path : contents[k] # 0 => contents'[k] # 0
    BY <1>5, ContentsGrow DEF Work
  <2>3. \A k \in Path : phase'[k] \in {"found", "visited"} => phase[k] \in {"found", "visited"}
    BY <2>1
  <2>4. \A k \in Path : phase'[k] \in {"found", "visited"} => Has(k)'
    BY <1>0, <1>a, <1>b, <2>1, <2>2, <2>3
  <2>5. ASSUME NEW k \in Path \ {Root}, phase'[k] # "idle", info'[k].kind = "symlink"
        PROVE  contents'[k] # 0
    BY <1>a, <2>1, <2>2, <2>5
  <2> QED BY <2>4, <2>5 DEF FoundInv
<1>6. ASSUME UNCHANGED walk PROVE FoundInv'
  <2>1. UNCHANGED <<phase, names, info, children, contents>>
    BY <1>6 DEF walk
  <2>2. \A k \in Path : phase'[k] \in {"found", "visited"} => Has(k)'
    BY <1>0, <1>a, <2>1
  <2> QED BY <1>a, <2>1, <2>2 DEF FoundInv
<1>7. ASSUME NEW what \in {"save", "list"}, Start(what) PROVE FoundInv'
  <2>1. \A n \in Path : phase'[n] = "idle"
    BY <1>7, StartStep
  <2> QED BY <2>1 DEF FoundInv
<1>8. ASSUME NEW n \in Path, Change(n) PROVE UNCHANGED walk
  BY <1>8 DEF Change
<1>9. ASSUME Finish \/ UNCHANGED vars PROVE UNCHANGED walk
  BY <1>9 DEF Finish, vars
<1> HIDE DEF Has
<1> QED BY <1>1, <1>2, <1>3, <1>4, <1>5, <1>6, <1>7, <1>8, <1>9, NextCases

------------------------------------------------------------------------------
(* What the visits leave                                                   *)

LEMMA NextVisit ==
    ASSUME TypeInv, RunInv, EndInv, FoundInv, VisitInv, [Next]_vars
    PROVE  VisitInv'
<1> USE DEF VisitInv
<1>a. VisitInv
  OBVIOUS
<1>0. ASSUME NEW k \in Path, phase[k] = "visited", info'[k] = info[k], job' = job,
             \A d \in Below(k) : info'[d] = info[d],
             \A d \in Path : phase[d] = "visited" => phase'[d] = "visited",
             contents[k] # 0 => contents'[k] # 0
      PROVE  /\ \A d \in KeptBelow(k)' : phase'[d] = "visited"
             /\ job' = "save" => info'[k].kind # "pipe" /\ (info'[k].kind = "file" => contents'[k] # 0)
  <2>1. KeptBelow(k)' = KeptBelow(k) /\ KeptBelow(k) \subseteq Path
    BY <1>0, KeptSame, BelowIs DEF KeptBelow
  <2> QED BY <1>a, <1>0, <2>1
<1>1. ASSUME NEW n \in Path, Visit(n) PROVE VisitInv'
  <2>1. /\ phase[n] = "found" /\ UNCHANGED <<info, job>>
        /\ \A i \in DOMAIN children[n] : phase[children[n][i]] = "visited"
        /\ \A k \in Path \ {n} : phase'[k] = phase[k]
        /\ \/ phase'[n] = "failed"
           \/ /\ phase'[n] = "visited"
              /\ job = "save" => info[n].kind \notin {"pipe", "file"}
           \/ /\ phase'[n] = "visited" /\ info[n].kind = "file"
              /\ contents'[n] \in Readable(n)
    BY <1>1, VisitStep DEF Outside
  <2>2. \A k \in Path : contents[k] # 0 => contents'[k] # 0
    BY <1>1, ContentsGrow DEF Work
  <2>3. ASSUME NEW k \in Path \ {n}, phase'[k] = "visited"
        PROVE  /\ \A d \in KeptBelow(k)' : phase'[d] = "visited"
               /\ job' = "save" => info'[k].kind # "pipe" /\ (info'[k].kind = "file" => contents'[k] # 0)
    BY <1>0, <2>1, <2>2, <2>3
  <2>4. ASSUME phase'[n] = "visited" PROVE \A d \in KeptBelow(n)' : phase'[d] = "visited"
    <3>1. KeptBelow(n)' = KeptBelow(n) /\ KeptBelow(n) \subseteq Path
      BY <2>1, KeptSame, BelowIs DEF KeptBelow
    <3>2. children[n] \in Found(n)
      BY <2>1 DEF FoundInv
    <3>3. \A d \in KeptBelow(n) : \E i \in DOMAIN children[n] : children[n][i] = d
      <4>1. KeptBelow(n) \subseteq Below(n) /\ children[n] \in Rows(KeptBelow(n))
        BY <3>2 DEF Found, KeptBelow
      <4> QED BY <4>1, RowIs
    <3> QED BY <2>1, <2>4, <3>1, <3>3
  <2>5. ASSUME phase'[n] = "visited", job = "save"
        PROVE  info[n].kind # "pipe" /\ (info[n].kind = "file" => contents'[n] # 0)
    <3>1. 0 \notin Readable(n)
      <4>1. disk[n].version + 1 # 0
        BY EntryIs, PathAssumption DEF TypeInv
      <4>2. Elsewhere # 0
        BY PathAssumption DEF Elsewhere
      <4> QED BY <4>1, <4>2 DEF Readable
    <3> QED BY <2>1, <2>5, <3>1
  <2> QED BY <2>1, <2>3, <2>4, <2>5
<1>2. ASSUME NEW n \in Path, StartFind(n) \/ EndFind(n) \/ Fails(n) PROVE VisitInv'
  <2>1. /\ phase[n] # "visited" /\ phase'[n] # "visited"
        /\ UNCHANGED <<info, job, contents>>
        /\ \A k \in Path \ {n} : phase'[k] = phase[k]
    <3>1. CASE StartFind(n) \/ Fails(n)
      BY <3>1, StartFindStep, FailsStep DEF Outside
    <3>2. CASE EndFind(n)
      BY <3>2, EndFindStep DEF Outside
    <3> QED BY <1>2, <3>1, <3>2
  <2> QED BY <1>0, <2>1
<1>3. ASSUME NEW n \in Path, NEW m \in Path, Lstat(n, m) PROVE VisitInv'
  <2>1. /\ m \in names[n] /\ phase[n] = "finding" /\ UNCHANGED <<contents, job>>
        /\ phase'[n] \in {"finding", "failed"} /\ \A k \in Path \ {n} : phase'[k] = phase[k]
        /\ \A k \in Path \ {m} : info'[k] = info[k]
    BY <1>3, LstatStep DEF Outside
  <2>2. \A k \in Path : phase[k] = "visited" => k # m /\ \A d \in Below(k) : info'[d] = info[d]
    BY <1>3, LstatElsewhere DEF Past
  <2> QED BY <1>0, <2>1, <2>2
<1>4. ASSUME NEW n \in Path, NEW m \in Path, Readlink(n, m) PROVE VisitInv'
  <2>1. /\ phase[n] = "finding" /\ UNCHANGED <<info, job>>
        /\ \A k \in Path \ {n} : phase'[k] = phase[k]
        /\ phase' = phase \/ phase'[n] = "failed"
    BY <1>4, ReadlinkStep DEF Outside
  <2>2. \A k \in Path : contents[k] # 0 => contents'[k] # 0
    BY <1>4, ContentsGrow DEF Work
  <2> QED BY <1>0, <2>1, <2>2
<1>5. ASSUME UNCHANGED <<walk, job>> PROVE VisitInv'
  BY <1>a, <1>5 DEF walk, KeptBelow, Kept
<1>6. ASSUME NEW what \in {"save", "list"}, Start(what) PROVE VisitInv'
  <2>1. \A n \in Path : phase'[n] = "idle"
    BY <1>6, StartStep
  <2> QED BY <2>1
<1>7. ASSUME NEW n \in Path, Change(n) PROVE UNCHANGED <<walk, job>>
  BY <1>7 DEF Change
<1>8. ASSUME Finish \/ UNCHANGED vars PROVE UNCHANGED <<walk, job>>
  BY <1>8 DEF Finish, vars
<1> HIDE DEF VisitInv
<1> QED BY <1>1, <1>2, <1>3, <1>4, <1>5, <1>6, <1>7, <1>8, NextCases

LEMMA NextContents ==
    ASSUME TypeInv, RunInv, EndInv, LookInv, ContentsInv, [Next]_vars
    PROVE  ContentsInv'
<1> USE DEF ContentsInv
<1>a. ContentsInv
  OBVIOUS
<1>1. ASSUME NEW n \in Path, Visit(n) PROVE ContentsInv'
  <2>1. /\ Going /\ UNCHANGED <<info, disk, touched>>
        /\ \A k \in Path \ {n} : contents'[k] = contents[k]
        /\ \/ contents' = contents
           \/ info[n].kind = "file" /\ contents'[n] \in Readable(n)
    BY <1>1, VisitStep DEF Outside
  <2>2. CASE contents' = contents
    BY <1>a, <2>1, <2>2
  <2>3. CASE info[n].kind = "file" /\ contents'[n] \in Readable(n)
    <3>1. n # Root
      BY <2>1, <2>3 DEF EndInv, Going
    <3>2. n \notin touched => info[n] = disk[n]
      BY <2>3, <3>1 DEF LookInv, SeenInv, Nothing
    <3>3. n \notin touched => contents'[n] = disk[n].version + 1
      BY <2>3, <3>2 DEF Readable
    <3> QED BY <1>a, <2>1, <2>3, <3>1, <3>3
  <2> QED BY <2>1, <2>2, <2>3
<1>2. ASSUME NEW n \in Path, StartFind(n) \/ EndFind(n) \/ Fails(n) PROVE ContentsInv'
  <2>1. UNCHANGED <<info, disk, touched, contents>>
    BY <1>2, StartFindStep, EndFindStep, FailsStep DEF Outside
  <2> QED BY <1>a, <2>1
<1>3. ASSUME NEW n \in Path, NEW m \in Path, Lstat(n, m) PROVE ContentsInv'
  <2>1. /\ m \in names[n] /\ phase[n] = "finding" /\ UNCHANGED <<disk, touched, contents>>
        /\ \A k \in Path \ {m} : info'[k] = info[k]
    BY <1>3, LstatStep DEF Outside
  <2>2. m \in Below(n) /\ info[n].kind = "dir"
    BY <2>1, LstatIsEarly
  <2>3. info[m] = Nothing
    BY <2>1, <2>2 DEF LookInv, UnseenInv, Read
  <2>4. contents[m] = 0
    BY <1>a, <2>3 DEF Nothing
  <2> QED BY <1>a, <2>1, <2>4
<1>4. ASSUME NEW n \in Path, NEW m \in Path, Readlink(n, m) PROVE ContentsInv'
  <2>1. /\ m \in Unread(n) /\ UNCHANGED <<info, disk, touched>>
        /\ \A k \in Path \ {m} : contents'[k] = contents[k]
        /\ contents' = contents \/ contents'[m] = disk[m].version + 1
    BY <1>4, ReadlinkStep DEF Outside
  <2>2. m # Root /\ info[m].kind = "symlink"
    BY <2>1, BelowIs DEF Unread
  <2> QED BY <1>a, <2>1, <2>2
<1>5. ASSUME NEW k \in Path, Change(k) PROVE ContentsInv'
  <2>1. /\ touched' = touched \cup {k} /\ UNCHANGED <<info, contents>>
        /\ \A m \in Path \ {k} : disk'[m] = disk[m]
    BY <1>5, ChangeStep DEF walk
  <2> QED BY <1>a, <2>1
<1>6. ASSUME NEW what \in {"save", "list"}, Start(what) PROVE ContentsInv'
  <2>1. \A n \in Path : contents'[n] = 0
    BY <1>6, StartStep
  <2> QED BY <2>1
<1>7. CASE Finish \/ UNCHANGED vars
  BY <1>a, <1>7 DEF Finish, vars, tree, walk
<1> HIDE DEF ContentsInv
<1> QED BY <1>1, <1>2, <1>3, <1>4, <1>5, <1>6, <1>7, NextCases

------------------------------------------------------------------------------
(* Why a job fails                                                         *)

\* What a path has become since its lstat, and has been lstat'ed.
LEMMA MovedIs ==
    ASSUME LookInv, NEW n \in Path \ {Root}, Kept(n), info[n].kind # disk[n].kind
    PROVE  Cause(n)
BY DEF LookInv, SeenInv, Kept, Cause

LEMMA NextCause ==
    ASSUME TypeInv, RunInv, EndInv, LookInv, CauseInv, [Next]_vars
    PROVE  CauseInv'
<1>r. Root \in Path
  BY PathAssumption
<1>1. ASSUME NEW n \in Path, Work(n) PROVE CauseInv'
  <2>1. job' = job
    BY <1>1, WorkStep DEF Outside
\* Causes stay.
  <2>2. ASSUME NEW k \in Path, Cause(k) PROVE Cause(k)'
    <3>1. ASSUME NEW m \in Path, Lstat(n, m) PROVE Cause(k)'
      <4>1. /\ m \in names[n] /\ phase[n] = "finding" /\ moved' = moved \ {m}
            /\ \A j \in Path \ {m} : info'[j] = info[j]
        BY <3>1, LstatStep
      <4>2. m \in Below(n) /\ info[n].kind = "dir"
        BY <4>1, LstatIsEarly
      <4>3. info[m] = Nothing
        BY <4>1, <4>2 DEF LookInv, UnseenInv, Read
      <4>4. k # m
        BY <2>2, <4>3 DEF Cause, Kept
      <4> QED BY <2>1, <2>2, <4>1, <4>4 DEF Cause, Kept
    <3>2. ASSUME UNCHANGED <<info, moved>> PROVE Cause(k)'
      BY <2>1, <2>2, <3>2 DEF Cause, Kept
    <3>3. ASSUME NEW m \in Path, Readlink(n, m) PROVE UNCHANGED <<info, moved>>
      BY <3>3, ReadlinkStep
    <3>4. ASSUME StartFind(n) \/ EndFind(n) PROVE UNCHANGED <<info, moved>>
      BY <3>4, StartFindStep, EndFindStep
    <3>5. ASSUME Visit(n) \/ Fails(n) PROVE UNCHANGED <<info, moved>>
      BY <3>5, VisitStep, FailsStep
    <3> QED BY <1>1, <3>1, <3>2, <3>3, <3>4, <3>5 DEF Work
  <2>3. ASSUME faulty' = faulty, \A k \in Path : phase'[k] = "failed" => phase[k] = "failed"
        PROVE  CauseInv'
    BY <2>2, <2>3 DEF CauseInv
  <2>4. ASSUME NEW k \in Path, Cause(k) PROVE CauseInv'
    BY <2>2, <2>4 DEF CauseInv
  <2>5. ASSUME StartFind(n) PROVE CauseInv'
    <3>1. /\ Going /\ Known(n) /\ faulty' = faulty /\ \A m \in Path \ {n} : phase'[m] = phase[m]
          /\ \/ phase'[n] \in {"found", "finding"}
             \/ info[n].kind = "dir" /\ disk[n].kind # "dir"
      BY <2>5, StartFindStep
    <3>2. CASE phase'[n] \in {"found", "finding"}
      BY <2>3, <3>1, <3>2
    <3>3. CASE info[n].kind = "dir" /\ disk[n].kind # "dir"
      <4>1. n # Root
        BY <3>3 DEF TypeInv, DiskType, IsTree
      <4>2. Kept(n)
        BY <3>1, <4>1, KnownIs
      <4> QED BY <2>4, <3>3, <4>1, <4>2, MovedIs
    <3> QED BY <3>1, <3>2, <3>3
  <2>6. ASSUME EndFind(n) PROVE CauseInv'
    <3>1. /\ faulty' = faulty /\ phase'[n] = "found" /\ \A k \in Path \ {n} : phase'[k] = phase[k]
      BY <2>6, EndFindStep
    <3> QED BY <2>3, <3>1
  <2>7. ASSUME Visit(n) PROVE CauseInv'
    <3>1. /\ Going /\ phase[n] = "found" /\ faulty' = faulty
          /\ \A k \in Path \ {n} : phase'[k] = phase[k]
          /\ \/ phase'[n] = "visited"
             \/ /\ job = "save"
                /\ \/ info[n].kind = "pipe"
                   \/ info[n].kind = "file" /\ disk[n].kind \notin {"file", "symlink"}
      BY <2>7, VisitStep
    <3>2. CASE phase'[n] = "visited"
      BY <2>3, <3>1, <3>2
    <3>3. CASE job = "save" /\ \/ info[n].kind = "pipe"
                               \/ info[n].kind = "file" /\ disk[n].kind \notin {"file", "symlink"}
      <4>1. n # Root
        BY <3>1, <3>3 DEF EndInv, Going
      <4>2. Kept(n)
        BY <3>1, <4>1 DEF RunInv, OrderInv
      <4>3. CASE info[n].kind = "pipe"
        BY <2>4, <3>3, <4>2, <4>3 DEF Cause
      <4>4. CASE info[n].kind = "file" /\ disk[n].kind \notin {"file", "symlink"}
        BY <2>4, <4>1, <4>2, <4>4, MovedIs
      <4> QED BY <3>3, <4>3, <4>4
    <3> QED BY <3>1, <3>2, <3>3
  <2>8. ASSUME Fails(n) PROVE CauseInv'
    BY <2>8, FailsStep DEF CauseInv
  <2>9. ASSUME NEW m \in Path, Lstat(n, m) PROVE CauseInv'
    <3>1. /\ phase[n] = "finding" /\ faulty' = faulty
          /\ phase' = phase \/ disk[n].kind # "dir"
      BY <2>9, LstatStep
    <3>2. CASE phase' = phase
      BY <2>3, <3>1, <3>2
    <3>3. CASE disk[n].kind # "dir"
      <4>1. n # Root /\ info[n].kind = "dir"
        BY <3>1, <3>3 DEF TypeInv, DiskType, IsTree, RunInv, NamesInv
      <4>2. Kept(n)
        BY <3>1, <4>1 DEF RunInv, OrderInv
      <4> QED BY <2>4, <3>3, <4>1, <4>2, MovedIs
    <3> QED BY <3>1, <3>2, <3>3
  <2>10. ASSUME NEW m \in Path, Readlink(n, m) PROVE CauseInv'
    <3>1. /\ m \in Unread(n) /\ faulty' = faulty
          /\ phase' = phase \/ disk[m].kind # "symlink"
      BY <2>10, ReadlinkStep
    <3>2. CASE phase' = phase
      BY <2>3, <3>1, <3>2
    <3>3. CASE disk[m].kind # "symlink"
      <4>1. m # Root /\ Kept(m) /\ info[m].kind = "symlink"
        BY <3>1, BelowIs DEF Unread
      <4> QED BY <2>4, <3>3, <4>1, MovedIs
    <3> QED BY <3>1, <3>2, <3>3
  <2> QED BY <1>1, <2>5, <2>6, <2>7, <2>8, <2>9, <2>10 DEF Work
<1>2. ASSUME NEW k \in Path, Change(k) PROVE CauseInv'
  <2>1. moved \subseteq moved' /\ UNCHANGED <<job, info, phase, faulty>>
    BY <1>2, ChangeStep DEF walk
  <2> QED BY <2>1 DEF CauseInv, Cause, Kept
<1>3. ASSUME NEW what \in {"save", "list"}, Start(what) PROVE CauseInv'
  <2>1. \A n \in Path : phase'[n] = "idle"
    BY <1>3, StartStep
  <2> QED BY <2>1 DEF CauseInv
<1>4. CASE Finish \/ UNCHANGED vars
  BY <1>4 DEF Finish, vars, tree, walk, CauseInv, Cause, Kept
<1> QED BY <1>1, <1>2, <1>3, <1>4, StepCases

LEMMA InitOK ==
    ASSUME Init
    PROVE  IInv /\ PriorInv
<1>1. TypeInv
  BY InitTypes
<1>2. /\ \A n \in Path : /\ phase[n] = "idle" /\ names[n] = {} /\ info[n] = Nothing
                         /\ children[n] = <<>> /\ contents[n] = 0
      /\ job = "none" /\ result = "none" /\ touched = {} /\ moved = {}
      /\ prior.result = "none"
  BY DEF Init
<1>3. \A n \in Path : Below(n) \subseteq Path
  BY BelowIs
<1>4. RunInv
  <2>1. \A n \in Path : DOMAIN children[n] = {}
    BY <1>2
  <2> QED BY <1>2, <1>3, <2>1 DEF RunInv, NamesInv, ChildrenInv, OrderInv, EmptyInv
<1>5. EndInv
  BY <1>2 DEF EndInv
<1>6. LookInv
  BY <1>2 DEF LookInv, SeenInv, UnseenInv, Read
<1>7. FoundInv /\ VisitInv /\ ContentsInv /\ CauseInv
  BY <1>2 DEF FoundInv, VisitInv, ContentsInv, CauseInv
<1>8. PriorInv
  BY <1>2 DEF PriorInv
<1> QED BY <1>1, <1>4, <1>5, <1>6, <1>7, <1>8 DEF IInv

LEMMA NextIInv == IInv /\ [Next]_vars => IInv'
<1> SUFFICES ASSUME IInv, [Next]_vars PROVE IInv'
  OBVIOUS
<1>1. /\ TypeInv /\ RunInv /\ EndInv /\ LookInv /\ FoundInv
      /\ VisitInv /\ ContentsInv /\ CauseInv
  BY DEF IInv
<1>2. TypeInv' /\ RunInv' /\ EndInv'
  BY <1>1, NextTypes, NextRun, NextEnd
<1>3. LookInv'
  BY <1>1, NextSeen, NextUnseen DEF LookInv
<1>4. FoundInv' /\ VisitInv' /\ ContentsInv' /\ CauseInv'
  BY <1>1, NextFound, NextVisit, NextContents, NextCause
<1> QED BY <1>2, <1>3, <1>4 DEF IInv

------------------------------------------------------------------------------
(* What a job that succeeds has                                            *)

\* The walk of a job that succeeds is over everywhere.
LEMMA AllVisited ==
    ASSUME RunInv, EndInv, VisitInv, TypeInv, result = "ok"
    PROVE  /\ phase[Root] = "visited"
           /\ \A n \in Path : phase[n] \in {"idle", "visited"}
           /\ \A n \in Path \ {Root} : phase[n] = "visited" => phase[Parent(n)] = "visited"
<1> DEFINE S == {n \in Path : phase[n] \in {"idle", "visited"}}
<1>1. Root \in S /\ S \in SUBSET Path
  BY PathAssumption DEF EndInv
<1>2. ASSUME NEW n \in S, NEW d \in Below(n) PROVE d \in S
  <2>1. d \in Path /\ d # Root /\ Parent(d) = n
    BY ParentOf
  <2>2. phase[d] # "idle" => Kept(d) /\ phase[n] = "visited"
    BY <2>1 DEF RunInv, OrderInv, Past
  <2>3. phase[d] # "idle" => phase[d] = "visited"
    BY <2>2 DEF VisitInv, KeptBelow
  <2> QED BY <2>1, <2>3
<1>3. \A n \in S : Below(n) \subseteq S
  BY <1>2
<1> HIDE DEF S
<1>4. S = Path
  BY <1>1, <1>3, Everywhere
<1> USE DEF S
<1>5. ASSUME NEW n \in Path \ {Root}, phase[n] = "visited" PROVE phase[Parent(n)] = "visited"
  <2>1. Parent(n) \in Path /\ phase[Parent(n)] \in Past
    BY <1>5, ParentIs DEF RunInv, OrderInv
  <2> QED BY <1>4, <2>1 DEF Past
<1> QED BY <1>4, <1>5 DEF EndInv

\* Nobody touched n, nor what it is in.
Alone(n) == SelfAndAbove(n) \cap touched = {}

\* What is in a directory that was visited was visited if it was there, unless it
\* is excluded.
LEMMA VisitedBelow ==
    ASSUME IInv, result = "ok", NEW m \in Path, NEW n \in Below(m),
           phase[m] = "visited", m \notin touched, n \notin touched
    PROVE  /\ phase[n] = "visited" <=> Exists(n) /\ n \notin Excluded
           /\ Kept(n) <=> Exists(n) /\ n \notin Excluded
           /\ info[n] = disk[n]
<1>1. /\ TypeInv /\ RunInv /\ EndInv /\ LookInv /\ FoundInv /\ VisitInv
      /\ n \in Path /\ n # Root /\ Parent(n) = m
  BY ParentOf DEF IInv
<1>2. info[n] = disk[n]
  <2>1. CASE info[m].kind = "dir"
    BY <1>1, <2>1 DEF LookInv, UnseenInv, Read, FoundInv
  <2>2. CASE info[m].kind # "dir"
    <3>1. m # Root
      BY <1>1, <2>2 DEF EndInv
    <3>2. Kept(m)
      BY <1>1, <3>1 DEF RunInv, OrderInv
    <3>3. info[m] = disk[m]
      BY <1>1, <3>1, <3>2 DEF LookInv, SeenInv, Kept
    <3>4. disk[n].kind = "none" /\ info[n] = Nothing
      BY <1>1, <2>2, <3>3 DEF TypeInv, DiskType, IsTree, RunInv, EmptyInv
    <3> QED BY <1>1, <3>4 DEF TypeInv, DiskType
  <2> QED BY <2>1, <2>2
<1>3. Kept(n) <=> Exists(n) /\ n \notin Excluded
  <2>1. Exists(n) <=> disk[n] # Nothing
    BY <1>1 DEF TypeInv, DiskType, Exists, Nothing
  <2> QED BY <1>2, <2>1 DEF Kept
<1>4. Kept(n) => phase[n] = "visited"
  BY <1>1 DEF VisitInv, KeptBelow
<1>5. phase[n] = "visited" => Kept(n)
  BY <1>1 DEF RunInv, OrderInv
<1> QED BY <1>2, <1>3, <1>4, <1>5

LEMMA VisitedIs ==
    ASSUME IInv, result = "ok", NEW n \in Path \ {Root}, Alone(n)
    PROVE  /\ phase[n] = "visited" <=> Exists(n) /\ SelfAndAbove(n) \cap Excluded = {}
           /\ phase[n] = "visited" => info[n] = disk[n]
<1>1. TypeInv /\ RunInv /\ EndInv /\ VisitInv
  BY DEF IInv
<1> DEFINE Claim(k) == /\ phase[k] = "visited" <=> Exists(k) /\ SelfAndAbove(k) \cap Excluded = {}
                       /\ phase[k] = "visited" => info[k] = disk[k]
           S == {k \in Path : k = Root \/ (Alone(k) => Claim(k))}
<1>2. Root \in S /\ S \in SUBSET Path
  BY PathAssumption
<1>3. ASSUME NEW m \in S, NEW k \in Below(m), Alone(k) PROVE Claim(k)
  <2>1. /\ k \in Path /\ k # Root /\ Parent(k) = m /\ m \in Path
        /\ SelfAndAbove(k) = {k} \cup SelfAndAbove(m)
    BY ParentOf, AboveIs
  <2>2. k \notin touched /\ m \notin touched /\ Alone(m)
    <3>1. k \in SelfAndAbove(k) /\ m \in SelfAndAbove(m)
      BY DEF SelfAndAbove
    <3> QED BY <1>3, <2>1, <3>1 DEF Alone
  <2>3. m = Root \/ Claim(m)
    BY <2>2
  <2>4. CASE phase[m] = "visited"
    <3>1. SelfAndAbove(m) \cap Excluded = {}
      <4>1. SelfAndAbove(Root) \cap Excluded = {}
        BY AboveIs, PathAssumption DEF SelfAndAbove
      <4> QED BY <2>3, <2>4, <4>1
    <3>2. SelfAndAbove(k) \cap Excluded = {} <=> k \notin Excluded
      BY <2>1, <3>1
    <3>3. /\ phase[k] = "visited" <=> Exists(k) /\ k \notin Excluded
          /\ info[k] = disk[k]
      BY <2>1, <2>2, <2>4, VisitedBelow
    <3> QED BY <3>2, <3>3
  <2>5. CASE phase[m] # "visited"
    <3>1. m # Root /\ phase[k] # "visited"
      BY <1>1, <2>1, <2>5, AllVisited
    <3>2. ~(Exists(m) /\ SelfAndAbove(m) \cap Excluded = {})
      BY <2>3, <2>5, <3>1
    <3>3. ~Exists(m) => ~Exists(k)
      BY <1>1, <2>1 DEF TypeInv, DiskType, IsTree, Exists
    <3> QED BY <2>1, <3>1, <3>2, <3>3
  <2> QED BY <2>4, <2>5
<1>4. \A m \in S : Below(m) \subseteq S
  BY <1>3, BelowIs
<1> HIDE DEF S
<1>5. S = Path
  BY <1>2, <1>4, Everywhere
<1> USE DEF S
<1> QED BY <1>5

\* Contents of all that has some.
LEMMA ContentsRead ==
    ASSUME IInv, job = "save", NEW n \in Path, phase[n] = "visited",
           info[n].kind \in {"file", "symlink"}
    PROVE  contents[n] # 0
<1>1. EndInv /\ FoundInv /\ VisitInv
  BY DEF IInv
<1>2. CASE info[n].kind = "file"
  BY <1>1, <1>2 DEF VisitInv
<1>3. CASE info[n].kind = "symlink"
  <2>1. n # Root
    BY <1>1, <1>3 DEF EndInv
  <2> QED BY <1>1, <1>3, <2>1 DEF FoundInv
<1> QED BY <1>2, <1>3

LEMMA SavedOK ==
    ASSUME IInv
    PROVE  UntouchedIsSaved
<1>1. TypeInv /\ RunInv /\ EndInv /\ LookInv /\ FoundInv /\ VisitInv /\ ContentsInv
  BY DEF IInv
<1>2. \A n \in Path : job = "save" /\ phase[n] = "visited" /\ info[n].kind \in {"file", "symlink"}
                       => contents[n] # 0
  BY ContentsRead
<1>3. TypeOK
  BY <1>1, <1>2 DEF TypeOK, TypeInv, DiskType, JobType, WalkType, Phases
<1>4. DOMAIN Backup = {m \in Path : phase[m] = "visited"}
  BY DEF Backup
<1>5. ASSUME result = "ok", job = "save", NEW n \in Path \ {Root},
             SelfAndAbove(n) \cap touched = {}
      PROVE  IF Exists(n) /\ SelfAndAbove(n) \cap Excluded = {}
               THEN /\ n \in DOMAIN Backup /\ info[n] = disk[n]
                    /\ disk[n].kind \in {"file", "symlink"} => contents[n] = disk[n].version + 1
               ELSE n \notin DOMAIN Backup
  <2>1. /\ phase[n] = "visited" <=> Exists(n) /\ SelfAndAbove(n) \cap Excluded = {}
        /\ phase[n] = "visited" => info[n] = disk[n]
    BY <1>5, VisitedIs DEF Alone
  <2>2. n \notin touched
    BY <1>5 DEF SelfAndAbove
  <2>3. contents[n] # 0 => contents[n] = disk[n].version + 1
    BY <1>1, <2>2 DEF ContentsInv
  <2> QED BY <1>2, <1>4, <1>5, <2>1, <2>3
<1> QED BY <1>3, <1>5 DEF UntouchedIsSaved

LEMMA CauseOK ==
    ASSUME IInv
    PROVE  FailsForCause
<1>1. result = "error" => \E n \in Path : phase[n] = "failed"
  BY DEF IInv, EndInv
<1> QED BY <1>1 DEF IInv, CauseInv, Cause, FailsForCause

------------------------------------------------------------------------------
(* A tree that nobody changes                                              *)

\* A job that succeeds has what the tree says, if nobody touched it.
LEMMA BackupIsNow ==
    ASSUME IInv, result = "ok", touched = {}
    PROVE  SaysNow(Backup) /\ (job = "save" => Backup = NowBackup)
<1>1. TypeInv /\ RunInv /\ EndInv /\ FoundInv /\ VisitInv /\ ContentsInv
  BY DEF IInv
<1>2. \A n \in Path : Alone(n)
  BY DEF Alone
<1>3. Root \in Path /\ phase[Root] = "visited" /\ info[Root] = [kind |-> "dir", version |-> 0]
  <2>1. Root \in Path /\ phase[Root] = "visited" /\ info[Root].kind = "dir" /\ info[Root].version = 0
    BY <1>1, PathAssumption DEF EndInv
  <2>2. info[Root] \in [kind : Kinds, version : Versions]
    BY <1>1, <2>1 DEF TypeInv, WalkType, Entries
  <2> QED BY <2>1, <2>2
<1>4. ASSUME NEW n \in Path
      PROVE  /\ phase[n] = "visited" <=> Should(n)
             /\ phase[n] = "visited" => info[n] = NowInfo(n)
  <2>1. CASE n = Root
    BY <1>3, <2>1 DEF Should, NowInfo
  <2>2. CASE n # Root
    BY <1>2, <2>2, VisitedIs DEF Should, NowInfo
  <2> QED BY <2>1, <2>2
<1>5. ASSUME NEW n \in Path, phase[n] = "visited" PROVE children[n] = NowRow(n)
  <2>1. \A d \in Below(n) : Kept(d) <=> Exists(d) /\ d \notin Excluded
    BY <1>5, VisitedBelow
  <2>2. KeptBelow(n) = NowBelow(n) /\ NowBelow(n) \subseteq Below(n)
    BY <2>1 DEF KeptBelow, NowBelow
  <2>3. children[n] \in Rows(NowBelow(n)) /\ Sorted(n, children[n])
    BY <1>1, <1>5, <2>2 DEF FoundInv, Found
  <2>4. NowRow(n) \in Rows(NowBelow(n)) /\ Sorted(n, NowRow(n))
    BY <2>3 DEF NowRow
  <2> QED BY <2>2, <2>3, <2>4, OneRow
<1>6. ASSUME job = "save", NEW n \in Path, phase[n] = "visited" PROVE contents[n] = NowContents(n)
  <2>1. CASE n = Root
    BY <1>1, <2>1 DEF ContentsInv, NowContents
  <2>2. CASE n # Root
    <3>1. info[n] = disk[n]
      BY <1>4, <1>6, <2>2 DEF NowInfo
    <3>2. info[n].kind \in {"file", "symlink"} <=> contents[n] # 0
      BY <1>1, <1>6, ContentsRead DEF ContentsInv
    <3>3. contents[n] # 0 => contents[n] = disk[n].version + 1
      BY <1>1 DEF ContentsInv
    <3> QED BY <2>2, <3>1, <3>2, <3>3 DEF NowContents
  <2> QED BY <2>1, <2>2
<1> DEFINE D == {m \in Path : phase[m] = "visited"}
<1>7. D = {m \in Path : Should(m)}
  BY <1>4
<1>8. Backup = [n \in D |-> [info |-> info[n], children |-> children[n], contents |-> contents[n]]]
  BY DEF Backup
<1>9. SaysNow(Backup)
  <2>1. \A n \in D : Backup[n].info = NowInfo(n)
    BY <1>4, <1>8
  <2> QED BY <1>7, <1>8, <2>1 DEF SaysNow
<1>10. ASSUME job = "save" PROVE Backup = NowBackup
  <2>1. \A n \in D : /\ info[n] = NowInfo(n) /\ children[n] = NowRow(n)
                     /\ contents[n] = NowContents(n)
    BY <1>4, <1>5, <1>6, <1>10
  <2>2. NowBackup = [n \in D |->
           [info |-> NowInfo(n), children |-> NowRow(n), contents |-> NowContents(n)]]
    BY <1>7 DEF NowBackup
  <2> HIDE DEF D
  <2> QED BY <1>8, <2>1, <2>2
<1> QED BY <1>9, <1>10

\* What the tree says is the tree's.
LEMMA SameNow ==
    ASSUME disk' = disk
    PROVE  NowBackup' = NowBackup /\ \A backup : SaysNow(backup)' <=> SaysNow(backup)
<1>1. \A n : /\ Should(n)' <=> Should(n)
             /\ NowInfo(n)' = NowInfo(n) /\ NowContents(n)' = NowContents(n)
             /\ NowBelow(n)' = NowBelow(n)
  BY DEF Should, Exists, NowInfo, NowContents, NowBelow
<1>2. \A n : NowRow(n)' = NowRow(n)
  BY <1>1 DEF NowRow
<1>3. NowBackup' = NowBackup
  BY <1>1, <1>2 DEF NowBackup
<1> QED BY <1>1, <1>3 DEF SaysNow

LEMMA NextPrior == IInv /\ PriorInv /\ [Next]_vars => PriorInv'
<1> SUFFICES ASSUME IInv, PriorInv, [Next]_vars PROVE PriorInv'
  OBVIOUS
<1>t. TypeInv /\ RunInv /\ EndInv
  BY DEF IInv
<1>1. ASSUME UNCHANGED <<still, prior, disk>> PROVE PriorInv'
  <2>1. NowBackup' = NowBackup /\ \A b : SaysNow(b)' <=> SaysNow(b)
    BY <1>1, SameNow
  <2>2. SaysNow(prior.backup)' <=> SaysNow(prior.backup)
    BY <1>1 DEF SaysNow, Should, Exists, NowInfo
  <2> QED BY <1>1, <2>1, <2>2 DEF PriorInv
<1>2. ASSUME NEW n \in Path, Change(n) PROVE PriorInv'
  BY <1>2 DEF Change, PriorInv
<1>3. ASSUME NEW n \in Path, Work(n) PROVE PriorInv'
  BY <1>1, <1>3, <1>t, WorkStep DEF Outside
<1>4. ASSUME NEW what \in {"save", "list"}, Start(what) PROVE PriorInv'
  <2>1. /\ prior' = [job |-> job, result |-> result, backup |-> Backup]
        /\ still' = (touched = {}) /\ disk' = disk
    BY <1>4, StartStep
  <2>2. prior'.job = job /\ prior'.result = result /\ prior'.backup = Backup
    BY <2>1
  <2>3. PICK b : b = Backup
    OBVIOUS
  <2>4. /\ NowBackup' = NowBackup
        /\ SaysNow(b)' <=> SaysNow(b)
    BY <2>1, SameNow
  <2>5. SaysNow(prior.backup)' <=> SaysNow(b)'
    BY <2>2, <2>3 DEF SaysNow
  <2>6. touched = {} /\ result = "ok" => SaysNow(b) /\ (job = "save" => b = NowBackup)
    BY <2>3, BackupIsNow
  <2> QED BY <2>1, <2>2, <2>3, <2>4, <2>5, <2>6 DEF PriorInv
<1>5. CASE Finish \/ UNCHANGED vars
  BY <1>1, <1>5 DEF Finish, vars, tree
<1> QED BY <1>2, <1>3, <1>4, <1>5, StepCases

LEMMA StableOK ==
    ASSUME IInv, PriorInv
    PROVE  ResultIsStable
<1>1. still => touched = {}
  BY DEF IInv, EndInv
<1> QED BY <1>1, BackupIsNow DEF ResultIsStable, PriorInv

\* What was lstat'ed and kept is among what the tree says, if nobody touched it.
LEMMA KeptShould ==
    ASSUME IInv, touched = {}, NEW n \in Path \ {Root}, Kept(n)
    PROVE  Should(n) /\ info[n] = disk[n]
<1>1. TypeInv /\ RunInv /\ LookInv
  BY DEF IInv
<1> DEFINE Claim(k) == Exists(k) /\ SelfAndAbove(k) \cap Excluded = {} /\ info[k] = disk[k]
           S == {k \in Path : k = Root \/ (Kept(k) => Claim(k))}
<1>2. Root \in S /\ S \in SUBSET Path
  BY PathAssumption
<1>3. ASSUME NEW m \in S, NEW k \in Below(m), Kept(k) PROVE Claim(k)
  <2>1. /\ k \in Path /\ k # Root /\ Parent(k) = m /\ m \in Path
        /\ SelfAndAbove(k) = {k} \cup SelfAndAbove(m)
    BY ParentOf, AboveIs
  <2>2. info[k] = disk[k]
    BY <1>1, <1>3, <2>1 DEF LookInv, SeenInv, Kept
  <2>3. Exists(k)
    BY <1>1, <1>3, <2>1, <2>2 DEF TypeInv, DiskType, Exists, Kept
  <2>4. phase[m] # "idle"
    BY <1>1, <1>3, <2>1 DEF RunInv, EmptyInv, Kept
  <2>5. SelfAndAbove(m) \cap Excluded = {}
    <3>1. CASE m = Root
      BY <3>1, AboveIs, PathAssumption DEF SelfAndAbove
    <3>2. CASE m # Root
      <4>1. Kept(m)
        BY <1>1, <2>1, <2>4, <3>2 DEF RunInv, OrderInv
      <4> QED BY <3>2, <4>1
    <3> QED BY <3>1, <3>2
  <2>6. k \notin Excluded
    BY <1>3 DEF Kept
  <2> QED BY <2>1, <2>2, <2>3, <2>5, <2>6
<1>4. \A m \in S : Below(m) \subseteq S
  BY <1>3, BelowIs
<1> HIDE DEF S
<1>5. S = Path
  BY <1>2, <1>4, Everywhere
<1> USE DEF S
<1> QED BY <1>5 DEF Should

LEMMA PredictsOK ==
    ASSUME IInv, PriorInv
    PROVE  ListPredictsSave
<1> SUFFICES ASSUME prior.job = "list", prior.result = "ok", job = "save", still, ~faulty
             PROVE  /\ result = "error" => Listed("pipe")
                    /\ result = "ok" =>
                         /\ ~Listed("pipe")
                         /\ DOMAIN Backup = DOMAIN prior.backup
                         /\ \A n \in DOMAIN Backup : Backup[n].info = prior.backup[n].info
  BY DEF ListPredictsSave
<1>1. EndInv /\ VisitInv /\ touched = {} /\ moved = {} /\ SaysNow(prior.backup)
  BY DEF IInv, EndInv, PriorInv
<1>2. ASSUME result = "error" PROVE Listed("pipe")
  <2>1. PICK n \in Path : Cause(n)
    BY <1>2 DEF IInv, EndInv, CauseInv
  <2>2. Kept(n) /\ info[n].kind = "pipe"
    BY <1>1, <2>1 DEF Cause
  <2>3. n # Root
    BY <1>1, <1>2, <2>2 DEF EndInv
  <2>4. Should(n) /\ disk[n].kind = "pipe"
    BY <1>1, <2>2, <2>3, KeptShould
  <2>5. n \in DOMAIN prior.backup /\ prior.backup[n].info = disk[n]
    BY <1>1, <2>3, <2>4 DEF SaysNow, NowInfo
  <2> QED BY <2>4, <2>5 DEF Listed
<1>3. ASSUME result = "ok"
      PROVE  /\ ~Listed("pipe")
             /\ DOMAIN Backup = DOMAIN prior.backup
             /\ \A n \in DOMAIN Backup : Backup[n].info = prior.backup[n].info
  <2>1. SaysNow(Backup)
    BY <1>1, <1>3, BackupIsNow
  <2>2. /\ DOMAIN Backup = DOMAIN prior.backup
        /\ \A n \in DOMAIN Backup : Backup[n].info = prior.backup[n].info
    BY <1>1, <2>1 DEF SaysNow
  <2>3. \A n \in DOMAIN Backup : Backup[n].info.kind # "pipe"
    BY <1>1 DEF Backup, VisitInv
  <2> QED BY <2>2, <2>3 DEF Listed
<1> QED BY <1>2, <1>3

------------------------------------------------------------------------------
(* The theorems                                                            *)

LEMMA Invariance == Spec => [](IInv /\ PriorInv)
<1>1. IInv /\ PriorInv /\ [Next]_vars => (IInv /\ PriorInv)'
  BY NextIInv, NextPrior
<1> QED BY <1>1, InitOK, PTL DEF Spec

\* A save that succeeds has, of what nobody touched while it ran, just what is
\* there and not excluded, however the tree around it changes; and every part of
\* the state has its type (FindDependencies, saveFile).
THEOREM SavedAsItIs == Spec => []UntouchedIsSaved
<1>1. IInv => UntouchedIsSaved
  BY SavedOK
<1> QED BY <1>1, Invariance, PTL

\* A job does not fail over what vanishes before its lstat, or is excluded
\* (readDir, Visit).
THEOREM FailuresHaveCauses == Spec => []FailsForCause
<1>1. IInv => FailsForCause
  BY CauseOK
<1> QED BY <1>1, Invariance, PTL

\* Two saves of a tree that nobody changes have the same listings, in the same
\* order ("guaranteed to be sorted by name, for stability").
THEOREM StableResult == Spec => []ResultIsStable
<1>1. IInv /\ PriorInv => ResultIsStable
  BY StableOK
<1> QED BY <1>1, Invariance, PTL

\* A list of a tree is of what a save of it has, and that save does not fail
\* unless the system does or the list has what cannot be saved (save -list_only).
THEOREM ListsWhatIsSaved == Spec => []ListPredictsSave
<1>1. IInv /\ PriorInv => ListPredictsSave
  BY PredictsOK
<1> QED BY <1>1, Invariance, PTL
=============================================================================
