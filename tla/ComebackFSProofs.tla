-------------------------- MODULE ComebackFSProofs --------------------------
(***************************************************************************)
(* Proofs about ComebackFS, for every backup and any number of goroutines: *)
(* whatever a kernel asks for and in whatever order, the counts of both    *)
(* sides agree, nothing is used after it has ended, what is read is the    *)
(* backup, and nothing is left behind.                                     *)
(***************************************************************************)
EXTENDS ComebackFS, FiniteSetTheorems, SequenceTheorems, TLAPS

------------------------------------------------------------------------------
(* The invariant                                                           *)

\* Requests that begin in LookUpInode, all on inodes, and all on handles.
LookUpKinds == {"getattr", "readdir", "readlink", "lookup"}
InodeKinds == LookUpKinds \cup {"open"}
HandleKinds == {"read", "release"}

Chunk == UNION {{Scores[e][k] : k \in DOMAIN Scores[e]} : e \in Entry}

TypeInv ==
    /\ TypeOK
    /\ seen \in [Id -> Seq(Entry)]
    /\ written \in [Thread -> Seq(Chunk)]

\* A goroutine is at a place of its request's handler.
PlaceInv ==
    \A t \in Thread :
        /\ pc[t] = "idle" <=> op[t].kind = "none"
        /\ pc[t] \in {"lock", "locked"} => op[t].kind \in LookUpKinds
        /\ pc[t] \in {"register", "lockChild", "fill"} => op[t].kind = "lookup"
        /\ pc[t] \in {"lockHandle", "reading", "loading"} => op[t].kind = "read"

\* The kernel holds a reference on the inode of each of its requests; a handle
\* is there until its release, which is the last request for it.
UseInv ==
    /\ \A t \in Thread : op[t].kind \in InodeKinds => known[op[t].inode] > 0
    /\ opened \subseteq DOMAIN handles
    /\ \A t \in Thread : op[t].kind \in HandleKinds => op[t].handle \in DOMAIN handles
    /\ \A t \in Thread :
          op[t].kind = "release" =>
             /\ op[t].handle \notin opened
             /\ \A u \in Thread \ {t} :
                   op[u].kind \in HandleKinds => op[u].handle # op[t].handle

Opening == {t \in Thread : op[t].kind = "open"}
Loading == {t \in Thread : pc[t] = "loading"}

\* A new handle is a new number, one of those the requests sent allow.
SizeInv ==
    /\ DOMAIN handles \subseteq 0..(nextHandleID - 1)
    /\ IsFiniteSet(Opening) /\ nextHandleID + Cardinality(Opening) <= sent

CountInv ==
    /\ ~dead
    /\ \A i \in Id :
          /\ IsFiniteSet(Registered(i))
          /\ count[i] = known[i] + forgetting[i] + Cardinality(Registered(i))
          /\ i \in inodes <=> count[i] > 0

\* Who holds a lock is at work under it; who reads or loads holds the handle's.
LockInv ==
    /\ \A i \in Id : inodeLock[i] # NoOne =>
           LET t == inodeLock[i] IN
           \/ pc[t] = "locked" /\ op[t].inode = i
           \/ pc[t] = "fill" /\ Inode[found[t]] = i
    /\ \A h \in Handle : handleLock[h] # NoOne =>
           LET t == handleLock[h] IN
           pc[t] \in {"reading", "loading"} /\ op[t].handle = h
    /\ \A t \in Thread :
           pc[t] \in {"reading", "loading"} => handleLock[op[t].handle] = t

\* A handle's file is set once it has all the contents.
FileInv ==
    /\ IsFiniteSet(Loading) /\ IsFiniteSet(DOMAIN file)
    /\ anonymous = Cardinality(DOMAIN file) + Cardinality(Loading)
    /\ \A h \in DOMAIN file : file[h] = Scores[handles[h]]
    /\ \A t \in Thread :
          pc[t] = "loading" =>
             /\ op[t].handle \notin DOMAIN file
             /\ Len(written[t]) <= Len(Wanted(t))
             /\ written[t] = SubSeq(Wanted(t), 1, Len(written[t]))

\* A stream has returned a prefix of the listing of the inode the kernel knows.
StreamInv ==
    \A i \in Id :
        /\ known[i] = 0 => seen[i] = <<>>
        /\ pos[i] = Len(seen[i]) /\ Len(seen[i]) <= Len(Listing[made[i]])
        /\ seen[i] = SubSeq(Listing[made[i]], 1, Len(seen[i]))

IInv ==
    /\ TypeInv /\ PlaceInv /\ UseInv /\ SizeInv /\ CountInv
    /\ LockInv /\ FileInv /\ StreamInv

------------------------------------------------------------------------------
(* Requests and the moves of a goroutine                                   *)

\* The fields a request has.
LEMMA RequestFields ==
    ASSUME NEW o \in Request \cup {NoRequest}
    PROVE  /\ o.kind \in InodeKinds \cup HandleKinds \cup {"none"}
           /\ o.kind \in InodeKinds => o.inode \in Id
           /\ o.kind \in HandleKinds => o.handle \in Handle
           /\ o.kind = "none" <=> o = NoRequest
  BY DEF Request, NoRequest, InodeKinds, LookUpKinds, HandleKinds

\* The kinds are different.
LEMMA Kinds ==
    /\ LookUpKinds \subseteq InodeKinds /\ "open" \in InodeKinds
    /\ "read" \in HandleKinds /\ "release" \in HandleKinds
    /\ InodeKinds \cap HandleKinds = {}
    /\ "none" \notin InodeKinds /\ "none" \notin HandleKinds
    /\ {"getattr", "readdir", "readlink", "lookup"} = LookUpKinds
    /\ \A k \in LookUpKinds : k # "open"
  BY DEF InodeKinds, LookUpKinds, HandleKinds

\* A goroutine goes on to another place of its handler.
LEMMA GotoIs ==
    ASSUME TypeInv, NEW t \in Thread, NEW where, Goto(t, where)
    PROVE  /\ pc'[t] = where /\ \A u \in Thread \ {t} : pc'[u] = pc[u]
           /\ where \in PCs => pc' \in [Thread -> PCs]
  BY DEF Goto, TypeInv, TypeOK

\* A goroutine answers its request.
LEMMA AnswerIs ==
    ASSUME TypeInv, NEW t \in Thread, Answer(t)
    PROVE  /\ pc' \in [Thread -> PCs] /\ pc'[t] = "idle"
           /\ op' \in [Thread -> Request \cup {NoRequest}]
           /\ op'[t] = NoRequest /\ op'[t].kind = "none"
           /\ found' \in [Thread -> Entry] /\ written' \in [Thread -> Seq(Chunk)]
           /\ \A u \in Thread \ {t} : /\ pc'[u] = pc[u] /\ op'[u] = op[u]
                                      /\ found'[u] = found[u] /\ written'[u] = written[u]
<1>1. "idle" \in PCs /\ Root \in Entry /\ <<>> \in Seq(Chunk) /\ NoRequest.kind = "none"
  BY BackupAssumption DEF PCs, NoRequest
<1>2. /\ pc \in [Thread -> PCs] /\ op \in [Thread -> Request \cup {NoRequest}]
      /\ found \in [Thread -> Entry] /\ written \in [Thread -> Seq(Chunk)]
  BY DEF TypeInv, TypeOK
<1>3. NoRequest \in Request \cup {NoRequest}
  OBVIOUS
<1> HIDE DEF NoRequest
<1> QED BY <1>1, <1>2, <1>3 DEF Answer

\* What each list of chunks is.
LEMMA ScoresType ==
    ASSUME NEW e \in Entry PROVE Scores[e] \in Seq(Chunk) /\ Listing[e] \in Seq(Entry)
<1> DEFINE R == {Scores[e][k] : k \in DOMAIN Scores[e]}
<1>1. R \subseteq Chunk
  BY DEF Chunk
<1>2. Scores[e] \in Seq(R) /\ Listing[e] \in Seq(Entry)
  BY BackupAssumption
<1> HIDE DEF R
<1> QED BY <1>1, <1>2

\* The inode of a request is there: the kernel has a reference on it.
LEMMA InodeIsThere ==
    ASSUME IInv, NEW t \in Thread, op[t].kind \in InodeKinds
    PROVE  op[t].inode \in Id /\ op[t].inode \in inodes
<1>1. op[t].inode \in Id /\ known[op[t].inode] > 0
  BY RequestFields DEF IInv, UseInv, TypeInv, TypeOK
<1>2. PICK i \in Id : i = op[t].inode
  BY <1>1
<1>3. /\ count[i] = known[i] + forgetting[i] + Cardinality(Registered(i))
      /\ known[i] \in Nat /\ forgetting[i] \in Nat /\ Cardinality(Registered(i)) \in Nat
      /\ i \in inodes <=> count[i] > 0
  BY FS_CardinalityType DEF IInv, CountInv, TypeInv, TypeOK
<1> QED BY <1>1, <1>2, <1>3

\* The process does not die: the inodes and handles of requests are there, and
\* no forget is for more than was counted.
LEMMA FindInodeFinds ==
    ASSUME IInv, NEW t \in Thread, FindInode(t)
    PROVE  /\ Goto(t, "lock") /\ op[t].inode \in inodes
           /\ UNCHANGED <<table, handleVars, fileVars, locks, stream, kernel,
                          op, found, written, dead>>
<1>1. op[t].inode \in inodes
  BY InodeIsThere, Kinds DEF FindInode
<1> QED BY <1>1 DEF FindInode

\* A file is opened on an inode that is there.
LEMMA OpenFileFinds ==
    ASSUME IInv, NEW t \in Thread, OpenFile(t)
    PROVE  /\ op[t].inode \in inodes /\ op[t].inode \in Id
           /\ handles' = With(handles, nextHandleID, made[op[t].inode])
           /\ nextHandleID' = nextHandleID + 1
           /\ opened' = opened \cup {nextHandleID}
           /\ Answer(t)
           /\ UNCHANGED <<table, fileVars, locks, stream, known, forgetting, sent, dead>>
<1>1. op[t].inode \in Id /\ op[t].inode \in inodes
  BY InodeIsThere, Kinds DEF OpenFile
<1> QED BY <1>1 DEF OpenFile

\* A read finds its handle.
LEMMA FindHandleFinds ==
    ASSUME IInv, NEW t \in Thread, FindHandle(t)
    PROVE  /\ Goto(t, "lockHandle") /\ op[t].handle \in DOMAIN handles
           /\ UNCHANGED <<table, handleVars, fileVars, locks, stream, kernel,
                          op, found, written, dead>>
<1>1. op[t].handle \in DOMAIN handles
  BY Kinds DEF FindHandle, IInv, UseInv
<1> QED BY <1>1 DEF FindHandle

\* A release finds its handle.
LEMMA ReleaseFinds ==
    ASSUME IInv, NEW t \in Thread, NEW h, h = op[t].handle, ReleaseFileHandle(t)
    PROVE  /\ h \in DOMAIN handles
           /\ anonymous' = IF h \in DOMAIN file THEN anonymous - 1 ELSE anonymous
           /\ file' = Without(file, h) /\ handles' = Without(handles, h)
           /\ Answer(t)
           /\ UNCHANGED <<table, nextHandleID, locks, stream, kernel, dead>>
<1>1. h \in DOMAIN handles
  BY Kinds DEF ReleaseFileHandle, IInv, UseInv
<1> QED BY <1>1 DEF ReleaseFileHandle

\* A forget finds its inode, counted at least as often as it says.
LEMMA ForgetFinds ==
    ASSUME IInv, NEW i \in Id, ForgetInode(i)
    PROVE  /\ i \in inodes /\ count[i] >= forgetting[i]
           /\ forgetting[i] > 0 /\ forgetting' = [forgetting EXCEPT ![i] = 0]
           /\ count' = [count EXCEPT ![i] = @ - forgetting[i]]
           /\ inodes' = IF count'[i] = 0 THEN inodes \ {i} ELSE inodes
           /\ listed' = listed \cap inodes'
           /\ UNCHANGED <<made, handleVars, fileVars, locks, stream, known, opened,
                          sent, local, dead>>
<1>1. /\ known[i] \in Nat /\ forgetting[i] \in Nat /\ Cardinality(Registered(i)) \in Nat
      /\ count[i] = known[i] + forgetting[i] + Cardinality(Registered(i))
      /\ i \in inodes <=> count[i] > 0
  BY FS_CardinalityType DEF IInv, CountInv, TypeInv, TypeOK
<1>2. forgetting[i] > 0
  BY DEF ForgetInode
<1>3. i \in inodes /\ count[i] >= forgetting[i]
  BY <1>1, <1>2
<1> QED BY <1>2, <1>3 DEF ForgetInode

\* What a step of goroutine t may do to what is its own.
Moved(t) ==
    /\ pc' \in [Thread -> PCs] /\ op' \in [Thread -> Request \cup {NoRequest}]
    /\ found' \in [Thread -> Entry] /\ written' \in [Thread -> Seq(Chunk)]
    /\ \A u \in Thread \ {t} : /\ pc'[u] = pc[u] /\ op'[u] = op[u]
                               /\ found'[u] = found[u] /\ written'[u] = written[u]
    /\ op'[t] \in {op[t], NoRequest}
    /\ PlaceInv'

\* The step that answers a request ends the goroutine's work.
LEMMA AnswerMoves == ASSUME IInv, NEW t \in Thread, Answer(t) PROVE Moved(t)
<1>1. PlaceInv'
  BY AnswerIs DEF IInv, PlaceInv, LookUpKinds
<1> QED BY <1>1, AnswerIs DEF IInv, Moved

\* The step to another place of the same request's handler.
LEMMA GotoMoves ==
    ASSUME IInv, NEW t \in Thread, NEW where \in PCs \ {"idle"}, Goto(t, where), op' = op,
           op[t].kind # "none",
           where \in {"lock", "locked"} => op[t].kind \in LookUpKinds,
           where \in {"register", "lockChild", "fill"} => op[t].kind = "lookup",
           where \in {"lockHandle", "reading", "loading"} => op[t].kind = "read",
           found' = found \/ \E e \in Entry : found' = [found EXCEPT ![t] = e],
           written' = written \/ \E s \in Seq(Chunk) : written' = [written EXCEPT ![t] = s]
    PROVE  Moved(t)
<1>1. /\ pc' \in [Thread -> PCs] /\ pc'[t] = where
      /\ \A u \in Thread \ {t} : pc'[u] = pc[u]
  BY GotoIs DEF IInv
<1>2. /\ op \in [Thread -> Request \cup {NoRequest}] /\ found \in [Thread -> Entry]
      /\ written \in [Thread -> Seq(Chunk)]
  BY DEF IInv, TypeInv, TypeOK
<1>3. PlaceInv'
  BY <1>1 DEF IInv, PlaceInv
<1>4. found' \in [Thread -> Entry] /\ \A u \in Thread \ {t} : found'[u] = found[u]
  BY <1>2
<1>5. /\ written' \in [Thread -> Seq(Chunk)]
      /\ \A u \in Thread \ {t} : written'[u] = written[u]
  BY <1>2
<1> QED BY <1>1, <1>2, <1>3, <1>4, <1>5 DEF Moved

\* Every step of a goroutine moves it alone, to a place of its handler.
LEMMA ServeMoves == ASSUME IInv, NEW t \in Thread, Serve(t) PROVE Moved(t)
<1> USE DEF table, handleVars, fileVars, locks, stream, kernel, local
<1>0. PlaceInv /\ op[t] \in Request \cup {NoRequest} /\ written[t] \in Seq(Chunk)
      /\ handles \in [DOMAIN handles -> Entry] /\ made \in [Id -> Entry]
  BY DEF IInv, TypeInv, TypeOK
<1>1. /\ "lock" \in PCs \ {"idle"} /\ "locked" \in PCs \ {"idle"}
      /\ "register" \in PCs \ {"idle"} /\ "lockChild" \in PCs \ {"idle"}
      /\ "fill" \in PCs \ {"idle"} /\ "lockHandle" \in PCs \ {"idle"}
      /\ "reading" \in PCs \ {"idle"} /\ "loading" \in PCs \ {"idle"}
  BY DEF PCs
<1>2. pc[t] \in {"lock", "locked"} => op[t].kind \in LookUpKinds
  BY <1>0 DEF PlaceInv
<1>3. pc[t] \in {"register", "lockChild", "fill"} => op[t].kind = "lookup"
  BY <1>0 DEF PlaceInv
<1>4. pc[t] \in {"lockHandle", "reading", "loading"} =>
         op[t].kind = "read" /\ handles[op[t].handle] \in Entry
  BY <1>0, Kinds DEF PlaceInv, IInv, UseInv
<1>5. op[t].kind \in LookUpKinds => op[t].kind # "none"
  BY DEF LookUpKinds
<1>6. ASSUME pc' = pc, op' = op, found' = found,
             written' \in [Thread -> Seq(Chunk)],
             \A u \in Thread \ {t} : written'[u] = written[u]
      PROVE  Moved(t)
  BY <1>6 DEF Moved, IInv, TypeInv, TypeOK, PlaceInv
<1>7. CASE \/ AnswerConstant(t) \/ ensureChildrenFails(t) \/ ReadDir(t) \/ lookUpFails(t)
           \/ AnswerLookUp(t) \/ OpenFile(t) \/ LoadChunkFails(t) \/ ReadFile(t)
           \/ ReleaseFileHandle(t)
  <2>1. Answer(t)
    BY <1>7, OpenFileFinds, ReleaseFinds
       DEF AnswerConstant, ensureChildrenFails, ReadDir, lookUpFails, AnswerLookUp,
           LoadChunkFails, ReadFile
  <2> QED BY <2>1, AnswerMoves
<1>8. CASE FindInode(t)
  <2>1. op[t].kind \in LookUpKinds
    BY <1>8, Kinds DEF FindInode
  <2> QED BY <1>1, <1>5, <1>8, <2>1, FindInodeFinds, GotoMoves
<1>9. CASE LockInode(t)
  BY <1>1, <1>2, <1>5, <1>9, GotoMoves DEF LockInode
<1>10. CASE ensureChildren(t)
  BY <1>6, <1>10 DEF ensureChildren, IInv, TypeInv
<1>11. CASE LookUpChild(t)
  <2>1. CASE Answer(t)
    BY <2>1, AnswerMoves
  <2>2. CASE ~Answer(t)
    <3>1. PICK e \in Children(op[t].inode) : found' = [found EXCEPT ![t] = e]
      BY <1>11, <2>2 DEF LookUpChild
    <3>2. op[t].kind = "lookup" /\ Goto(t, "register") /\ op' = op /\ written' = written
      BY <1>11, <2>2 DEF LookUpChild
    <3>3. Listing[made[op[t].inode]] \in Seq(Entry)
      <4>1. op[t].inode \in Id
        BY <1>0, <3>2, RequestFields DEF InodeKinds, LookUpKinds
      <4> QED BY <1>0, <4>1, ScoresType
    <3>4. e \in Entry
      BY <3>1, <3>3 DEF Children
    <3> QED BY <1>1, <3>1, <3>2, <3>4, GotoMoves DEF LookUpKinds
  <2> QED BY <2>1, <2>2
<1>12. CASE lookUpOrCreateInode(t) \/ LockChild(t)
  BY <1>1, <1>3, <1>12, GotoMoves DEF lookUpOrCreateInode, LockChild
<1>13. CASE FindHandle(t)
  BY <1>1, <1>13, FindHandleFinds, GotoMoves DEF FindHandle
<1>14. CASE LockHandle(t) \/ FileComplete(t)
  BY <1>1, <1>4, <1>14, GotoMoves DEF LockHandle, FileComplete
<1>15. CASE AnonymousFile(t)
  <2>1. <<>> \in Seq(Chunk)
    OBVIOUS
  <2> QED BY <1>1, <1>4, <1>15, <2>1, GotoMoves DEF AnonymousFile
<1>16. CASE LoadChunk(t)
  <2> DEFINE s == Append(written[t], Wanted(t)[Len(written[t]) + 1])
  <2>1. Wanted(t) \in Seq(Chunk) /\ Len(written[t]) < Len(Wanted(t))
    BY <1>4, <1>16, ScoresType DEF LoadChunk, Wanted
  <2>2. s \in Seq(Chunk)
    BY <1>0, <2>1
  <2>3. written' = [written EXCEPT ![t] = s] /\ UNCHANGED <<pc, op, found>>
    BY <1>16 DEF LoadChunk
  <2>4. written \in [Thread -> Seq(Chunk)]
    BY DEF IInv, TypeInv
  <2> HIDE DEF s
  <2> QED BY <1>6, <2>2, <2>3, <2>4
<1> QED
  BY <1>7, <1>8, <1>9, <1>10, <1>11, <1>12, <1>13, <1>14, <1>15, <1>16 DEF Serve

\* What the kernel's request does to the variables of goroutines.
LEMMA AskMoves ==
    ASSUME IInv, NEW t \in Thread, NEW o \in Request, Ask(t, o)
    PROVE  /\ pc' \in [Thread -> PCs] /\ op' \in [Thread -> Request \cup {NoRequest}]
           /\ pc'[t] = "find" /\ op'[t] = o /\ op[t].kind = "none"
           /\ \A u \in Thread \ {t} : pc'[u] = pc[u] /\ op'[u] = op[u]
           /\ PlaceInv'
<1>1. /\ pc[t] = "idle" /\ pc' = [pc EXCEPT ![t] = "find"] /\ op' = [op EXCEPT ![t] = o]
  BY DEF Ask
<1>2. /\ pc \in [Thread -> PCs] /\ op \in [Thread -> Request \cup {NoRequest}]
      /\ PlaceInv /\ "find" \in PCs
  BY DEF IInv, TypeInv, TypeOK, PCs
<1>3. o.kind # "none"
  BY DEF Request
<1>4. /\ pc'[t] = "find" /\ op'[t] = o
      /\ \A u \in Thread \ {t} : pc'[u] = pc[u] /\ op'[u] = op[u]
  BY <1>1, <1>2
<1>5. PlaceInv'
  BY <1>2, <1>3, <1>4 DEF PlaceInv
<1> QED BY <1>1, <1>2, <1>4, <1>5 DEF PlaceInv

------------------------------------------------------------------------------
(* Inodes and handles in use                                               *)

\* What a goroutine's step does to the kernel's references and to the table of
\* handles: only three answers change them.
LEMMA ServeTouches ==
    ASSUME IInv, NEW t \in Thread, Serve(t)
    PROVE  /\ UNCHANGED <<forgetting, sent, dead>>
           /\ ~AnswerLookUp(t) => known' = known
           /\ ~OpenFile(t) => UNCHANGED <<opened, nextHandleID>>
           /\ ~OpenFile(t) /\ ~ReleaseFileHandle(t) => handles' = handles
<1> USE DEF table, handleVars, fileVars, locks, stream, kernel, local
<1>1. CASE FindInode(t) \/ OpenFile(t) \/ FindHandle(t) \/ ReleaseFileHandle(t)
  BY <1>1, FindInodeFinds, OpenFileFinds, FindHandleFinds, ReleaseFinds
<1>2. CASE \/ LockInode(t) \/ AnswerConstant(t)
           \/ ensureChildren(t) \/ ensureChildrenFails(t)
           \/ ReadDir(t) \/ LookUpChild(t) \/ lookUpFails(t) \/ lookUpOrCreateInode(t)
           \/ LockChild(t) \/ AnswerLookUp(t)
  BY <1>2
     DEF LockInode, AnswerConstant, ensureChildren, ensureChildrenFails, ReadDir,
         LookUpChild, lookUpFails, lookUpOrCreateInode, LockChild, AnswerLookUp
<1>3. CASE \/ LockHandle(t) \/ AnonymousFile(t) \/ LoadChunk(t) \/ LoadChunkFails(t)
           \/ FileComplete(t) \/ ReadFile(t)
  BY <1>3
     DEF LockHandle, AnonymousFile, LoadChunk, LoadChunkFails, FileComplete, ReadFile
<1> QED BY <1>1, <1>2, <1>3 DEF Serve

\* Goroutines that are serving a request.
LEMMA BusyIs == ASSUME IInv PROVE \A t \in Thread : Busy(t) <=> op[t].kind # "none"
  BY DEF IInv, PlaceInv, Busy

\* A goroutine's step that takes no handle or reference others have.
LEMMA UseKept ==
    ASSUME IInv, NEW t \in Thread, Moved(t),
           \A i \in Id : known[i] > 0 => known'[i] > 0,
           opened' \subseteq DOMAIN handles',
           \A u \in Thread : op'[u].kind \in HandleKinds =>
               (op[u].handle \in DOMAIN handles => op[u].handle \in DOMAIN handles'),
           \A u \in Thread : op[u].kind = "release" =>
               (op[u].handle \in opened' => op[u].handle \in opened)
    PROVE  UseInv'
<1>1. \A u \in Thread : op'[u] = op[u] \/ op'[u].kind = "none"
  BY DEF Moved, NoRequest
<1>2. \A u \in Thread : op[u] \in Request \cup {NoRequest}
  BY DEF IInv, TypeInv, TypeOK
<1>3. \A u \in Thread : op[u].kind \in InodeKinds => op[u].inode \in Id
  BY <1>2, RequestFields
<1> QED BY <1>1, <1>3, Kinds DEF IInv, UseInv

\* At first there are no requests and no handles.
LEMMA InitUse == Init => UseInv /\ SizeInv
<1> SUFFICES ASSUME Init PROVE UseInv /\ SizeInv
  OBVIOUS
<1>1. \A t \in Thread : op[t].kind = "none"
  BY DEF Init, NoRequest
<1>2. Opening = {} /\ DOMAIN handles = {}
  BY <1>1 DEF Opening, Init
<1>3. SizeInv
  BY <1>2, FS_EmptySet DEF SizeInv, Init
<1> QED BY <1>1, <1>2, <1>3, Kinds DEF UseInv, Init

\* References and handles outlive the requests that use them.
LEMMA NextUse == IInv /\ [Next]_vars => UseInv'
<1> SUFFICES ASSUME IInv, [Next]_vars PROVE UseInv'
  OBVIOUS
<1> USE DEF table, handleVars, fileVars, locks, stream, kernel, local
<1>0. /\ UseInv /\ known \in [Id -> Nat] /\ DOMAIN handles \subseteq 0..(nextHandleID - 1)
      /\ nextHandleID \in Nat
      /\ op \in [Thread -> Request \cup {NoRequest}]
  BY DEF IInv, SizeInv, TypeInv, TypeOK
<1>1. ASSUME NEW t \in Thread, NEW o \in Request, Ask(t, o) PROVE UseInv'
  <2>1. /\ op'[t] = o /\ \A u \in Thread \ {t} : op'[u] = op[u]
        /\ UNCHANGED <<handles, known>> /\ MayAsk(o)
        /\ opened' = IF o.kind = "release" THEN opened \ {o.handle} ELSE opened
    BY <1>1, AskMoves DEF Ask
  <2>2. o.kind \in InodeKinds \cup HandleKinds /\ (o.kind = "read" \/ o.kind = "release"
           <=> o.kind \in HandleKinds)
    BY RequestFields DEF Request, InodeKinds, LookUpKinds, HandleKinds
  <2>3. CASE o.kind \in InodeKinds
    <3>1. known[o.inode] > 0
      BY <2>1, <2>2, <2>3, Kinds DEF MayAsk
    <3>2. opened' = opened /\ o.kind # "release"
      BY <2>1, <2>3, Kinds
    <3> QED BY <1>0, <2>1, <2>3, <3>1, <3>2, Kinds DEF UseInv
  <2>4. CASE o.kind = "read"
    <3>1. o.handle \in opened /\ opened' = opened
      BY <2>1, <2>4 DEF MayAsk
    <3> QED BY <1>0, <2>1, <2>4, <3>1, Kinds DEF UseInv
  <2>5. CASE o.kind = "release"
    <3>1. /\ o.handle \in opened /\ opened' = opened \ {o.handle}
          /\ ~\E u \in Thread : Busy(u) /\ Reads(op[u], o.handle)
      BY <2>1, <2>5 DEF MayAsk
    <3>2. ASSUME NEW u \in Thread \ {t}, op[u].kind \in HandleKinds
          PROVE  op[u].handle # o.handle
      <4>1. CASE op[u].kind = "read"
        BY <3>1, <4>1, BusyIs DEF Reads
      <4>2. CASE op[u].kind = "release"
        BY <1>0, <3>1, <4>2 DEF UseInv
      <4> QED BY <3>2, <4>1, <4>2 DEF HandleKinds
    <3> QED BY <1>0, <2>1, <2>5, <3>1, <3>2, Kinds DEF UseInv
  <2> QED BY <2>2, <2>3, <2>4, <2>5
<1>2. ASSUME NEW i \in Id, Forget(i) PROVE UseInv'
  <2>1. /\ UNCHANGED <<op, opened, handles>>
        /\ \A j \in Id \ {i} : known'[j] = known[j]
        /\ ~\E t \in Thread : Busy(t) /\ Uses(op[t], i)
    BY <1>0, <1>2 DEF Forget
  <2>2. \A t \in Thread : op[t].kind \in InodeKinds => op[t].inode \in Id \ {i}
    BY <1>0, <2>1, BusyIs, RequestFields DEF Uses, InodeKinds, LookUpKinds
  <2> QED BY <1>0, <2>1, <2>2 DEF UseInv
<1>3. ASSUME NEW i \in Id, ForgetInode(i) PROVE UseInv'
  BY <1>0, <1>3, ForgetFinds DEF UseInv
<1>4. ASSUME NEW t \in Thread, OpenFile(t) PROVE UseInv'
  <2>1. Moved(t)
    BY <1>4, ServeMoves DEF Serve
  <2>2. /\ DOMAIN handles' = DOMAIN handles \cup {nextHandleID}
        /\ opened' = opened \cup {nextHandleID} /\ known' = known
    BY <1>4, OpenFileFinds DEF With
  <2>3. nextHandleID \notin DOMAIN handles
    BY <1>0
  <2> QED BY <1>0, <2>1, <2>2, <2>3, UseKept, Kinds DEF UseInv
<1>5. ASSUME NEW t \in Thread, ReleaseFileHandle(t) PROVE UseInv'
  <2>1. Moved(t) /\ op[t].kind = "release" /\ op'[t].kind = "none"
    BY <1>5, ServeMoves, ReleaseFinds, AnswerIs DEF Serve, ReleaseFileHandle, IInv
  <2>2. /\ DOMAIN handles' = DOMAIN handles \ {op[t].handle}
        /\ opened' = opened /\ known' = known
    BY <1>5, ReleaseFinds DEF Without
  <2>3. \A u \in Thread : op'[u].kind \in HandleKinds => u # t /\ op[u].kind \in HandleKinds
    BY <2>1, Kinds DEF Moved, NoRequest
  <2> QED BY <1>0, <2>1, <2>2, <2>3, UseKept DEF UseInv
<1>6. ASSUME NEW t \in Thread, Serve(t), ~OpenFile(t), ~ReleaseFileHandle(t) PROVE UseInv'
  <2>1. Moved(t) /\ UNCHANGED <<opened, handles>>
    BY <1>6, ServeMoves, ServeTouches
  <2>2. \A i \in Id : known[i] > 0 => known'[i] > 0
    <3>1. CASE AnswerLookUp(t)
      <4>1. known' = [known EXCEPT ![Inode[found[t]]] = @ + 1]
        BY <3>1 DEF AnswerLookUp
      <4> QED BY <1>0, <4>1
    <3>2. CASE ~AnswerLookUp(t)
      BY <1>6, <3>2, ServeTouches
    <3> QED BY <3>1, <3>2
  <2> QED BY <1>0, <2>1, <2>2, UseKept DEF UseInv
<1>7. CASE UNCHANGED vars
  BY <1>0, <1>7 DEF vars, UseInv
<1> QED BY <1>1, <1>2, <1>3, <1>4, <1>5, <1>6, <1>7 DEF Next, Quiet

\* Handles get new numbers, and no more than there are requests to open.
LEMMA NextSize == IInv /\ [Next]_vars => SizeInv'
<1> SUFFICES ASSUME IInv, [Next]_vars PROVE SizeInv'
  OBVIOUS
<1> USE DEF table, handleVars, fileVars, locks, stream, kernel, local
<1>0. /\ DOMAIN handles \subseteq 0..(nextHandleID - 1)
      /\ nextHandleID \in Nat /\ sent \in Nat
      /\ IsFiniteSet(Opening) /\ nextHandleID + Cardinality(Opening) <= sent
      /\ Cardinality(Opening) \in Nat
  BY FS_CardinalityType DEF IInv, SizeInv, TypeInv, TypeOK
<1>1. ASSUME NEW t \in Thread, NEW o \in Request, Ask(t, o) PROVE SizeInv'
  <2>1. /\ op'[t] = o /\ op[t].kind = "none" /\ \A u \in Thread \ {t} : op'[u] = op[u]
        /\ UNCHANGED <<handles, nextHandleID>> /\ sent' = sent + 1
    BY <1>1, AskMoves DEF Ask
  <2>2. Opening' \subseteq Opening \cup {t}
    BY <2>1 DEF Opening
  <2>3. /\ IsFiniteSet(Opening \cup {t})
        /\ Cardinality(Opening \cup {t}) <= Cardinality(Opening) + 1
    <3>1. /\ IsFiniteSet(Opening \cup {t})
          /\ Cardinality(Opening \cup {t}) =
               IF t \in Opening THEN Cardinality(Opening) ELSE Cardinality(Opening) + 1
      BY <1>0, FS_AddElement
    <3> QED BY <1>0, <3>1
  <2>4. /\ IsFiniteSet(Opening') /\ Cardinality(Opening') <= Cardinality(Opening \cup {t})
        /\ Cardinality(Opening') \in Nat /\ Cardinality(Opening \cup {t}) \in Nat
    BY <2>2, <2>3, FS_Subset, FS_CardinalityType
  <2> QED BY <1>0, <2>1, <2>3, <2>4 DEF SizeInv
<1>2. ASSUME NEW t \in Thread, OpenFile(t) PROVE SizeInv'
  <2>1. /\ nextHandleID' = nextHandleID + 1 /\ sent' = sent
        /\ DOMAIN handles' = DOMAIN handles \cup {nextHandleID}
        /\ op[t].kind = "open" /\ op'[t].kind = "none"
        /\ \A u \in Thread \ {t} : op'[u] = op[u]
    <3>1. Answer(t) /\ nextHandleID' = nextHandleID + 1 /\ sent' = sent
      BY <1>2, OpenFileFinds
    <3>2. DOMAIN handles' = DOMAIN handles \cup {nextHandleID}
      BY <1>2, OpenFileFinds DEF With
    <3>3. op[t].kind = "open"
      BY <1>2 DEF OpenFile
    <3> QED BY <3>1, <3>2, <3>3, AnswerIs DEF IInv
  <2>2. Opening' = Opening \ {t} /\ t \in Opening
    BY <2>1 DEF Opening
  <2>3. /\ IsFiniteSet(Opening') /\ Cardinality(Opening') = Cardinality(Opening) - 1
    BY <1>0, <2>2, FS_RemoveElement
  <2>4. nextHandleID' + Cardinality(Opening') <= sent'
    BY <1>0, <2>1, <2>3
  <2>5. DOMAIN handles' \subseteq 0..(nextHandleID' - 1)
    BY <1>0, <2>1
  <2> QED BY <2>3, <2>4, <2>5 DEF SizeInv
\* Nobody begins to open a file, and no handle is new.
<1>3. ASSUME UNCHANGED <<nextHandleID, sent>>, DOMAIN handles' \subseteq DOMAIN handles,
             \A u \in Thread : op'[u] = op[u] \/ op'[u].kind = "none"
      PROVE  SizeInv'
  <2>1. Opening' \subseteq Opening
    BY <1>3 DEF Opening
  <2>2. /\ IsFiniteSet(Opening') /\ Cardinality(Opening') <= Cardinality(Opening)
        /\ Cardinality(Opening') \in Nat
    BY <1>0, <2>1, FS_Subset, FS_CardinalityType
  <2> QED BY <1>0, <1>3, <2>2 DEF SizeInv
<1>4. ASSUME NEW t \in Thread, Serve(t), ~OpenFile(t) PROVE SizeInv'
  <2>1. \A u \in Thread : op'[u] = op[u] \/ op'[u].kind = "none"
    BY <1>4, ServeMoves DEF Moved, NoRequest
  <2>2. DOMAIN handles' \subseteq DOMAIN handles
    <3>1. CASE ReleaseFileHandle(t)
      BY <3>1, ReleaseFinds DEF Without
    <3>2. CASE ~ReleaseFileHandle(t)
      BY <1>4, <3>2, ServeTouches
    <3> QED BY <3>1, <3>2
  <2> QED BY <1>3, <1>4, <2>1, <2>2, ServeTouches
<1>5. ASSUME NEW i \in Id, Forget(i) \/ ForgetInode(i) PROVE SizeInv'
  BY <1>3, <1>5, ForgetFinds DEF Forget
<1>6. CASE UNCHANGED vars
  BY <1>3, <1>6 DEF vars
<1> QED BY <1>1, <1>2, <1>4, <1>5, <1>6 DEF Next, Quiet

------------------------------------------------------------------------------
(* The counts of both sides                                                *)

\* The other steps register no inode and answer no look-up.
LEMMA ServeRegisters ==
    ASSUME IInv, NEW t \in Thread, Serve(t), ~lookUpOrCreateInode(t), ~AnswerLookUp(t)
    PROVE  /\ pc'[t] \in {"lockChild", "fill"} <=> pc[t] \in {"lockChild", "fill"}
           /\ pc[t] \in {"lockChild", "fill"} => found'[t] = found[t]
           /\ UNCHANGED <<inodes, count, made>>
<1> USE DEF table, handleVars, fileVars, locks, stream, kernel, local
<1>a. ASSUME NEW where, Goto(t, where) PROVE pc'[t] = where
  BY <1>a, GotoIs DEF IInv
<1>b. ASSUME Answer(t) PROVE pc'[t] = "idle"
  BY <1>b, AnswerIs DEF IInv
<1>1. CASE OpenFile(t) \/ ReleaseFileHandle(t)
  <2>1. pc[t] = "find" /\ Answer(t) /\ UNCHANGED <<inodes, count, made>>
    BY <1>1, OpenFileFinds, ReleaseFinds DEF OpenFile, ReleaseFileHandle
  <2> QED BY <1>b, <2>1
<1>2. CASE FindInode(t) \/ FindHandle(t)
  <2>1. /\ pc[t] = "find"
        /\ Goto(t, "lock") \/ Goto(t, "lockHandle")
        /\ UNCHANGED <<inodes, count, made>>
    BY <1>2, FindInodeFinds, FindHandleFinds DEF FindInode, FindHandle
  <2> QED BY <1>a, <2>1
<1>3. CASE LockInode(t) \/ LockChild(t) \/ ensureChildren(t)
  BY <1>a, <1>3 DEF LockInode, LockChild, ensureChildren
<1>4. CASE \/ AnswerConstant(t) \/ ensureChildrenFails(t) \/ ReadDir(t) \/ lookUpFails(t)
           \/ LoadChunkFails(t) \/ ReadFile(t)
  BY <1>b, <1>4
     DEF AnswerConstant, ensureChildrenFails, ReadDir, lookUpFails, LoadChunkFails,
         ReadFile, NeedsListing
<1>5. CASE LookUpChild(t)
  <2>1. /\ pc[t] = "locked"
        /\ Answer(t) \/ Goto(t, "register")
        /\ UNCHANGED <<inodes, count, made>>
    BY <1>5 DEF LookUpChild, NeedsListing
  <2> QED BY <1>a, <1>b, <2>1
<1>6. CASE LockHandle(t) \/ AnonymousFile(t) \/ LoadChunk(t) \/ FileComplete(t)
  BY <1>a, <1>6 DEF LockHandle, AnonymousFile, LoadChunk, FileComplete
<1> QED BY <1>1, <1>2, <1>3, <1>4, <1>5, <1>6 DEF Serve

\* At first only the kernel's reference on the root is counted.
LEMMA InitCount == Init => CountInv
<1> SUFFICES ASSUME Init PROVE CountInv
  OBVIOUS
<1>1. \A i \in Id : Registered(i) = {}
  BY DEF Init, Registered
<1>2. \A i \in Id : IsFiniteSet(Registered(i)) /\ Cardinality(Registered(i)) = 0
  BY <1>1, FS_EmptySet
<1> QED BY <1>2 DEF Init, CountInv

\* Every step keeps the two sides' counts equal.
LEMMA NextCount == IInv /\ [Next]_vars => CountInv'
<1> SUFFICES ASSUME IInv, [Next]_vars PROVE CountInv'
  OBVIOUS
<1> USE DEF table, handleVars, fileVars, locks, stream, kernel, local
<1>0. /\ ~dead /\ count \in [Id -> Nat]
      /\ known \in [Id -> Nat] /\ forgetting \in [Id -> Nat]
      /\ \A i \in Id : /\ IsFiniteSet(Registered(i)) /\ Cardinality(Registered(i)) \in Nat
                       /\ count[i] = known[i] + forgetting[i] + Cardinality(Registered(i))
                       /\ i \in inodes <=> count[i] > 0
      /\ \A t \in Thread : found[t] \in Entry /\ Inode[found[t]] \in Id
  BY FS_CardinalityType DEF IInv, CountInv, TypeInv, TypeOK, Id
\* No look-up is registered or answered.
<1>1. ASSUME \A u \in Thread :
                /\ pc'[u] \in {"lockChild", "fill"} <=> pc[u] \in {"lockChild", "fill"}
                /\ pc[u] \in {"lockChild", "fill"} => found'[u] = found[u]
      PROVE  \A i \in Id : Registered(i)' = Registered(i)
  BY <1>1 DEF Registered
<1>2. ASSUME NEW t \in Thread, NEW o \in Request, Ask(t, o) PROVE CountInv'
  <2>1. /\ \A u \in Thread :
              /\ pc'[u] \in {"lockChild", "fill"} <=> pc[u] \in {"lockChild", "fill"}
              /\ pc[u] \in {"lockChild", "fill"} => found'[u] = found[u]
        /\ UNCHANGED <<dead, inodes, count, known, forgetting>>
    BY <1>2, AskMoves DEF Ask
  <2> QED BY <1>0, <1>1, <2>1 DEF CountInv
<1>3. ASSUME NEW i \in Id, Forget(i) PROVE CountInv'
  <2>1. /\ UNCHANGED <<pc, found, dead, inodes, count>> /\ forgetting[i] = 0
        /\ forgetting' = [forgetting EXCEPT ![i] = known[i]]
        /\ known' = [known EXCEPT ![i] = 0]
    BY <1>3 DEF Forget
  <2>2. \A j \in Id : Registered(j)' = Registered(j)
    BY <1>1, <2>1
  <2>3. \A j \in Id : known'[j] + forgetting'[j] = known[j] + forgetting[j]
    BY <1>0, <2>1
  <2>4. \A j \in Id : count'[j] = known'[j] + forgetting'[j] + Cardinality(Registered(j))
    BY <1>0, <2>1, <2>3
  <2> QED BY <1>0, <2>1, <2>2, <2>4 DEF CountInv
<1>4. ASSUME NEW i \in Id, ForgetInode(i) PROVE CountInv'
  <2>1. /\ UNCHANGED <<pc, found, dead, known>> /\ count[i] >= forgetting[i]
        /\ forgetting' = [forgetting EXCEPT ![i] = 0]
        /\ count' = [count EXCEPT ![i] = count[i] - forgetting[i]]
        /\ inodes' = IF count'[i] = 0 THEN inodes \ {i} ELSE inodes
        /\ i \in inodes
    BY <1>4, ForgetFinds
  <2>2. \A j \in Id : Registered(j)' = Registered(j)
    BY <1>1, <2>1
  <2>3. count'[i] = known'[i] + forgetting'[i] + Cardinality(Registered(i))
    BY <1>0, <2>1
  <2>4. ASSUME NEW j \in Id
        PROVE  /\ count'[j] = known'[j] + forgetting'[j] + Cardinality(Registered(j))
               /\ j \in inodes' <=> count'[j] > 0
    <3>1. CASE j = i
      <4>1. count'[i] = count[i] - forgetting[i] /\ count'[i] \in Nat
        BY <1>0, <2>1
      <4> QED BY <2>1, <2>3, <3>1, <4>1
    <3>2. CASE j # i
      <4>1. count'[j] = count[j] /\ forgetting'[j] = forgetting[j] /\ known'[j] = known[j]
        BY <1>0, <2>1, <3>2
      <4>2. j \in inodes' <=> j \in inodes
        BY <2>1, <3>2
      <4> QED BY <1>0, <4>1, <4>2
    <3> QED BY <3>1, <3>2
  <2> QED BY <1>0, <2>1, <2>2, <2>4 DEF CountInv
<1>5. ASSUME NEW t \in Thread, lookUpOrCreateInode(t) PROVE CountInv'
  <2>1. PICK i \in Id : i = Inode[found[t]]
    BY <1>0
  <2>2. /\ pc[t] = "register" /\ inodes' = inodes \cup {i}
        /\ count' = [count EXCEPT ![i] = IF i \in inodes THEN count[i] + 1 ELSE 1]
        /\ UNCHANGED <<found, dead, known, forgetting>>
        /\ pc'[t] = "lockChild" /\ \A u \in Thread \ {t} : pc'[u] = pc[u]
    BY <1>5, <2>1, GotoIs DEF lookUpOrCreateInode, IInv
  <2>3. /\ Registered(i)' = Registered(i) \cup {t} /\ t \notin Registered(i)
        /\ \A j \in Id \ {i} : Registered(j)' = Registered(j)
    BY <2>1, <2>2 DEF Registered
  <2>4. /\ IsFiniteSet(Registered(i) \cup {t})
        /\ Cardinality(Registered(i) \cup {t}) = Cardinality(Registered(i)) + 1
    BY <1>0, <2>3, FS_AddElement
  <2>5. count'[i] = count[i] + 1 /\ \A j \in Id \ {i} : count'[j] = count[j]
    BY <1>0, <2>2
  <2>6. ASSUME NEW j \in Id
        PROVE  /\ count'[j] = known[j] + forgetting[j] + Cardinality(Registered(j)')
               /\ IsFiniteSet(Registered(j)')
               /\ j \in inodes' <=> count'[j] > 0
    <3>1. CASE j = i
      <4>1. Cardinality(Registered(i)') = Cardinality(Registered(i)) + 1
            /\ IsFiniteSet(Registered(i)')
        BY <2>3, <2>4
      <4>2. count'[i] = known[i] + forgetting[i] + Cardinality(Registered(i)) + 1
        BY <1>0, <2>5
      <4> QED BY <1>0, <2>2, <3>1, <4>1, <4>2
    <3>2. CASE j # i
      <4>1. Registered(j)' = Registered(j) /\ count'[j] = count[j]
        BY <2>3, <2>5, <3>2
      <4>2. j \in inodes' <=> j \in inodes
        BY <2>2, <3>2
      <4> QED BY <1>0, <4>1, <4>2
    <3> QED BY <3>1, <3>2
  <2> QED BY <1>0, <2>2, <2>6 DEF CountInv
<1>6. ASSUME NEW t \in Thread, AnswerLookUp(t) PROVE CountInv'
  <2>1. PICK i \in Id : i = Inode[found[t]]
    BY <1>0
  <2>2. /\ pc[t] = "fill" /\ Answer(t) /\ known' = [known EXCEPT ![i] = known[i] + 1]
        /\ UNCHANGED <<inodes, count, forgetting, dead>>
    BY <1>6, <2>1 DEF AnswerLookUp
  <2>3. /\ pc'[t] = "idle"
        /\ \A u \in Thread \ {t} : pc'[u] = pc[u] /\ found'[u] = found[u]
    BY <2>2, AnswerIs DEF IInv
  <2>4. /\ Registered(i)' = Registered(i) \ {t} /\ t \in Registered(i)
        /\ \A j \in Id \ {i} : Registered(j)' = Registered(j)
    BY <2>1, <2>2, <2>3 DEF Registered
  <2>5. /\ IsFiniteSet(Registered(i) \ {t})
        /\ Cardinality(Registered(i) \ {t}) = Cardinality(Registered(i)) - 1
    BY <1>0, <2>4, FS_RemoveElement
  <2>6. known'[i] = known[i] + 1 /\ \A j \in Id \ {i} : known'[j] = known[j]
    BY <1>0, <2>2
  <2>7. ASSUME NEW j \in Id
        PROVE  /\ count[j] = known'[j] + forgetting[j] + Cardinality(Registered(j)')
               /\ IsFiniteSet(Registered(j)')
    <3>1. CASE j = i
      <4>1. Cardinality(Registered(i)') = Cardinality(Registered(i)) - 1
            /\ IsFiniteSet(Registered(i)')
        BY <2>4, <2>5
      <4> QED BY <1>0, <2>6, <3>1, <4>1
    <3>2. CASE j # i
      <4>1. Registered(j)' = Registered(j) /\ known'[j] = known[j]
        BY <2>4, <2>6, <3>2
      <4> QED BY <1>0, <4>1
    <3> QED BY <3>1, <3>2
  <2> QED BY <1>0, <2>2, <2>7 DEF CountInv
<1>7. ASSUME NEW t \in Thread, Serve(t), ~lookUpOrCreateInode(t), ~AnswerLookUp(t)
      PROVE  CountInv'
  <2>1. /\ \A u \in Thread :
              /\ pc'[u] \in {"lockChild", "fill"} <=> pc[u] \in {"lockChild", "fill"}
              /\ pc[u] \in {"lockChild", "fill"} => found'[u] = found[u]
        /\ UNCHANGED <<dead, inodes, count, known, forgetting>>
    BY <1>7, ServeMoves, ServeTouches, ServeRegisters DEF Moved
  <2> QED BY <1>0, <1>1, <2>1 DEF CountInv
<1>8. CASE UNCHANGED vars
  BY <1>0, <1>1, <1>8 DEF vars, CountInv
<1> QED BY <1>2, <1>3, <1>4, <1>5, <1>6, <1>7, <1>8 DEF Next, Quiet

------------------------------------------------------------------------------
(* Locks                                                                   *)

\* Where a goroutine holds the lock of inode i, and of handle h.
Under(t, i) == \/ pc[t] = "locked" /\ op[t].inode = i
               \/ pc[t] = "fill" /\ Inode[found[t]] = i
UnderHandle(t, h) == pc[t] \in {"reading", "loading"} /\ op[t].handle = h

\* The handle of a goroutine that reads is a handle.
LEMMA ReadsHandle ==
    ASSUME IInv, NEW t \in Thread, pc[t] \in {"lockHandle", "reading", "loading"}
    PROVE  op[t].handle \in Handle /\ op[t].handle \in DOMAIN handles
<1>1. op[t].kind = "read" /\ op[t] \in Request \cup {NoRequest}
  BY DEF IInv, PlaceInv, TypeInv, TypeOK
<1> QED BY <1>1, RequestFields, Kinds DEF IInv, UseInv

\* A step of goroutine t keeps the discipline of locks if t then works under
\* those it holds, and takes none from another.
LEMMA LockKept ==
    ASSUME IInv, NEW t \in Thread,
           \A u \in Thread \ {t} : pc'[u] = pc[u] /\ op'[u] = op[u] /\ found'[u] = found[u],
           \A i \in Id : inodeLock'[i] \in {inodeLock[i], NoOne, t},
           \A i \in Id : inodeLock'[i] = t => Under(t, i)',
           \A h \in Handle : handleLock'[h] = handleLock[h] \/ handleLock[h] \in {NoOne, t},
           \A h \in Handle : handleLock'[h] \in {handleLock[h], NoOne, t},
           \A h \in Handle : handleLock'[h] = t <=> UnderHandle(t, h)',
           pc'[t] \in {"reading", "loading"} => op'[t].handle \in Handle
    PROVE  LockInv'
<1>1. /\ LockInv /\ inodeLock \in [Id -> Thread \cup {NoOne}]
      /\ handleLock \in [Handle -> Thread \cup {NoOne}]
      /\ NoOne \notin Thread
  BY BackupAssumption DEF IInv, TypeInv, TypeOK, NoOne
<1>2. ASSUME NEW i \in Id, NEW v, v = inodeLock'[i], v # NoOne PROVE Under(v, i)'
  <2>1. CASE v = t
    BY <1>2, <2>1
  <2>2. CASE v # t
    <3>1. v \in Thread \ {t} /\ v = inodeLock[i]
      BY <1>1, <1>2, <2>2
    <3>2. Under(v, i)
      BY <1>1, <1>2, <3>1 DEF LockInv, Under
    <3> QED BY <3>1, <3>2 DEF Under
  <2> QED BY <2>1, <2>2
<1>3. ASSUME NEW h \in Handle, NEW v, v = handleLock'[h], v # NoOne PROVE UnderHandle(v, h)'
  <2>1. CASE v = t
    BY <1>3, <2>1
  <2>2. CASE v # t
    <3>1. v \in Thread \ {t} /\ v = handleLock[h]
      BY <1>1, <1>3, <2>2
    <3>2. UnderHandle(v, h)
      BY <1>1, <1>3, <3>1 DEF LockInv, UnderHandle
    <3> QED BY <3>1, <3>2 DEF UnderHandle
  <2> QED BY <2>1, <2>2
<1>4. ASSUME NEW u \in Thread, pc'[u] \in {"reading", "loading"}
      PROVE  handleLock'[op'[u].handle] = u
  <2>1. CASE u = t
    BY <1>4, <2>1 DEF UnderHandle
  <2>2. CASE u # t
    <3>1. pc[u] \in {"reading", "loading"} /\ op'[u] = op[u]
      BY <1>4, <2>2
    <3>2. PICK h \in Handle : h = op[u].handle
      BY <3>1, ReadsHandle
    <3>3. handleLock[h] = u
      BY <1>1, <3>1, <3>2 DEF LockInv
    <3>4. handleLock'[h] = u
      BY <1>1, <2>2, <3>3
    <3> QED BY <3>1, <3>2, <3>4
  <2> QED BY <2>1, <2>2
<1> QED BY <1>2, <1>3, <1>4 DEF LockInv, Under, UnderHandle

\* At first no lock is held.
LEMMA InitLock == Init => LockInv
  BY DEF Init, LockInv

\* The locks of inodes in a goroutine's step.
LEMMA ServeInodeLocks ==
    ASSUME IInv, NEW t \in Thread, Serve(t)
    PROVE  \A i \in Id : /\ inodeLock'[i] \in {inodeLock[i], NoOne, t}
                         /\ inodeLock'[i] = t => Under(t, i)'
<1> USE DEF table, handleVars, fileVars, locks, stream, kernel, local
<1>0. /\ inodeLock \in [Id -> Thread \cup {NoOne}] /\ NoOne # t
      /\ \A i \in Id : inodeLock[i] = t => Under(t, i)
      /\ op[t] \in Request \cup {NoRequest} /\ Inode[found[t]] \in Id
  <2>1. /\ inodeLock \in [Id -> Thread \cup {NoOne}] /\ LockInv
        /\ op[t] \in Request \cup {NoRequest} /\ found[t] \in Entry
    BY DEF IInv, TypeInv, TypeOK
  <2>2. NoOne # t
    BY BackupAssumption DEF NoOne
  <2>3. Inode[found[t]] \in Id
    BY <2>1 DEF Id
  <2>4. \A i \in Id : inodeLock[i] = t => Under(t, i)
    BY <2>1, <2>2 DEF LockInv, Under
  <2> QED BY <2>1, <2>2, <2>3, <2>4
<1>1. ASSUME inodeLock' = inodeLock, pc[t] \notin {"locked", "fill"}
      PROVE  \A i \in Id : inodeLock'[i] = inodeLock[i] /\ inodeLock'[i] # t
  BY <1>0, <1>1 DEF Under
<1>2. ASSUME NEW i \in Id, Unlock(t, i), \A j \in Id : Under(t, j) => j = i
      PROVE  \A j \in Id : inodeLock'[j] \in {inodeLock[j], NoOne} /\ inodeLock'[j] # t
  BY <1>0, <1>2 DEF Unlock
<1>3. ASSUME pc[t] = "locked"
      PROVE  op[t].inode \in Id /\ \A j \in Id : Under(t, j) => j = op[t].inode
  <2>1. op[t].kind \in InodeKinds
    BY <1>3 DEF IInv, PlaceInv, InodeKinds
  <2> QED BY <1>0, <1>3, <2>1, RequestFields DEF Under
<1>4. ASSUME pc[t] = "fill" PROVE \A j \in Id : Under(t, j) => j = Inode[found[t]]
  BY <1>4 DEF Under
<1>5. CASE FindInode(t) \/ OpenFile(t) \/ FindHandle(t) \/ ReleaseFileHandle(t)
  <2>1. inodeLock' = inodeLock /\ pc[t] = "find"
    BY <1>5, FindInodeFinds, OpenFileFinds, FindHandleFinds, ReleaseFinds
       DEF FindInode, OpenFile, FindHandle, ReleaseFileHandle
  <2> QED BY <1>1, <2>1
<1>6. CASE LockInode(t)
  <2>1. op[t].kind \in InodeKinds
    BY <1>6 DEF LockInode, IInv, PlaceInv, InodeKinds
  <2>2. PICK i \in Id : i = op[t].inode
    BY <1>0, <2>1, RequestFields
  <2>3. pc'[t] = "locked" /\ op' = op /\ pc[t] = "lock"
    BY <1>6, GotoIs DEF LockInode, IInv
  <2>4. CASE inodeLock' = inodeLock
    BY <1>1, <2>3, <2>4
  <2>5. CASE inodeLock' = [inodeLock EXCEPT ![i] = t]
    <3>1. \A j \in Id : inodeLock[j] # t
      BY <1>0, <2>3 DEF Under
    <3>2. \A j \in Id \ {i} : inodeLock'[j] = inodeLock[j]
      BY <1>0, <2>5
    <3>3. Under(t, i)' /\ inodeLock'[i] = t
      BY <1>0, <2>2, <2>3, <2>5 DEF Under
    <3> QED BY <3>1, <3>2, <3>3
  <2> QED BY <1>6, <2>2, <2>4, <2>5 DEF LockInode
<1>7. CASE ensureChildren(t)
  BY <1>0, <1>7 DEF ensureChildren, Under
<1>8. CASE AnswerConstant(t) \/ ensureChildrenFails(t) \/ ReadDir(t) \/ LookUpChild(t)
  <2>1. pc[t] = "locked" /\ Unlock(t, op[t].inode)
    BY <1>8 DEF AnswerConstant, ensureChildrenFails, ReadDir, LookUpChild, NeedsListing
  <2> QED BY <1>2, <1>3, <2>1
<1>9. CASE lookUpFails(t) \/ lookUpOrCreateInode(t)
  BY <1>1, <1>9 DEF lookUpFails, lookUpOrCreateInode
<1>10. CASE LockChild(t)
  <2>1. PICK i \in Id : i = Inode[found[t]]
    BY <1>0
  <2>2. pc'[t] = "fill" /\ found' = found /\ pc[t] = "lockChild"
    BY <1>10, GotoIs DEF LockChild, IInv
  <2>3. CASE inodeLock' = inodeLock
    BY <1>1, <2>2, <2>3
  <2>4. CASE inodeLock' = [inodeLock EXCEPT ![i] = t]
    <3>1. \A j \in Id : inodeLock[j] # t
      BY <1>0, <2>2 DEF Under
    <3>2. \A j \in Id \ {i} : inodeLock'[j] = inodeLock[j]
      BY <1>0, <2>4
    <3>3. Under(t, i)' /\ inodeLock'[i] = t
      BY <1>0, <2>1, <2>2, <2>4 DEF Under
    <3> QED BY <3>1, <3>2, <3>3
  <2> QED BY <1>10, <2>1, <2>3, <2>4 DEF LockChild
<1>11. CASE AnswerLookUp(t)
  <2>1. pc[t] = "fill" /\ Unlock(t, Inode[found[t]])
    BY <1>11 DEF AnswerLookUp
  <2> QED BY <1>0, <1>2, <1>4, <2>1
<1>12. CASE \/ LockHandle(t) \/ AnonymousFile(t) \/ LoadChunk(t) \/ LoadChunkFails(t)
            \/ FileComplete(t) \/ ReadFile(t)
  <2>1. inodeLock' = inodeLock /\ pc[t] \in {"lockHandle", "reading", "loading"}
    BY <1>12
       DEF LockHandle, AnonymousFile, LoadChunk, LoadChunkFails, FileComplete, ReadFile
  <2> QED BY <1>1, <2>1
<1> QED
  BY <1>5, <1>6, <1>7, <1>8, <1>9, <1>10, <1>11, <1>12 DEF Serve

\* The locks of handles in a goroutine's step.
LEMMA ServeHandleLocks ==
    ASSUME IInv, NEW t \in Thread, Serve(t)
    PROVE  /\ \A h \in Handle :
                /\ handleLock'[h] = handleLock[h] \/ handleLock[h] \in {NoOne, t}
                /\ handleLock'[h] \in {handleLock[h], NoOne, t}
                /\ handleLock'[h] = t <=> UnderHandle(t, h)'
           /\ pc'[t] \in {"reading", "loading"} => op'[t].handle \in Handle
<1> USE DEF table, handleVars, fileVars, locks, stream, kernel, local
<1>0. /\ handleLock \in [Handle -> Thread \cup {NoOne}] /\ NoOne # t
      /\ \A h \in Handle : handleLock[h] = t => UnderHandle(t, h)
      /\ pc[t] \in {"reading", "loading"} => handleLock[op[t].handle] = t
  BY BackupAssumption DEF IInv, LockInv, UnderHandle, TypeInv, TypeOK, NoOne
<1>1. ASSUME handleLock' = handleLock, pc[t] \notin {"reading", "loading"},
             pc'[t] \notin {"reading", "loading"}
      PROVE  \A h \in Handle : /\ handleLock'[h] = handleLock[h] /\ handleLock'[h] # t
                               /\ ~UnderHandle(t, h)'
  BY <1>0, <1>1 DEF UnderHandle
<1>a. ASSUME NEW where, Goto(t, where) PROVE pc'[t] = where
  BY <1>a, GotoIs DEF IInv
<1>b. ASSUME Answer(t) PROVE pc'[t] = "idle"
  BY <1>b, AnswerIs DEF IInv
<1>2. CASE FindInode(t) \/ OpenFile(t) \/ FindHandle(t) \/ ReleaseFileHandle(t)
  <2>1. /\ handleLock' = handleLock /\ pc[t] = "find"
        /\ Answer(t) \/ Goto(t, "lock") \/ Goto(t, "lockHandle")
    BY <1>2, FindInodeFinds, OpenFileFinds, FindHandleFinds, ReleaseFinds
       DEF FindInode, OpenFile, FindHandle, ReleaseFileHandle
  <2> QED BY <1>1, <1>a, <1>b, <2>1
<1>3. CASE \/ AnswerConstant(t) \/ ensureChildrenFails(t) \/ ReadDir(t) \/ LookUpChild(t)
           \/ lookUpFails(t) \/ AnswerLookUp(t)
  <2>1. /\ handleLock' = handleLock /\ pc[t] \in {"locked", "register", "fill"}
        /\ Answer(t) \/ Goto(t, "register")
    BY <1>3
       DEF AnswerConstant, ensureChildrenFails, ReadDir, LookUpChild, NeedsListing,
           lookUpFails, AnswerLookUp
  <2> QED BY <1>1, <1>a, <1>b, <2>1
<1>4. CASE LockInode(t) \/ lookUpOrCreateInode(t) \/ LockChild(t) \/ ensureChildren(t)
  <2>1. /\ handleLock' = handleLock /\ pc[t] \in {"lock", "register", "lockChild", "locked"}
        /\ pc'[t] \in {"locked", "lockChild", "fill"}
    BY <1>4, <1>a
       DEF LockInode, lookUpOrCreateInode, LockChild, ensureChildren, NeedsListing
  <2> QED BY <1>1, <2>1
<1>5. CASE LockHandle(t)
  <2>1. pc[t] = "lockHandle" /\ pc'[t] = "reading" /\ op' = op
    BY <1>5, <1>a DEF LockHandle
  <2>2. PICK h \in Handle : h = op[t].handle
    BY <2>1, ReadsHandle
  <2>3. handleLock' = [handleLock EXCEPT ![h] = t] /\ handleLock[h] = NoOne
    BY <1>5, <2>2 DEF LockHandle
  <2>4. \A k \in Handle \ {h} : handleLock'[k] = handleLock[k] /\ handleLock[k] # t
    BY <1>0, <2>1, <2>3 DEF UnderHandle
  <2>5. handleLock'[h] = t
    BY <1>0, <2>3
  <2> QED BY <2>1, <2>2, <2>3, <2>4, <2>5 DEF UnderHandle
<1>6. CASE AnonymousFile(t) \/ LoadChunk(t) \/ FileComplete(t)
  <2>1. /\ handleLock' = handleLock /\ op' = op /\ pc[t] \in {"reading", "loading"}
        /\ pc'[t] \in {"reading", "loading"}
    BY <1>6, <1>a DEF AnonymousFile, LoadChunk, FileComplete
  <2>2. PICK h \in Handle : h = op[t].handle
    BY <2>1, ReadsHandle
  <2> QED BY <1>0, <2>1, <2>2 DEF UnderHandle
<1>7. CASE LoadChunkFails(t) \/ ReadFile(t)
  <2>1. pc[t] \in {"reading", "loading"} /\ Answer(t) /\ UnlockHandle(t)
    BY <1>7 DEF LoadChunkFails, ReadFile
  <2>2. PICK h \in Handle : h = op[t].handle
    BY <2>1, ReadsHandle
  <2>3. /\ handleLock' = [handleLock EXCEPT ![h] = NoOne] /\ handleLock[h] = t
        /\ pc'[t] = "idle"
    BY <1>0, <1>b, <2>1, <2>2 DEF UnlockHandle
  <2>4. \A k \in Handle \ {h} : handleLock'[k] = handleLock[k] /\ handleLock[k] # t
    BY <1>0, <2>1, <2>2, <2>3 DEF UnderHandle
  <2>5. handleLock'[h] = NoOne
    BY <1>0, <2>3
  <2> QED BY <1>0, <2>2, <2>3, <2>4, <2>5 DEF UnderHandle
<1> QED BY <1>2, <1>3, <1>4, <1>5, <1>6, <1>7 DEF Serve

\* Every step keeps the discipline of locks.
LEMMA NextLock == IInv /\ [Next]_vars => LockInv'
<1> SUFFICES ASSUME IInv, [Next]_vars PROVE LockInv'
  OBVIOUS
<1> USE DEF table, handleVars, fileVars, locks, stream, kernel, local
<1>1. ASSUME NEW t \in Thread, NEW o \in Request, Ask(t, o) PROVE LockInv'
  <2>1. /\ UNCHANGED <<inodeLock, handleLock, found>> /\ pc[t] = "idle" /\ pc'[t] = "find"
        /\ \A u \in Thread \ {t} : pc'[u] = pc[u] /\ op'[u] = op[u]
    BY <1>1, AskMoves DEF Ask
  <2>2. \A i \in Id : inodeLock[i] # t
    BY <2>1, BackupAssumption DEF IInv, LockInv, NoOne
  <2>3. \A h \in Handle : handleLock[h] # t
    BY <2>1, BackupAssumption DEF IInv, LockInv, NoOne
  <2> QED BY <2>1, <2>2, <2>3, LockKept DEF UnderHandle
<1>2. ASSUME NEW t \in Thread, Serve(t) PROVE LockInv'
  <2>1. \A u \in Thread \ {t} : pc'[u] = pc[u] /\ op'[u] = op[u] /\ found'[u] = found[u]
    BY <1>2, ServeMoves DEF Moved
  <2> QED BY <1>2, <2>1, ServeInodeLocks, ServeHandleLocks, LockKept
<1>3. ASSUME UNCHANGED <<inodeLock, handleLock, pc, op, found>> PROVE LockInv'
  BY <1>3 DEF IInv, LockInv
<1>4. ASSUME NEW i \in Id, Forget(i) \/ ForgetInode(i) PROVE LockInv'
  BY <1>3, <1>4 DEF Forget, ForgetInode
<1> QED BY <1>1, <1>2, <1>3, <1>4 DEF Next, Quiet, vars

------------------------------------------------------------------------------
(* The contents of files                                                   *)

\* The empty prefix of a sequence.
LEMMA NoPrefix ==
    ASSUME NEW S, NEW W \in Seq(S) PROVE <<>> = SubSeq(W, 1, 0) /\ 0 <= Len(W)
  OBVIOUS

\* All of a sequence.
LEMMA WholePrefix ==
    ASSUME NEW S, NEW W \in Seq(S) PROVE SubSeq(W, 1, Len(W)) = W
  OBVIOUS

\* A prefix and the elements that follow are a longer prefix.
LEMMA PrefixAnd ==
    ASSUME NEW S, NEW W \in Seq(S), NEW s \in Seq(S), s = SubSeq(W, 1, Len(s)),
           NEW more \in Seq(S), Len(s) + Len(more) <= Len(W),
           \A k \in 1..Len(more) : more[k] = W[Len(s) + k]
    PROVE  s \o more = SubSeq(W, 1, Len(s) + Len(more))
<1> DEFINE all == SubSeq(W, 1, Len(s) + Len(more))
<1>1. Len(s) \in Nat /\ Len(more) \in Nat
  OBVIOUS
<1>2. /\ all \in Seq(S) /\ Len(all) = Len(s) + Len(more)
      /\ \A k \in 1..(Len(s) + Len(more)) : all[k] = W[k]
  OBVIOUS
<1>3. \A k \in 1..Len(s) : s[k] = W[k]
  OBVIOUS
<1> HIDE DEF all
<1>4. /\ s \o more \in Seq(S) /\ Len(s \o more) = Len(s) + Len(more)
      /\ \A k \in 1..(Len(s) + Len(more)) :
            (s \o more)[k] = IF k <= Len(s) THEN s[k] ELSE more[k - Len(s)]
  BY ConcatProperties
<1>5. ASSUME NEW k \in 1..(Len(s) + Len(more)) PROVE (s \o more)[k] = all[k]
  <2>1. all[k] = W[k] /\ k \in Nat /\ 1 <= k /\ k <= Len(s) + Len(more)
    BY <1>1, <1>2
  <2>2. CASE k <= Len(s)
    <3>1. k \in 1..Len(s) /\ (s \o more)[k] = s[k]
      BY <1>1, <1>4, <2>1, <2>2
    <3> QED BY <1>3, <2>1, <3>1
  <2>3. CASE ~(k <= Len(s))
    <3>1. k - Len(s) \in 1..Len(more) /\ Len(s) + (k - Len(s)) = k
      BY <1>1, <2>1, <2>3
    <3>2. (s \o more)[k] = more[k - Len(s)]
      BY <1>4, <2>3
    <3> QED BY <2>1, <3>1, <3>2
  <2> QED BY <2>2, <2>3
<1>6. s \o more = all
  BY <1>2, <1>4, <1>5, SeqEqual
<1> QED BY <1>6 DEF all

\* A prefix and the next element.
LEMMA PrefixGrows ==
    ASSUME NEW S, NEW W \in Seq(S), NEW s \in Seq(S), s = SubSeq(W, 1, Len(s)),
           Len(s) < Len(W)
    PROVE  /\ Append(s, W[Len(s) + 1]) = SubSeq(W, 1, Len(s) + 1)
           /\ Len(Append(s, W[Len(s) + 1])) = Len(s) + 1
<1>1. \A k \in 1..Len(s) : s[k] = W[k]
  OBVIOUS
<1> DEFINE more == Append(s, W[Len(s) + 1])
           all == SubSeq(W, 1, Len(s) + 1)
<1>2. /\ more \in Seq(S) /\ Len(more) = Len(s) + 1
      /\ \A k \in 1..(Len(s) + 1) : more[k] = W[k]
  BY <1>1
<1>3. all \in Seq(S) /\ Len(all) = Len(s) + 1 /\ \A k \in 1..(Len(s) + 1) : all[k] = W[k]
  OBVIOUS
<1> HIDE DEF more, all
<1>4. more = all
  BY <1>2, <1>3, SeqEqual
<1> QED BY <1>2, <1>4 DEF more, all

\* What a goroutine that is at a handle's file works on.
LEMMA WantedIs ==
    ASSUME IInv, NEW t \in Thread, pc[t] \in {"lockHandle", "reading", "loading"}
    PROVE  Wanted(t) \in Seq(Chunk) /\ written[t] \in Seq(Chunk)
<1>1. op[t].handle \in DOMAIN handles /\ handles \in [DOMAIN handles -> Entry]
      /\ written[t] \in Seq(Chunk)
  BY ReadsHandle DEF IInv, TypeInv, TypeOK
<1> QED BY <1>1, ScoresType DEF Wanted

\* The other steps neither start nor end a download.
LEMMA ServeLoads ==
    ASSUME IInv, NEW t \in Thread, Serve(t), ~AnonymousFile(t), ~LoadChunk(t),
           ~LoadChunkFails(t), ~FileComplete(t), ~ReleaseFileHandle(t)
    PROVE  UNCHANGED fileVars /\ pc[t] # "loading" /\ pc'[t] # "loading"
<1> USE DEF table, handleVars, fileVars, locks, stream, kernel, local
<1>a. ASSUME NEW where, Goto(t, where) PROVE pc'[t] = where
  BY <1>a, GotoIs DEF IInv
<1>b. ASSUME Answer(t) PROVE pc'[t] = "idle"
  BY <1>b, AnswerIs DEF IInv
<1>2. CASE FindInode(t) \/ OpenFile(t) \/ FindHandle(t)
  <2>1. /\ UNCHANGED fileVars /\ pc[t] = "find"
        /\ Answer(t) \/ Goto(t, "lock") \/ Goto(t, "lockHandle")
    BY <1>2, FindInodeFinds, OpenFileFinds, FindHandleFinds
       DEF FindInode, OpenFile, FindHandle
  <2> QED BY <1>a, <1>b, <2>1
<1>3. CASE \/ AnswerConstant(t) \/ ensureChildrenFails(t) \/ ReadDir(t) \/ LookUpChild(t)
           \/ lookUpFails(t) \/ AnswerLookUp(t)
  <2>1. /\ UNCHANGED fileVars /\ pc[t] \in {"locked", "register", "fill"}
        /\ Answer(t) \/ Goto(t, "register")
    BY <1>3
       DEF AnswerConstant, ensureChildrenFails, ReadDir, LookUpChild, NeedsListing,
           lookUpFails, AnswerLookUp
  <2> QED BY <1>a, <1>b, <2>1
<1>4. CASE LockInode(t) \/ lookUpOrCreateInode(t) \/ LockChild(t) \/ ensureChildren(t)
  BY <1>4, <1>a
     DEF LockInode, lookUpOrCreateInode, LockChild, ensureChildren, NeedsListing
<1>5. CASE LockHandle(t) \/ ReadFile(t)
  BY <1>5, <1>a, <1>b DEF LockHandle, ReadFile
<1> QED BY <1>2, <1>3, <1>4, <1>5 DEF Serve

\* At first no file is open.
LEMMA InitFile == Init => FileInv
<1> SUFFICES ASSUME Init PROVE FileInv
  OBVIOUS
<1>1. Loading = {} /\ DOMAIN file = {} /\ anonymous = 0
  BY DEF Init, Loading
<1> QED BY <1>1, FS_EmptySet DEF FileInv, Init

\* A step that neither starts nor ends a download and keeps the handles.
LEMMA FileKept ==
    ASSUME IInv, UNCHANGED fileVars, \A h \in DOMAIN handles : handles'[h] = handles[h],
           \A u \in Thread : pc'[u] = "loading" <=> pc[u] = "loading",
           \A u \in Thread : pc[u] = "loading" => op'[u] = op[u] /\ written'[u] = written[u]
    PROVE  FileInv'
<1> USE DEF fileVars
<1>1. FileInv /\ DOMAIN file \subseteq DOMAIN handles
  BY DEF IInv, TypeInv, TypeOK
<1>2. Loading' = Loading
  BY DEF Loading
<1>3. ASSUME NEW u \in Thread, pc'[u] = "loading"
      PROVE  /\ op'[u].handle \notin DOMAIN file /\ Len(written'[u]) <= Len(Wanted(u)')
             /\ written'[u] = SubSeq(Wanted(u)', 1, Len(written'[u]))
  <2>1. pc[u] = "loading" /\ op'[u] = op[u] /\ written'[u] = written[u]
    BY <1>3
  <2>2. Wanted(u)' = Wanted(u)
    BY <2>1, ReadsHandle DEF Wanted
  <2> QED BY <1>1, <2>1, <2>2 DEF FileInv
<1>4. \A h \in DOMAIN file : file[h] = Scores[handles'[h]]
  BY <1>1 DEF FileInv
<1> QED BY <1>1, <1>2, <1>3, <1>4 DEF FileInv

\* Every step keeps the files whole and the anonymous files accounted for.
LEMMA NextFile == IInv /\ [Next]_vars => FileInv'
<1> SUFFICES ASSUME IInv, [Next]_vars PROVE FileInv'
  OBVIOUS
<1> USE DEF table, handleVars, fileVars, locks, stream, kernel, local
<1>0. /\ FileInv /\ DOMAIN file \subseteq DOMAIN handles /\ LockInv
      /\ IsFiniteSet(Loading) /\ IsFiniteSet(DOMAIN file)
      /\ Cardinality(Loading) \in Nat /\ Cardinality(DOMAIN file) \in Nat
      /\ anonymous = Cardinality(DOMAIN file) + Cardinality(Loading)
  BY FS_CardinalityType DEF IInv, FileInv, TypeInv, TypeOK
\* The download of a goroutine that goes on with it, when the handles its
\* file belongs to are the same.
<1>k. ASSUME NEW u \in Thread, pc[u] = "loading", op'[u] = op[u], written'[u] = written[u],
             handles'[op[u].handle] = handles[op[u].handle],
             op[u].handle \notin DOMAIN file'
      PROVE  /\ op'[u].handle \notin DOMAIN file' /\ Len(written'[u]) <= Len(Wanted(u)')
             /\ written'[u] = SubSeq(Wanted(u)', 1, Len(written'[u]))
  <2>1. Wanted(u)' = Wanted(u)
    BY <1>k DEF Wanted
  <2> QED BY <1>0, <1>k, <2>1 DEF FileInv
<1>1. ASSUME NEW t \in Thread, NEW o \in Request, Ask(t, o) PROVE FileInv'
  <2>1. /\ UNCHANGED <<fileVars, handles, written>> /\ pc[t] = "idle" /\ pc'[t] = "find"
        /\ \A u \in Thread \ {t} : pc'[u] = pc[u] /\ op'[u] = op[u]
    BY <1>1, AskMoves DEF Ask
  <2> QED BY <2>1, FileKept
<1>2. ASSUME NEW i \in Id, Forget(i) \/ ForgetInode(i) PROVE FileInv'
  <2>1. UNCHANGED <<fileVars, handles, local>>
    BY <1>2 DEF Forget, ForgetInode
  <2> QED BY <2>1, FileKept
<1>3. CASE UNCHANGED vars
  BY <1>3, FileKept DEF vars
<1>4. ASSUME NEW t \in Thread, AnonymousFile(t) PROVE FileInv'
  <2>1. /\ pc[t] = "reading" /\ op[t].handle \notin DOMAIN file
        /\ anonymous' = anonymous + 1
        /\ written'[t] = <<>> /\ pc'[t] = "loading" /\ UNCHANGED <<op, handles, file>>
        /\ \A u \in Thread \ {t} : pc'[u] = pc[u] /\ written'[u] = written[u]
    BY <1>4, GotoIs DEF AnonymousFile, IInv, TypeInv
  <2>2. Loading' = Loading \cup {t} /\ t \notin Loading
    BY <2>1 DEF Loading
  <2>3. /\ IsFiniteSet(Loading') /\ Cardinality(Loading') = Cardinality(Loading) + 1
    BY <1>0, <2>2, FS_AddElement
  <2>4. anonymous' = Cardinality(DOMAIN file') + Cardinality(Loading')
    BY <1>0, <2>1, <2>3
  <2>5. ASSUME NEW u \in Thread, pc'[u] = "loading"
        PROVE  /\ op'[u].handle \notin DOMAIN file' /\ Len(written'[u]) <= Len(Wanted(u)')
               /\ written'[u] = SubSeq(Wanted(u)', 1, Len(written'[u]))
    <3>1. CASE u = t
      <4>1. Wanted(t)' = Wanted(t) /\ Wanted(t) \in Seq(Chunk)
        BY <2>1, WantedIs DEF Wanted
      <4>2. Len(written'[t]) = 0
        BY <2>1
      <4> QED BY <2>1, <3>1, <4>1, <4>2, NoPrefix
    <3>2. CASE u # t
      BY <1>0, <1>k, <2>1, <2>5, <3>2 DEF FileInv
    <3> QED BY <3>1, <3>2
  <2> QED BY <1>0, <2>1, <2>3, <2>4, <2>5 DEF FileInv
<1>5. ASSUME NEW t \in Thread, LoadChunk(t) PROVE FileInv'
  <2> DEFINE s == Append(written[t], Wanted(t)[Len(written[t]) + 1])
  <2>1. /\ pc[t] = "loading" /\ Len(written[t]) < Len(Wanted(t)) /\ written'[t] = s
        /\ UNCHANGED <<op, pc, handles, fileVars>>
        /\ \A u \in Thread \ {t} : written'[u] = written[u]
    BY <1>5 DEF LoadChunk, IInv, TypeInv
  <2>2. written[t] \in Seq(Chunk) /\ Wanted(t) \in Seq(Chunk)
    BY <2>1, WantedIs
  <2>3. /\ op[t].handle \notin DOMAIN file
        /\ written[t] = SubSeq(Wanted(t), 1, Len(written[t]))
    BY <1>0, <2>1 DEF FileInv
  <2>4. s = SubSeq(Wanted(t), 1, Len(written[t]) + 1) /\ Len(s) = Len(written[t]) + 1
    BY <2>1, <2>2, <2>3, PrefixGrows
  <2>5. Len(written[t]) \in Nat /\ Len(Wanted(t)) \in Nat
    BY <2>2
  <2> HIDE DEF s
  <2>6. Wanted(t)' = Wanted(t) /\ Loading' = Loading
    BY <2>1 DEF Wanted, Loading
  <2>7. ASSUME NEW u \in Thread, pc'[u] = "loading"
        PROVE  /\ op'[u].handle \notin DOMAIN file' /\ Len(written'[u]) <= Len(Wanted(u)')
               /\ written'[u] = SubSeq(Wanted(u)', 1, Len(written'[u]))
    <3>1. CASE u = t
      BY <2>1, <2>3, <2>4, <2>5, <2>6, <3>1
    <3>2. CASE u # t
      BY <1>0, <1>k, <2>1, <2>7, <3>2 DEF FileInv
    <3> QED BY <3>1, <3>2
  <2> QED BY <1>0, <2>1, <2>6, <2>7 DEF FileInv
\* A download that ends.
<1>6. ASSUME NEW t \in Thread, LoadChunkFails(t) PROVE FileInv'
  <2>1. /\ pc[t] = "loading" /\ anonymous' = anonymous - 1 /\ pc'[t] = "idle"
        /\ UNCHANGED <<file, handles>>
        /\ \A u \in Thread \ {t} : /\ pc'[u] = pc[u] /\ op'[u] = op[u]
                                   /\ written'[u] = written[u]
    BY <1>6, AnswerIs DEF LoadChunkFails, IInv
  <2>2. Loading' = Loading \ {t} /\ t \in Loading
    BY <2>1 DEF Loading
  <2>3. IsFiniteSet(Loading') /\ Cardinality(Loading') = Cardinality(Loading) - 1
    BY <1>0, <2>2, FS_RemoveElement
  <2>4. anonymous' = Cardinality(DOMAIN file') + Cardinality(Loading')
    BY <1>0, <2>1, <2>3
  <2>5. ASSUME NEW u \in Thread, pc'[u] = "loading"
        PROVE  /\ op'[u].handle \notin DOMAIN file' /\ Len(written'[u]) <= Len(Wanted(u)')
               /\ written'[u] = SubSeq(Wanted(u)', 1, Len(written'[u]))
    <3>1. u # t
      BY <2>1, <2>5
    <3> QED BY <1>0, <1>k, <2>1, <2>5, <3>1 DEF FileInv
  <2> QED BY <1>0, <2>1, <2>3, <2>4, <2>5 DEF FileInv
<1>7. ASSUME NEW t \in Thread, FileComplete(t) PROVE FileInv'
  <2>0. pc[t] = "loading" /\ Len(written[t]) = Len(Wanted(t))
    BY <1>7 DEF FileComplete
  <2>1. PICK h \in Handle : h = op[t].handle /\ h \in DOMAIN handles
    BY <2>0, ReadsHandle
  <2>2. /\ file' = With(file, h, written[t]) /\ pc'[t] = "reading"
        /\ UNCHANGED <<anonymous, handles, op, written>>
        /\ \A u \in Thread \ {t} : pc'[u] = pc[u]
    BY <1>7, <2>1, GotoIs DEF FileComplete, IInv
  <2>3. h \notin DOMAIN file /\ written[t] = SubSeq(Wanted(t), 1, Len(Wanted(t)))
    BY <1>0, <2>0, <2>1 DEF FileInv
  <2>4. /\ DOMAIN file' = DOMAIN file \cup {h} /\ file'[h] = written[t]
        /\ \A k \in DOMAIN file : file'[k] = file[k]
    BY <2>2, <2>3 DEF With
  <2>5. written[t] = Scores[handles[h]]
    BY <2>0, <2>1, <2>3, WantedIs, WholePrefix DEF Wanted
  <2>6. Loading' = Loading \ {t} /\ t \in Loading
    BY <2>0, <2>2 DEF Loading
  <2>7. IsFiniteSet(Loading') /\ Cardinality(Loading') = Cardinality(Loading) - 1
    BY <1>0, <2>6, FS_RemoveElement
  <2>8. /\ IsFiniteSet(DOMAIN file')
        /\ Cardinality(DOMAIN file') = Cardinality(DOMAIN file) + 1
    BY <1>0, <2>3, <2>4, FS_AddElement
  <2>9. anonymous' = Cardinality(DOMAIN file') + Cardinality(Loading')
    BY <1>0, <2>2, <2>7, <2>8
  <2>10. \A k \in DOMAIN file' : file'[k] = Scores[handles'[k]]
    BY <1>0, <2>2, <2>4, <2>5 DEF FileInv
  <2>11. ASSUME NEW u \in Thread, pc'[u] = "loading"
         PROVE  /\ op'[u].handle \notin DOMAIN file' /\ Len(written'[u]) <= Len(Wanted(u)')
                /\ written'[u] = SubSeq(Wanted(u)', 1, Len(written'[u]))
    <3>1. u # t /\ pc[u] = "loading"
      BY <2>2, <2>11
    <3>2. handleLock[h] = t /\ handleLock[op[u].handle] = u
      BY <1>0, <2>0, <2>1, <3>1 DEF LockInv
    <3>3. op[u].handle \notin DOMAIN file'
      BY <1>0, <2>4, <3>1, <3>2 DEF FileInv
    <3> QED BY <1>k, <2>2, <3>1, <3>3
  <2> QED BY <2>7, <2>8, <2>9, <2>10, <2>11 DEF FileInv
\* Nobody reads or loads a file that is released.
<1>8. ASSUME NEW t \in Thread, ReleaseFileHandle(t) PROVE FileInv'
  <2>0. pc[t] = "find" /\ op[t].kind = "release" /\ op[t] \in Request \cup {NoRequest}
    BY <1>8 DEF ReleaseFileHandle, IInv, TypeInv, TypeOK
  <2>1. PICK h \in Handle : h = op[t].handle
    BY <2>0, RequestFields, Kinds
  <2>2. /\ anonymous' = IF h \in DOMAIN file THEN anonymous - 1 ELSE anonymous
        /\ file' = Without(file, h) /\ handles' = Without(handles, h) /\ Answer(t)
    BY <1>8, <2>1, ReleaseFinds
  <2>3. /\ DOMAIN file' = DOMAIN file \ {h} /\ \A k \in DOMAIN file' : file'[k] = file[k]
        /\ DOMAIN handles' = DOMAIN handles \ {h}
        /\ \A k \in DOMAIN handles' : handles'[k] = handles[k]
    BY <2>2 DEF Without
  <2>4. /\ pc'[t] = "idle"
        /\ \A u \in Thread \ {t} : /\ pc'[u] = pc[u] /\ op'[u] = op[u]
                                   /\ written'[u] = written[u]
    BY <2>2, AnswerIs DEF IInv
  <2>5. Loading' = Loading
    BY <2>0, <2>4 DEF Loading
  <2>6. /\ IsFiniteSet(DOMAIN file')
        /\ Cardinality(DOMAIN file') =
              IF h \in DOMAIN file THEN Cardinality(DOMAIN file) - 1
              ELSE Cardinality(DOMAIN file)
    BY <1>0, <2>3, FS_RemoveElement
  <2>7. anonymous' = Cardinality(DOMAIN file') + Cardinality(Loading')
    BY <1>0, <2>2, <2>5, <2>6
  <2>8. ASSUME NEW u \in Thread, pc'[u] = "loading"
        PROVE  /\ op'[u].handle \notin DOMAIN file' /\ Len(written'[u]) <= Len(Wanted(u)')
               /\ written'[u] = SubSeq(Wanted(u)', 1, Len(written'[u]))
    <3>1. u # t /\ pc[u] = "loading" /\ op[u].kind = "read"
      BY <2>4, <2>8 DEF IInv, PlaceInv
    <3>2. op[u].handle # h /\ op[u].handle \in DOMAIN handles
      BY <2>0, <2>1, <3>1, Kinds DEF IInv, UseInv
    <3>3. op[u].handle \notin DOMAIN file
      BY <1>0, <3>1 DEF FileInv
    <3> QED BY <1>k, <2>3, <2>4, <3>1, <3>2, <3>3
  <2>9. \A k \in DOMAIN file' : file'[k] = Scores[handles'[k]]
    BY <1>0, <2>3 DEF FileInv
  <2> QED BY <1>0, <2>5, <2>6, <2>7, <2>8, <2>9 DEF FileInv
<1>9. ASSUME NEW t \in Thread, Serve(t), ~AnonymousFile(t), ~LoadChunk(t),
             ~LoadChunkFails(t), ~FileComplete(t), ~ReleaseFileHandle(t)
      PROVE  FileInv'
  <2>1. UNCHANGED fileVars /\ pc[t] # "loading" /\ pc'[t] # "loading"
    BY <1>9, ServeLoads
  <2>2. \A u \in Thread \ {t} : /\ pc'[u] = pc[u] /\ op'[u] = op[u]
                                /\ written'[u] = written[u]
    BY <1>9, ServeMoves DEF Moved
  <2>3. \A h \in DOMAIN handles : handles'[h] = handles[h]
    <3>1. CASE OpenFile(t)
      <4>1. handles' = With(handles, nextHandleID, made[op[t].inode])
        BY <3>1, OpenFileFinds
      <4>2. nextHandleID \notin DOMAIN handles
        BY DEF IInv, SizeInv, TypeInv, TypeOK
      <4> QED BY <4>1, <4>2 DEF With
    <3>2. CASE ~OpenFile(t)
      BY <1>9, <3>2, ServeTouches
    <3> QED BY <3>1, <3>2
  <2> QED BY <2>1, <2>2, <2>3, FileKept
<1> QED
  BY <1>1, <1>2, <1>3, <1>4, <1>5, <1>6, <1>7, <1>8, <1>9 DEF Next, Quiet

------------------------------------------------------------------------------
(* Directory streams                                                       *)

\* What is left of a sequence from a place on.
LEMMA SuffixIs ==
    ASSUME NEW D, NEW p \in Nat, NEW m \in Nat, p <= m
    PROVE  /\ Len(SubSeq(D, p + 1, m)) = m - p
           /\ \A k \in 1..(m - p) : SubSeq(D, p + 1, m)[k] = D[p + k]
<1> DEFINE R == {D[k] : k \in (p + 1)..m}
<1>1. \A k \in (p + 1)..m : D[k] \in R
  OBVIOUS
<1>2. p + 1 \in Int /\ m \in Int
  OBVIOUS
<1> HIDE DEF R
<1>3. /\ Len(SubSeq(D, p + 1, m)) = IF p + 1 <= m THEN m - (p + 1) + 1 ELSE 0
      /\ \A k \in 1..(m - (p + 1) + 1) : SubSeq(D, p + 1, m)[k] = D[p + 1 + k - 1]
  BY <1>1, <1>2, SubSeqProperties
<1>4. m - (p + 1) + 1 = m - p /\ (IF p + 1 <= m THEN m - p ELSE 0) = m - p
  OBVIOUS
<1>5. \A k \in 1..(m - p) : p + 1 + k - 1 = p + k
  OBVIOUS
<1> QED BY <1>3, <1>4, <1>5

\* What one read of a directory adds to its stream.
LEMMA ReadDirGrows ==
    ASSUME IInv, NEW t \in Thread, NEW i \in Id, i = op[t].inode, ReadDir(t),
           ~UNCHANGED stream
    PROVE  \E more \in Seq(Entry) :
              /\ seen' = [seen EXCEPT ![i] = @ \o more]
              /\ pos' = [pos EXCEPT ![i] = Len(seen[i]) + Len(more)]
              /\ Len(seen[i]) + Len(more) <= Len(Listing[made[i]])
              /\ seen[i] \o more =
                    SubSeq(Listing[made[i]], 1, Len(seen[i]) + Len(more))
<1> DEFINE j == op[t].inode
           L == Listing[made[j]]
           D == Dirents(j)
           p == Len(seen[j])
           rest == SubSeq(D, pos[j] + 1, Len(D))
<1>1. PICK n \in 1..Len(rest) :
         /\ seen' = [seen EXCEPT ![j] = @ \o [k \in 1..n |-> rest[k].entry]]
         /\ pos' = [pos EXCEPT ![j] = rest[n].offset]
  BY DEF ReadDir
<1> DEFINE more == [k \in 1..n |-> rest[k].entry]
<1>2. seen' = [seen EXCEPT ![j] = @ \o more]
  BY <1>1
<1>3. /\ L \in Seq(Entry) /\ p \in Nat /\ p = pos[j] /\ p <= Len(L) /\ Len(L) \in Nat
      /\ seen[j] \in Seq(Entry) /\ seen[j] = SubSeq(L, 1, p)
  <2>1. made[i] \in Entry /\ seen[i] \in Seq(Entry) /\ StreamInv /\ j = i
    BY DEF IInv, TypeInv, TypeOK
  <2> QED BY <2>1, ScoresType DEF StreamInv
<1>4. D = [k \in 1..Len(L) |-> [entry |-> L[k], offset |-> k]]
  BY DEF Dirents
<1> HIDE DEF more, rest, D, L, j
<1>5. Len(D) = Len(L) /\ \A k \in 1..Len(L) : D[k].entry = L[k] /\ D[k].offset = k
  BY <1>3, <1>4
<1>6. rest = SubSeq(D, p + 1, Len(L))
  BY <1>3, <1>5 DEF rest
<1> HIDE DEF p
<1>7. /\ Len(SubSeq(D, p + 1, Len(L))) = Len(L) - p
      /\ \A k \in 1..(Len(L) - p) : SubSeq(D, p + 1, Len(L))[k] = D[p + k]
  BY <1>3, SuffixIs
<1>8. /\ n \in 1..(Len(L) - p) /\ n \in Nat /\ p + n <= Len(L)
  BY <1>1, <1>3, <1>6, <1>7
<1>9. ASSUME NEW k \in 1..n PROVE rest[k].entry = L[p + k] /\ rest[k].offset = p + k
  <2>1. k \in 1..(Len(L) - p) /\ p + k \in 1..Len(L)
    BY <1>3, <1>8
  <2> QED BY <1>5, <1>6, <1>7, <2>1
<1>10. more \in Seq(Entry) /\ Len(more) = n /\ \A k \in 1..Len(more) : more[k] = L[p + k]
  <2>1. \A k \in 1..n : p + k \in 1..Len(L)
    BY <1>3, <1>8
  <2>3. \A k \in 1..Len(L) : L[k] \in Entry
    BY <1>3
  <2>2. \A k \in 1..n : rest[k].entry \in Entry
    BY <1>9, <2>1, <2>3
  <2> QED BY <1>8, <1>9, <2>2 DEF more
<1>11. rest[n].offset = p + n
  BY <1>8, <1>9
<1>12. seen[j] \o more = SubSeq(L, 1, p + Len(more))
  <2>1. p = Len(seen[j]) /\ p + Len(more) <= Len(L)
    BY <1>8, <1>10 DEF p
  <2>2. /\ L \in Seq(Entry) /\ seen[j] \in Seq(Entry) /\ more \in Seq(Entry)
        /\ seen[j] = SubSeq(L, 1, Len(seen[j])) /\ Len(seen[j]) + Len(more) <= Len(L)
        /\ \A k \in 1..Len(more) : more[k] = L[Len(seen[j]) + k]
    BY <1>3, <1>10, <2>1
  <2> QED BY <2>1, <2>2, PrefixAnd
<1>13. /\ pos' = [pos EXCEPT ![j] = p + Len(more)] /\ p + Len(more) <= Len(L)
  BY <1>1, <1>8, <1>10, <1>11
<1>14. j = i
  BY DEF j
<1> QED BY <1>2, <1>10, <1>12, <1>13, <1>14 DEF L, p

\* The other steps leave the streams alone.
LEMMA ServeStreams ==
    ASSUME IInv, NEW t \in Thread, Serve(t), ~ReadDir(t)
    PROVE  UNCHANGED stream
<1> USE DEF table, handleVars, fileVars, locks, stream, kernel, local
<1>1. CASE FindInode(t) \/ OpenFile(t) \/ FindHandle(t) \/ ReleaseFileHandle(t)
  BY <1>1, FindInodeFinds, OpenFileFinds, FindHandleFinds, ReleaseFinds
<1>2. CASE \/ LockInode(t) \/ AnswerConstant(t)
           \/ ensureChildren(t) \/ ensureChildrenFails(t)
           \/ LookUpChild(t) \/ lookUpFails(t) \/ lookUpOrCreateInode(t)
           \/ LockChild(t) \/ AnswerLookUp(t)
  BY <1>2
     DEF LockInode, AnswerConstant, ensureChildren, ensureChildrenFails,
         LookUpChild, lookUpFails, lookUpOrCreateInode, LockChild, AnswerLookUp
<1>3. CASE \/ LockHandle(t) \/ AnonymousFile(t) \/ LoadChunk(t) \/ LoadChunkFails(t)
           \/ FileComplete(t) \/ ReadFile(t)
  BY <1>3
     DEF LockHandle, AnonymousFile, LoadChunk, LoadChunkFails, FileComplete, ReadFile
<1> QED BY <1>1, <1>2, <1>3 DEF Serve

\* At first no directory was read.
LEMMA InitStream == Init => StreamInv
<1> SUFFICES ASSUME Init, NEW i \in Id
             PROVE  /\ seen[i] = <<>> /\ pos[i] = 0 /\ made[i] \in Entry
  BY ScoresType, NoPrefix DEF StreamInv
<1> QED BY BackupAssumption DEF Init

\* Every step keeps streams at a prefix of their listings.
LEMMA NextStream == IInv /\ [Next]_vars => StreamInv'
<1> SUFFICES ASSUME IInv, [Next]_vars PROVE StreamInv'
  OBVIOUS
<1> USE DEF table, handleVars, fileVars, locks, stream, kernel, local
<1>0. /\ StreamInv /\ known \in [Id -> Nat]
      /\ count \in [Id -> Nat] /\ made \in [Id -> Entry]
      /\ seen \in [Id -> Seq(Entry)] /\ pos \in [Id -> Nat]
      /\ op \in [Thread -> Request \cup {NoRequest}]
      /\ \A t \in Thread : found[t] \in Entry /\ Inode[found[t]] \in Id
  BY DEF IInv, TypeInv, TypeOK, Id
<1>1. ASSUME UNCHANGED <<stream, made>>, \A i \in Id : known'[i] = 0 => known[i] = 0
      PROVE  StreamInv'
  BY <1>0, <1>1 DEF StreamInv
<1>2. ASSUME NEW t \in Thread, NEW o \in Request, Ask(t, o) PROVE StreamInv'
  BY <1>1, <1>2 DEF Ask
<1>3. ASSUME NEW i \in Id, Forget(i) PROVE StreamInv'
  <2>1. /\ known' = [known EXCEPT ![i] = 0] /\ seen' = [seen EXCEPT ![i] = <<>>]
        /\ pos' = [pos EXCEPT ![i] = 0] /\ made' = made
    BY <1>3 DEF Forget
  <2>2. seen'[i] = <<>> /\ pos'[i] = 0 /\ Len(seen'[i]) = 0
    BY <1>0, <2>1
  <2>3. \A j \in Id \ {i} : seen'[j] = seen[j] /\ pos'[j] = pos[j] /\ known'[j] = known[j]
    BY <1>0, <2>1
  <2>4. <<>> = SubSeq(Listing[made[i]], 1, 0) /\ 0 <= Len(Listing[made[i]])
    BY <1>0, ScoresType, NoPrefix
  <2> QED BY <1>0, <2>1, <2>2, <2>3, <2>4 DEF StreamInv
<1>4. ASSUME NEW i \in Id, ForgetInode(i) PROVE StreamInv'
  BY <1>1, <1>4, ForgetFinds
<1>5. ASSUME NEW t \in Thread, ReadDir(t) PROVE StreamInv'
  <2>1. UNCHANGED <<made, known>> /\ op[t].kind = "readdir"
    BY <1>5 DEF ReadDir
  <2>2. PICK i \in Id : i = op[t].inode
    BY <1>0, <2>1, RequestFields DEF InodeKinds, LookUpKinds
  <2>3. CASE UNCHANGED stream
    BY <1>1, <2>1, <2>3
  <2>4. CASE ~UNCHANGED stream
    <3> DEFINE L == Listing[made[i]]
    <3>1. PICK more \in Seq(Entry) :
             /\ seen' = [seen EXCEPT ![i] = @ \o more]
             /\ pos' = [pos EXCEPT ![i] = Len(seen[i]) + Len(more)]
             /\ Len(seen[i]) + Len(more) <= Len(L)
             /\ seen[i] \o more = SubSeq(L, 1, Len(seen[i]) + Len(more))
      BY <1>5, <2>2, <2>4, ReadDirGrows
    <3>2. seen[i] \in Seq(Entry)
      BY <1>0
    <3> HIDE DEF L
    <3>3. Len(seen[i] \o more) = Len(seen[i]) + Len(more)
      BY <3>2, ConcatProperties
    <3>4. seen'[i] = seen[i] \o more /\ pos'[i] = Len(seen[i]) + Len(more)
      BY <1>0, <3>1
    <3>6. \A j \in Id \ {i} : seen'[j] = seen[j] /\ pos'[j] = pos[j]
      BY <1>0, <3>1
    <3>7. known[i] > 0
      BY <2>1, <2>2 DEF IInv, UseInv, InodeKinds, LookUpKinds
    <3>8. /\ pos'[i] = Len(seen'[i]) /\ Len(seen'[i]) <= Len(Listing[made[i]])
          /\ seen'[i] = SubSeq(Listing[made[i]], 1, Len(seen'[i]))
      BY <3>1, <3>3, <3>4 DEF L
    <3> QED BY <1>0, <2>1, <3>6, <3>7, <3>8 DEF StreamInv
  <2> QED BY <2>3, <2>4
\* A number that is given to another entry is of an inode the kernel does not
\* know, of which no stream is left.
<1>6. ASSUME NEW t \in Thread, lookUpOrCreateInode(t) PROVE StreamInv'
  <2>1. PICK i \in Id : i = Inode[found[t]]
    BY <1>0
  <2>2. /\ made' = [made EXCEPT ![i] = IF i \in inodes THEN @ ELSE found[t]]
        /\ UNCHANGED <<stream, known>>
    BY <1>6, <2>1 DEF lookUpOrCreateInode
  <2>3. CASE i \in inodes
    <3>1. made' = made
      BY <1>0, <2>2, <2>3
    <3> QED BY <1>1, <2>2, <3>1
  <2>4. CASE i \notin inodes
    <3>1. known[i] = 0
      <4>1. /\ count[i] = known[i] + forgetting[i] + Cardinality(Registered(i))
            /\ ~(count[i] > 0) /\ forgetting[i] \in Nat
            /\ Cardinality(Registered(i)) \in Nat
        BY <2>4, FS_CardinalityType DEF IInv, CountInv, TypeInv, TypeOK
      <4> QED BY <1>0, <4>1
    <3>2. seen[i] = <<>> /\ pos[i] = 0 /\ Len(seen[i]) = 0
      BY <1>0, <3>1 DEF StreamInv
    <3>3. made'[i] \in Entry /\ \A j \in Id \ {i} : made'[j] = made[j]
      BY <1>0, <2>2
    <3>4. <<>> = SubSeq(Listing[made'[i]], 1, 0) /\ 0 <= Len(Listing[made'[i]])
      BY <3>3, ScoresType, NoPrefix
    <3> QED BY <1>0, <2>2, <3>2, <3>3, <3>4 DEF StreamInv
  <2> QED BY <2>3, <2>4
<1>7. ASSUME NEW t \in Thread, Serve(t), ~ReadDir(t), ~lookUpOrCreateInode(t)
      PROVE  StreamInv'
  <2>1. CASE AnswerLookUp(t)
    <3>1. known' = [known EXCEPT ![Inode[found[t]]] = @ + 1] /\ UNCHANGED <<stream, made>>
      BY <2>1 DEF AnswerLookUp
    <3>2. \A i \in Id : known'[i] = 0 => known[i] = 0
      BY <1>0, <3>1
    <3> QED BY <1>1, <3>1, <3>2
  <2>2. CASE ~AnswerLookUp(t)
    BY <1>1, <1>7, <2>2, ServeStreams, ServeRegisters, ServeTouches
  <2> QED BY <2>1, <2>2
<1>8. CASE UNCHANGED vars
  BY <1>1, <1>8 DEF vars
<1> QED BY <1>2, <1>3, <1>4, <1>5, <1>6, <1>7, <1>8 DEF Next, Quiet

------------------------------------------------------------------------------
(* Types                                                                   *)

\* The initial state is of the right type, with nobody at work.
LEMMA InitType == Init => TypeInv /\ PlaceInv
<1> SUFFICES ASSUME Init PROVE TypeInv /\ PlaceInv
  OBVIOUS
<1>1. Root \in Entry /\ MaxRequests \in Nat /\ RootInode \in Id
  BY BackupAssumption DEF RootInode, Id
<1>2. \A t \in Thread : pc[t] = "idle" /\ op[t] = NoRequest /\ NoRequest.kind = "none"
  BY DEF Init, NoRequest
<1>3. PlaceInv
  BY <1>2 DEF PlaceInv
<1>4. /\ handles \in [DOMAIN handles -> Entry] /\ DOMAIN handles = {} /\ DOMAIN file = {}
      /\ nextHandleID = 0 /\ anonymous = 0 /\ dead = FALSE
  BY DEF Init
<1>5. /\ count \in [Id -> Nat] /\ known \in [Id -> Nat] /\ made \in [Id -> Entry]
      /\ forgetting \in [Id -> Nat] /\ pos \in [Id -> Nat]
  BY <1>1 DEF Init
<1>6. /\ inodeLock \in [Id -> Thread \cup {NoOne}]
      /\ handleLock \in [Handle -> Thread \cup {NoOne}]
      /\ seen \in [Id -> Seq(Entry)]
  BY DEF Init
<1>7. /\ pc \in [Thread -> PCs] /\ found \in [Thread -> Entry]
      /\ op \in [Thread -> Request \cup {NoRequest}] /\ written \in [Thread -> Seq(Chunk)]
  <2>1. "idle" \in PCs /\ <<>> \in Seq(Chunk)
    BY DEF PCs
  <2> QED BY <1>1, <2>1 DEF Init
<1>8. /\ inodes \subseteq Id /\ listed \subseteq inodes
      /\ opened \subseteq Handle /\ sent \in 0..MaxRequests
  BY <1>1 DEF Init
<1> QED BY <1>3, <1>4, <1>5, <1>6, <1>7, <1>8 DEF TypeInv, TypeOK

\* Requests and the places they are served at.
LEMMA NextLocal ==
    IInv /\ [Next]_vars =>
      /\ (pc \in [Thread -> PCs])' /\ (op \in [Thread -> Request \cup {NoRequest}])'
      /\ (found \in [Thread -> Entry])' /\ (written \in [Thread -> Seq(Chunk)])'
      /\ PlaceInv'
<1> SUFFICES ASSUME IInv, [Next]_vars
             PROVE  /\ pc' \in [Thread -> PCs]
                    /\ op' \in [Thread -> Request \cup {NoRequest}]
                    /\ found' \in [Thread -> Entry] /\ written' \in [Thread -> Seq(Chunk)]
                    /\ PlaceInv'
  OBVIOUS
<1> USE DEF local
<1>0. /\ pc \in [Thread -> PCs] /\ op \in [Thread -> Request \cup {NoRequest}]
      /\ found \in [Thread -> Entry] /\ written \in [Thread -> Seq(Chunk)] /\ PlaceInv
  BY DEF IInv, TypeInv, TypeOK
<1>1. ASSUME NEW t \in Thread, NEW o \in Request, Ask(t, o)
      PROVE  /\ pc' \in [Thread -> PCs] /\ op' \in [Thread -> Request \cup {NoRequest}]
             /\ found' \in [Thread -> Entry] /\ written' \in [Thread -> Seq(Chunk)]
             /\ PlaceInv'
  BY <1>0, <1>1, AskMoves DEF Ask
<1>2. ASSUME NEW t \in Thread, Serve(t) PROVE Moved(t)
  BY <1>2, ServeMoves
<1>3. ASSUME UNCHANGED local
      PROVE  /\ pc' \in [Thread -> PCs] /\ op' \in [Thread -> Request \cup {NoRequest}]
             /\ found' \in [Thread -> Entry] /\ written' \in [Thread -> Seq(Chunk)]
             /\ PlaceInv'
  BY <1>0, <1>3 DEF PlaceInv
<1>4. ASSUME NEW i \in Id, Forget(i) \/ ForgetInode(i) PROVE UNCHANGED local
  BY <1>4 DEF Forget, ForgetInode
<1> QED BY <1>1, <1>2, <1>3, <1>4 DEF Next, Quiet, vars, Moved

\* The table of inodes.
LEMMA NextTable ==
    IInv /\ [Next]_vars =>
      (/\ inodes \subseteq Id /\ listed \subseteq inodes
       /\ count \in [Id -> Nat] /\ made \in [Id -> Entry])'
<1> SUFFICES ASSUME IInv, [Next]_vars
             PROVE  /\ inodes' \subseteq Id /\ listed' \subseteq inodes'
                    /\ count' \in [Id -> Nat] /\ made' \in [Id -> Entry]
  OBVIOUS
<1> USE DEF table, handleVars, fileVars, locks, stream, kernel, local
<1>0. /\ inodes \subseteq Id /\ listed \subseteq inodes
      /\ count \in [Id -> Nat] /\ made \in [Id -> Entry] /\ forgetting \in [Id -> Nat]
      /\ \A t \in Thread : found[t] \in Entry /\ Inode[found[t]] \in Id
  BY DEF IInv, TypeInv, TypeOK, Id
<1>1. ASSUME NEW i \in Id, ForgetInode(i)
      PROVE  /\ inodes' \subseteq Id /\ listed' \subseteq inodes'
             /\ count' \in [Id -> Nat] /\ made' \in [Id -> Entry]
  <2>1. /\ count[i] >= forgetting[i] /\ made' = made
        /\ count' = [count EXCEPT ![i] = count[i] - forgetting[i]]
        /\ inodes' \subseteq inodes /\ listed' = listed \cap inodes'
    BY <1>1, ForgetFinds
  <2>2. count[i] - forgetting[i] \in Nat
    BY <1>0, <2>1
  <2> QED BY <1>0, <2>1, <2>2
<1>2. ASSUME NEW t \in Thread, lookUpOrCreateInode(t)
      PROVE  /\ inodes' \subseteq Id /\ listed' \subseteq inodes'
             /\ count' \in [Id -> Nat] /\ made' \in [Id -> Entry]
  BY <1>0, <1>2 DEF lookUpOrCreateInode
<1>3. ASSUME NEW t \in Thread, ensureChildren(t)
      PROVE  /\ inodes' \subseteq Id /\ listed' \subseteq inodes'
             /\ count' \in [Id -> Nat] /\ made' \in [Id -> Entry]
  <2>1. op[t].inode \in inodes
    BY <1>3, InodeIsThere, Kinds
       DEF ensureChildren, NeedsListing, InodeKinds, LookUpKinds
  <2> QED BY <1>0, <1>3, <2>1 DEF ensureChildren
<1>4. ASSUME UNCHANGED table
      PROVE  /\ inodes' \subseteq Id /\ listed' \subseteq inodes'
             /\ count' \in [Id -> Nat] /\ made' \in [Id -> Entry]
  BY <1>0, <1>4
<1>5. ASSUME NEW t \in Thread, Serve(t), ~ensureChildren(t), ~lookUpOrCreateInode(t)
      PROVE  UNCHANGED table
  <2>1. CASE FindInode(t) \/ OpenFile(t) \/ FindHandle(t) \/ ReleaseFileHandle(t)
    BY <2>1, FindInodeFinds, OpenFileFinds, FindHandleFinds, ReleaseFinds
  <2>2. CASE \/ LockInode(t) \/ AnswerConstant(t) \/ ensureChildrenFails(t)
             \/ ReadDir(t) \/ LookUpChild(t) \/ lookUpFails(t)
             \/ LockChild(t) \/ AnswerLookUp(t)
    BY <2>2
       DEF LockInode, AnswerConstant, ensureChildrenFails,
           ReadDir, LookUpChild, lookUpFails, LockChild, AnswerLookUp
  <2>3. CASE \/ LockHandle(t) \/ AnonymousFile(t) \/ LoadChunk(t) \/ LoadChunkFails(t)
             \/ FileComplete(t) \/ ReadFile(t)
    BY <2>3
       DEF LockHandle, AnonymousFile, LoadChunk, LoadChunkFails, FileComplete, ReadFile
  <2> QED BY <1>5, <2>1, <2>2, <2>3 DEF Serve
<1>6. ASSUME NEW t \in Thread, NEW o \in Request, Ask(t, o) PROVE UNCHANGED table
  BY <1>6 DEF Ask
<1>7. ASSUME NEW i \in Id, Forget(i) PROVE UNCHANGED table
  BY <1>7 DEF Forget
<1> QED BY <1>1, <1>2, <1>3, <1>4, <1>5, <1>6, <1>7 DEF Next, Quiet, vars

\* The table of handles and their files.
LEMMA NextHandles ==
    IInv /\ [Next]_vars =>
      (/\ handles \in [DOMAIN handles -> Entry] /\ DOMAIN handles \subseteq Handle
       /\ nextHandleID \in Nat /\ DOMAIN file \subseteq DOMAIN handles
       /\ opened \subseteq Handle)'
<1> DEFINE T == /\ handles \in [DOMAIN handles -> Entry] /\ DOMAIN handles \subseteq Handle
                /\ nextHandleID \in Nat /\ DOMAIN file \subseteq DOMAIN handles
                /\ opened \subseteq Handle
<1> SUFFICES ASSUME IInv, [Next]_vars PROVE T'
  OBVIOUS
<1> USE DEF table, handleVars, fileVars, locks, stream, kernel, local
<1>0. T /\ made \in [Id -> Entry]
  BY DEF IInv, TypeInv, TypeOK
<1>1. ASSUME UNCHANGED <<handles, nextHandleID>>, opened' \subseteq opened,
             DOMAIN file' \subseteq DOMAIN handles
      PROVE  T'
  BY <1>0, <1>1
<1>2. ASSUME NEW t \in Thread, NEW o \in Request, Ask(t, o) PROVE T'
  BY <1>0, <1>1, <1>2 DEF Ask
<1>3. ASSUME NEW i \in Id, Forget(i) \/ ForgetInode(i) PROVE T'
  BY <1>0, <1>1, <1>3 DEF Forget, ForgetInode
<1>4. ASSUME NEW t \in Thread, OpenFile(t) PROVE T'
  <2>1. /\ op[t].inode \in Id /\ handles' = With(handles, nextHandleID, made[op[t].inode])
        /\ nextHandleID' = nextHandleID + 1 /\ opened' = opened \cup {nextHandleID}
        /\ file' = file
    BY <1>4, OpenFileFinds
  <2>2. nextHandleID \in Handle
    <3>1. /\ nextHandleID + Cardinality(Opening) <= sent /\ Cardinality(Opening) \in Nat
          /\ sent \in 0..MaxRequests /\ MaxRequests \in Nat
      BY FS_CardinalityType, BackupAssumption DEF IInv, SizeInv, TypeInv, TypeOK
    <3> QED BY <1>0, <3>1 DEF Handle
  <2>3. /\ DOMAIN handles' = DOMAIN handles \cup {nextHandleID}
        /\ handles' \in [DOMAIN handles' -> Entry]
    BY <1>0, <2>1 DEF With
  <2> QED BY <1>0, <2>1, <2>2, <2>3
<1>5. ASSUME NEW t \in Thread, ReleaseFileHandle(t) PROVE T'
  <2>1. PICK h : h = op[t].handle
    OBVIOUS
  <2>2. /\ file' = Without(file, h) /\ handles' = Without(handles, h)
        /\ UNCHANGED <<nextHandleID, opened>>
    BY <1>5, <2>1, ReleaseFinds
  <2> QED BY <1>0, <2>2 DEF Without
<1>6. ASSUME NEW t \in Thread, FileComplete(t) PROVE T'
  <2>1. op[t].handle \in DOMAIN handles
    BY <1>6, ReadsHandle DEF FileComplete
  <2>2. /\ DOMAIN file' = DOMAIN file \cup {op[t].handle}
        /\ UNCHANGED <<handles, nextHandleID, opened>>
    BY <1>6 DEF FileComplete, With
  <2> QED BY <1>0, <1>1, <2>1, <2>2
<1>7. ASSUME NEW t \in Thread, Serve(t),
             ~OpenFile(t), ~ReleaseFileHandle(t), ~FileComplete(t)
      PROVE  T'
  <2>1. UNCHANGED <<handles, nextHandleID, opened>>
    BY <1>7, ServeTouches
  <2>2. file' = file
    <3>1. CASE AnonymousFile(t) \/ LoadChunk(t) \/ LoadChunkFails(t)
      BY <3>1 DEF AnonymousFile, LoadChunk, LoadChunkFails
    <3> QED BY <1>7, <3>1, ServeLoads
  <2> QED BY <1>0, <1>1, <2>1, <2>2
<1>8. CASE UNCHANGED vars
  BY <1>0, <1>1, <1>8 DEF vars
<1> QED BY <1>2, <1>3, <1>4, <1>5, <1>6, <1>7, <1>8 DEF Next, Quiet

\* The locks.
LEMMA NextLocks ==
    IInv /\ [Next]_vars =>
      (/\ inodeLock \in [Id -> Thread \cup {NoOne}]
       /\ handleLock \in [Handle -> Thread \cup {NoOne}])'
<1> DEFINE T == /\ inodeLock \in [Id -> Thread \cup {NoOne}]
                /\ handleLock \in [Handle -> Thread \cup {NoOne}]
<1> SUFFICES ASSUME IInv, [Next]_vars PROVE T'
  OBVIOUS
<1> USE DEF table, handleVars, fileVars, locks, stream, kernel, local
<1>0. T /\ op \in [Thread -> Request \cup {NoRequest}]
      /\ \A t \in Thread : Inode[found[t]] \in Id
  BY DEF IInv, TypeInv, TypeOK, Id
<1>1. ASSUME NEW t \in Thread, NEW i \in Id, Unlock(t, i), handleLock' = handleLock PROVE T'
  BY <1>0, <1>1 DEF Unlock
<1>2. ASSUME UNCHANGED locks PROVE T'
  BY <1>0, <1>2
<1>3. ASSUME NEW t \in Thread, NEW o \in Request, Ask(t, o) PROVE UNCHANGED locks
  BY <1>3 DEF Ask
<1>4. ASSUME NEW i \in Id, Forget(i) \/ ForgetInode(i) PROVE UNCHANGED locks
  BY <1>4 DEF Forget, ForgetInode
<1>5. ASSUME NEW t \in Thread, Serve(t) PROVE T'
  <2>1. CASE FindInode(t) \/ OpenFile(t) \/ FindHandle(t) \/ ReleaseFileHandle(t)
    BY <1>2, <2>1, FindInodeFinds, OpenFileFinds, FindHandleFinds, ReleaseFinds
  <2>2. CASE LockInode(t) \/ LockChild(t)
    BY <1>0, <2>2 DEF LockInode, LockChild
  <2>3. CASE AnswerConstant(t) \/ ensureChildrenFails(t) \/ ReadDir(t) \/ LookUpChild(t)
    <3>1. pc[t] = "locked" /\ Unlock(t, op[t].inode) /\ handleLock' = handleLock
      BY <2>3
         DEF AnswerConstant, ensureChildrenFails, ReadDir, LookUpChild, NeedsListing
    <3>2. op[t].inode \in Id
      BY <3>1, InodeIsThere DEF IInv, PlaceInv, InodeKinds
    <3> QED BY <1>1, <3>1, <3>2
  <2>4. CASE AnswerLookUp(t)
    BY <1>0, <1>1, <2>4 DEF AnswerLookUp
  <2>5. CASE \/ ensureChildren(t) \/ lookUpFails(t) \/ lookUpOrCreateInode(t)
             \/ AnonymousFile(t) \/ LoadChunk(t) \/ FileComplete(t)
    BY <1>2, <2>5
       DEF ensureChildren, lookUpFails, lookUpOrCreateInode, AnonymousFile, LoadChunk,
           FileComplete
  <2>6. CASE LockHandle(t) \/ LoadChunkFails(t) \/ ReadFile(t)
    BY <1>0, <2>6 DEF LockHandle, LoadChunkFails, ReadFile, UnlockHandle
  <2> QED BY <1>5, <2>1, <2>2, <2>3, <2>4, <2>5, <2>6 DEF Serve
<1> QED BY <1>2, <1>3, <1>4, <1>5 DEF Next, Quiet, vars

\* The kernel's counts and streams.
LEMMA NextKernel ==
    IInv /\ [Next]_vars =>
      (/\ known \in [Id -> Nat] /\ forgetting \in [Id -> Nat] /\ sent \in 0..MaxRequests
       /\ pos \in [Id -> Nat] /\ seen \in [Id -> Seq(Entry)] /\ dead \in BOOLEAN)'
<1> DEFINE T == /\ known \in [Id -> Nat] /\ forgetting \in [Id -> Nat]
                /\ sent \in 0..MaxRequests
                /\ pos \in [Id -> Nat] /\ seen \in [Id -> Seq(Entry)] /\ dead \in BOOLEAN
<1> SUFFICES ASSUME IInv, [Next]_vars PROVE T'
  OBVIOUS
<1> USE DEF table, handleVars, fileVars, locks, stream, kernel, local
<1>0. T /\ \A t \in Thread : Inode[found[t]] \in Id
  BY DEF IInv, TypeInv, TypeOK, Id
<1>1. ASSUME NEW t \in Thread, NEW o \in Request, Ask(t, o) PROVE T'
  <2>1. /\ sent' = sent + 1 /\ sent < MaxRequests
        /\ UNCHANGED <<known, forgetting, pos, seen, dead>>
    BY <1>1 DEF Ask
  <2>2. sent' \in 0..MaxRequests
    BY <1>0, <2>1, BackupAssumption
  <2> QED BY <1>0, <2>1, <2>2
<1>2. ASSUME NEW i \in Id, Forget(i) PROVE T'
  <2>1. <<>> \in Seq(Entry) /\ known[i] \in Nat
    BY <1>0
  <2> QED BY <1>0, <1>2, <2>1 DEF Forget
<1>3. ASSUME NEW i \in Id, ForgetInode(i) PROVE T'
  <2>1. /\ forgetting' = [forgetting EXCEPT ![i] = 0]
        /\ UNCHANGED <<stream, known, sent, dead>>
    BY <1>3, ForgetFinds
  <2> QED BY <1>0, <2>1
<1>4. ASSUME NEW t \in Thread, ReadDir(t) PROVE T'
  <2>1. op[t].kind = "readdir" /\ UNCHANGED <<known, forgetting, sent, dead>>
    BY <1>4 DEF ReadDir
  <2>2. PICK i \in Id : i = op[t].inode
    BY <2>1, InodeIsThere DEF InodeKinds, LookUpKinds
  <2>3. CASE UNCHANGED stream
    BY <1>0, <2>1, <2>3
  <2>4. CASE ~UNCHANGED stream
    <3>1. PICK more \in Seq(Entry) :
             /\ seen' = [seen EXCEPT ![i] = @ \o more]
             /\ pos' = [pos EXCEPT ![i] = Len(seen[i]) + Len(more)]
      BY <1>4, <2>2, <2>4, ReadDirGrows
    <3>2. seen[i] \o more \in Seq(Entry) /\ Len(seen[i]) + Len(more) \in Nat
      BY <1>0, <3>1
    <3> QED BY <1>0, <2>1, <3>1, <3>2
  <2> QED BY <2>3, <2>4
<1>5. ASSUME NEW t \in Thread, Serve(t), ~ReadDir(t) PROVE T'
  <2>1. UNCHANGED <<stream, forgetting, sent, dead>>
    BY <1>5, ServeStreams, ServeTouches
  <2>2. known' \in [Id -> Nat]
    <3>1. CASE AnswerLookUp(t)
      BY <1>0, <3>1 DEF AnswerLookUp
    <3>2. CASE ~AnswerLookUp(t)
      BY <1>0, <1>5, <3>2, ServeTouches
    <3> QED BY <3>1, <3>2
  <2> QED BY <1>0, <2>1, <2>2
<1>6. CASE UNCHANGED vars
  BY <1>0, <1>6 DEF vars
<1> QED BY <1>1, <1>2, <1>3, <1>4, <1>5, <1>6 DEF Next, Quiet

\* Every step keeps the types.
LEMMA NextType == IInv /\ [Next]_vars => TypeInv'
<1> SUFFICES ASSUME IInv, [Next]_vars PROVE TypeInv'
  OBVIOUS
<1>1. anonymous' \in Nat
  <2>1. /\ IsFiniteSet(Loading') /\ IsFiniteSet(DOMAIN file')
        /\ anonymous' = Cardinality(DOMAIN file') + Cardinality(Loading')
    BY NextFile DEF FileInv
  <2>2. Cardinality(DOMAIN file') \in Nat /\ Cardinality(Loading') \in Nat
    BY <2>1, FS_CardinalityType
  <2> QED BY <2>1, <2>2
<1> QED BY <1>1, NextLocal, NextTable, NextHandles, NextLocks, NextKernel
           DEF TypeInv, TypeOK

------------------------------------------------------------------------------
(* The theorems                                                            *)

\* Every state of a mounted backup satisfies the invariant.
THEOREM Invariance == Spec => []IInv
<1>1. Init => IInv
  BY InitType, InitUse, InitCount, InitLock, InitFile, InitStream DEF IInv
<1>2. IInv /\ [Next]_vars => IInv'
  BY NextType, NextLocal, NextUse, NextSize, NextCount, NextLock, NextFile, NextStream
     DEF IInv
<1> QED BY <1>1, <1>2, PTL DEF Spec

\* The look-up count of an inode is what the kernel holds, plus the forgets on
\* their way, plus the look-ups registered and not yet answered, and an inode is
\* in the table exactly while its count is positive (lookUpOrCreateInode,
\* ForgetInode): a look-up and a forget that cross lose no reference.
THEOREM CountsAlwaysAgree == Spec => []CountsAgree
<1>1. IInv => CountsAgree
  BY DEF IInv, TypeInv, CountInv, CountsAgree
<1> QED BY <1>1, Invariance, PTL

\* A request never works on an inode that was forgotten or a handle that was
\* released since it looked it up, and no legal request ends the process
\* (LookUpInode, ReadFile, ReleaseFileHandle, ForgetInode's log.Fatalf).
THEOREM NothingIsUsedAfterItsEnd == Spec => []NothingUsedAfterItsEnd
<1>1. IInv => NothingUsedAfterItsEnd
  <2> SUFFICES ASSUME IInv PROVE NothingUsedAfterItsEnd
    OBVIOUS
  <2>1. ~dead
    BY DEF IInv, CountInv
  <2>2. ASSUME NEW t \in Thread, pc[t] \in {"lock", "locked"} PROVE op[t].inode \in inodes
    BY <2>2, InodeIsThere DEF IInv, PlaceInv, InodeKinds
  <2>3. ASSUME NEW t \in Thread, pc[t] \in {"lockHandle", "reading", "loading"}
        PROVE  op[t].handle \in DOMAIN handles
    BY <2>3, ReadsHandle
  <2> QED BY <2>1, <2>2, <2>3 DEF NothingUsedAfterItsEnd
<1> QED BY <1>1, Invariance, PTL

\* A directory stream has returned the listing's first entries, in order and
\* each once, and a handle's local file has the whole contents of the file it
\* was opened on (dirInode.Read, ensureFile).
THEOREM AnswersAreAlwaysRight == Spec => []AnswersAreRight
<1>1. IInv => AnswersAreRight
  BY DEF IInv, StreamInv, FileInv, AnswersAreRight
<1> QED BY <1>1, Invariance, PTL

\* Locks are held only by those at work under them, one at a time by each, and
\* the anonymous files open are those of handles and of downloads in progress
\* (the deferred Unlock and Close of dir_inode.go and file_handle.go, Destroy).
THEOREM NothingIsLeftBehind == Spec => []NothingLeftBehind
<1>1. IInv => NothingLeftBehind
  BY DEF IInv, LockInv, FileInv, Loading, NothingLeftBehind
<1> QED BY <1>1, Invariance, PTL
=============================================================================
