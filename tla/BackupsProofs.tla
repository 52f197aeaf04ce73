--------------------------- MODULE BackupsProofs ---------------------------
(***************************************************************************)
(* Proofs about Backups, for every set of processes, blobs and trees; and  *)
(* about Registry, which has the inside of what Backups takes for granted,  *)
(* that a backup is recorded in one step, for every set of commands.        *)
(***************************************************************************)
EXTENDS Backups, Registry, TLAPS

Running == {"loaded", "saving", "recorded"}

\* The type of a save in progress.
SavesRunning == [pc : Running, tree : Tree, done : SUBSET Blob, state : States]

------------------------------------------------------------------------------
(* Records                                                                 *)

LEMMA RunTypes ==
    ASSUME NEW where \in Running, NEW t \in Tree, NEW done \in SUBSET Below(t),
           NEW s \in States
    PROVE  /\ Run(where, t, done, s) \in Saves
           /\ Run(where, t, done, s).pc = where /\ Run(where, t, done, s).tree = t
           /\ Run(where, t, done, s).done = done /\ Run(where, t, done, s).state = s
<1>1. done \in SUBSET Blob
  BY TreeAssumption DEF Below
<1> QED BY <1>1 DEF Run, Saves, Running

LEMMA StateTypes ==
    ASSUME NEW e \in SUBSET Blob, NEW m \in SUBSET Blob,
           NEW r \in {"never", "recent", "old"}, NEW s,
           s = [existing |-> e, scoreMap |-> m, relist |-> r]
    PROVE  s \in States /\ s.existing = e /\ s.scoreMap = m /\ s.relist = r
BY DEF States

LEMMA StateFields ==
    ASSUME NEW s \in States
    PROVE  /\ s.existing \subseteq Blob /\ s.scoreMap \subseteq Blob
           /\ s.relist \in {"never", "recent", "old"}
BY DEF States

\* What is known of a process that is not off.
LEMMA ProcTypes ==
    ASSUME TypeOK, NEW p \in Process, proc[p].pc # "off"
    PROVE  /\ proc[p].pc \in Running /\ proc[p].tree \in Tree
           /\ proc[p].state \in States
           /\ proc[p].done \subseteq Below(proc[p].tree)
           /\ Below(proc[p].tree) \subseteq Blob
<1>1. proc[p] # Idle
  BY DEF Idle
<1>2. proc[p] \in SavesRunning
  BY <1>1 DEF TypeOK, Saves, SavesRunning, Running
<1>3. proc[p].tree \in Tree /\ proc[p].state \in States /\ proc[p].pc \in Running
  BY <1>2 DEF SavesRunning
<1>4. Below(proc[p].tree) \subseteq Blob
  BY <1>3, TreeAssumption DEF Below
<1> QED BY <1>3, <1>4 DEF TypeOK, Loaded

\* A step of one process.
LEMMA BecomeTypes ==
    ASSUME TypeOK, NEW p \in Process, NEW run \in Saves, Become(p, run)
    PROVE  /\ proc' \in [Process -> Saves] /\ proc'[p] = run
           /\ \A q \in Process \ {p} : proc'[q] = proc[q]
BY DEF TypeOK, Become

LEMMA GcTypes ==
    ASSUME TypeOK
    PROVE  /\ gc.pc = "listing" => gc.accessible \subseteq Blob
           /\ gc.pc = "moving" => gc.toClone \subseteq Blob /\ gc.toDelete \subseteq Blob
           /\ gc.pc \in {"off", "listing", "moving"}
<1>1. CASE gc = Idle
  BY <1>1 DEF Idle
<1>2. CASE gc \in [pc : {"listing"}, accessible : SUBSET Blob]
  BY <1>2
<1>3. CASE gc \in [pc : {"moving"}, toClone : SUBSET Blob, toDelete : SUBSET Blob]
  BY <1>3
<1> QED BY <1>1, <1>2, <1>3 DEF TypeOK, GcRuns

LEMMA MovingTypes ==
    ASSUME NEW c \in SUBSET Blob, NEW d \in SUBSET Blob
    PROVE  /\ Moving(c, d) \in GcRuns /\ Moving(c, d).pc = "moving"
           /\ Moving(c, d).toClone = c /\ Moving(c, d).toDelete = d
BY DEF Moving, GcRuns

------------------------------------------------------------------------------
(* Type correctness                                                        *)

\* A process that takes a well-typed record keeps the conjuncts of TypeOK
\* about processes.
LEMMA BecomeOK ==
    ASSUME TypeOK, NEW p \in Process, NEW run \in Saves, Become(p, run),
           run.pc # "off" => run.done \subseteq Below(run.tree)
    PROVE  /\ proc' \in [Process -> Saves]
           /\ \A q \in Process : Loaded(q)' => (proc[q].done \subseteq Below(proc[q].tree))'
<1>1. /\ proc' \in [Process -> Saves] /\ proc'[p] = run
      /\ \A q \in Process \ {p} : proc'[q] = proc[q]
  BY BecomeTypes
<1>2. ASSUME NEW q \in Process, proc'[q].pc # "off"
      PROVE  proc'[q].done \subseteq Below(proc'[q].tree)
  <2>1. CASE q = p
    BY <1>1, <1>2, <2>1
  <2>2. CASE q # p
    BY <1>1, <1>2, <2>2 DEF TypeOK, Loaded
  <2> QED BY <2>1, <2>2
<1> QED BY <1>1, <1>2 DEF Loaded

\* What Go leaves of a running process.
LEMMA GoOK ==
    ASSUME TypeOK, NEW p \in Process, proc[p].pc # "off", NEW where \in Running,
           Go(p, where)
    PROVE  /\ proc' \in [Process -> Saves]
           /\ \A q \in Process : Loaded(q)' => (proc[q].done \subseteq Below(proc[q].tree))'
           /\ \A q \in Process \ {p} : proc'[q] = proc[q]
           /\ proc'[p].pc = where /\ proc'[p].tree = proc[p].tree
           /\ proc'[p].done = proc[p].done /\ proc'[p].state = proc[p].state
<1> DEFINE r == Run(where, proc[p].tree, proc[p].done, proc[p].state)
<1>1. /\ proc[p].tree \in Tree /\ proc[p].state \in States
      /\ proc[p].done \in SUBSET Below(proc[p].tree)
  BY ProcTypes
<1>2. /\ r \in Saves /\ r.pc = where /\ r.tree = proc[p].tree
      /\ r.done = proc[p].done /\ r.state = proc[p].state
  BY <1>1, RunTypes
<1>3. Become(p, r)
  BY DEF Go
<1>4. proc'[p] = r /\ \A q \in Process \ {p} : proc'[q] = proc[q]
  BY <1>2, <1>3, BecomeTypes
<1> HIDE DEF r
<1> QED BY <1>1, <1>2, <1>3, <1>4, BecomeOK

LEMMA IdleOK ==
    ASSUME TypeOK, NEW p \in Process, Become(p, Idle)
    PROVE  /\ proc' \in [Process -> Saves]
           /\ \A q \in Process : Loaded(q)' => (proc[q].done \subseteq Below(proc[q].tree))'
           /\ \A q \in Process \ {p} : proc'[q] = proc[q]
           /\ proc'[p] = Idle /\ proc'[p].pc = "off"
<1>1. Idle \in Saves /\ Idle.pc = "off"
  BY DEF Idle, Saves
<1> QED BY <1>1, BecomeTypes, BecomeOK

\* A save loads the state: the record it takes.
LEMMA LoadOK ==
    ASSUME TypeOK, NEW p \in Process, LoadState(p)
    PROVE  /\ proc' \in [Process -> Saves]
           /\ \A q \in Process : Loaded(q)' => (proc[q].done \subseteq Below(proc[q].tree))'
           /\ \A q \in Process \ {p} : proc'[q] = proc[q]
           /\ proc'[p].pc = "loaded" /\ proc'[p].done = {}
           /\ proc'[p].state.existing \in {bucket, stateFile.existing}
           /\ proc'[p].state.existing = stateFile.existing => 
                  stateFile.relist = "recent" \/ bucket = stateFile.existing
           /\ proc'[p].state.scoreMap \subseteq stateFile.scoreMap
<1>1. PICK t \in Tree, discard \in BOOLEAN :
        Become(p, Run("loaded", t, {}, MakeState(stateFile, discard)))
  BY DEF LoadState
<1> DEFINE s == MakeState(stateFile, discard)
           r == Run("loaded", t, {}, s)
<1>2. /\ stateFile \in States /\ bucket \in SUBSET Blob
      /\ stateFile.existing \in SUBSET Blob /\ stateFile.scoreMap \in SUBSET Blob
  BY StateFields DEF TypeOK
<1>3. /\ s \in States
      /\ s.existing = IF stateFile.relist = "recent" THEN stateFile.existing ELSE bucket
      /\ s.scoreMap = IF discard THEN {} ELSE stateFile.scoreMap
  BY <1>2 DEF MakeState, States
<1>4. r \in Saves /\ r.pc = "loaded" /\ r.done = {} /\ r.state = s /\ r.tree = t
  BY <1>3, RunTypes DEF Running
<1>5. proc'[p] = r /\ \A q \in Process \ {p} : proc'[q] = proc[q]
  BY <1>1, <1>4, BecomeTypes
<1> HIDE DEF r, s
<1>6. Become(p, r)
  BY <1>1 DEF r, s
<1>7. r.done \subseteq Below(r.tree)
  BY <1>4
<1> QED BY <1>3, <1>4, <1>5, <1>6, <1>7, BecomeOK

\* A blob that is due belongs to the tree.
LEMMA DueBelow ==
    ASSUME NEW p \in Process, NEW b \in Due(p)
    PROVE  b \in Below(proc[p].tree)
BY DEF Due, Below

\* SkipFile and SaveBlob: p has dealt with b, and knows at most b more.
LEMMA DoneOK ==
    ASSUME TypeOK, NEW p \in Process, NEW b \in Due(p), At(p, "saving"),
           \/ Become(p, Run("saving", proc[p].tree, proc[p].done \cup {b}, proc[p].state))
           \/ Stored(p, b)
    PROVE  /\ proc' \in [Process -> Saves]
           /\ \A q \in Process : Loaded(q)' => (proc[q].done \subseteq Below(proc[q].tree))'
           /\ \A q \in Process \ {p} : proc'[q] = proc[q]
           /\ proc'[p].pc = "saving" /\ proc'[p].tree = proc[p].tree
           /\ proc'[p].done = proc[p].done \cup {b}
           /\ proc'[p].state.existing \subseteq proc[p].state.existing \cup {b}
           /\ proc'[p].state.scoreMap \subseteq proc[p].state.scoreMap \cup {b}
<1>1. /\ proc[p].tree \in Tree /\ proc[p].state \in States /\ b \in Blob
      /\ proc[p].done \cup {b} \in SUBSET Below(proc[p].tree)
  BY ProcTypes, DueBelow DEF At
<1>2. PICK s \in States :
        /\ Become(p, Run("saving", proc[p].tree, proc[p].done \cup {b}, s))
        /\ s.existing \subseteq proc[p].state.existing \cup {b}
        /\ s.scoreMap \subseteq proc[p].state.scoreMap \cup {b}
  <2>1. CASE Become(p, Run("saving", proc[p].tree, proc[p].done \cup {b}, proc[p].state))
    BY <1>1, <2>1
  <2>2. CASE Stored(p, b)
    <3>1. PICK known \in {{}, {b} \ Tree} :
            Become(p, Run("saving", proc[p].tree, proc[p].done \cup {b},
                          [existing |-> proc[p].state.existing \cup {b},
                           scoreMap |-> proc[p].state.scoreMap \cup known,
                           relist |-> proc[p].state.relist]))
      BY <2>2 DEF Stored
    <3>2. /\ proc[p].state.existing \cup {b} \in SUBSET Blob
          /\ proc[p].state.scoreMap \cup known \in SUBSET Blob
          /\ proc[p].state.relist \in {"never", "recent", "old"}
      BY <1>1, <3>1, StateFields
    <3> DEFINE s == [existing |-> proc[p].state.existing \cup {b},
                     scoreMap |-> proc[p].state.scoreMap \cup known,
                     relist |-> proc[p].state.relist]
    <3>3. s \in States /\ s.existing = proc[p].state.existing \cup {b}
          /\ s.scoreMap = proc[p].state.scoreMap \cup known
      BY <3>2 DEF States
    <3> QED BY <3>1, <3>3
  <2> QED BY <2>1, <2>2
<1> DEFINE r == Run("saving", proc[p].tree, proc[p].done \cup {b}, s)
<1>3. /\ r \in Saves /\ r.pc = "saving" /\ r.tree = proc[p].tree
      /\ r.done = proc[p].done \cup {b} /\ r.state = s
  BY <1>1, RunTypes DEF Running
<1>4. Become(p, r)
  BY <1>2
<1> HIDE DEF r
<1>5. proc'[p] = r /\ \A q \in Process \ {p} : proc'[q] = proc[q]
  BY <1>3, <1>4, BecomeTypes
<1> QED BY <1>1, <1>2, <1>3, <1>4, <1>5, BecomeOK

LEMMA InitType == Init => TypeOK
BY DEF Init, TypeOK, Idle, Saves, GcRuns, NoState, States, Loaded

\* The steps of a save keep the types.
LEMMA SaveType ==
    ASSUME TypeOK, NEW p \in Process, SaveStep(p)
    PROVE  TypeOK'
<1> USE DEF TypeOK
<1>1. CASE LoadState(p)
  BY <1>1, LoadOK DEF LoadState, verifyVars
<1>2. CASE InitState(p)
  <2>1. proc[p].pc # "off" /\ "saving" \in Running
    BY <1>2 DEF InitState, At, Running
  <2>2. stateFile' \in States
    BY <1>2, <2>1, ProcTypes DEF InitState
  <2>3. Go(p, "saving")
    BY <1>2 DEF InitState
  <2>4. /\ proc' \in [Process -> Saves]
        /\ \A q \in Process : Loaded(q)' => (proc[q].done \subseteq Below(proc[q].tree))'
    BY <2>1, <2>3, GoOK
  <2> QED BY <1>2, <2>2, <2>4 DEF InitState, verifyVars
<1>3. ASSUME NEW b \in Blob, SkipFile(p, b) PROVE TypeOK'
  BY <1>3, DoneOK DEF SkipFile, verifyVars
<1>4. ASSUME NEW b \in Blob, SaveBlob(p, b) PROVE TypeOK'
  BY <1>4, DoneOK DEF SaveBlob, verifyVars
<1>5. ASSUME NEW b \in Blob, SaveBlobFails(p, b) PROVE TypeOK'
  BY <1>5, IdleOK DEF SaveBlobFails, verifyVars
<1>6. CASE SaveStatePeriodically(p)
  <2>1. proc[p].state \in States
    BY <1>6, ProcTypes DEF SaveStatePeriodically, At
  <2> QED BY <1>6, <2>1 DEF SaveStatePeriodically, verifyVars, Loaded
<1>7. CASE RecordBackup(p)
  <2>1. proc[p].pc # "off" /\ "recorded" \in Running
    BY <1>7 DEF RecordBackup, At, Running
  <2>2. proc[p].tree \in Tree
    BY <2>1, ProcTypes
  <2>3. /\ proc' \in [Process -> Saves]
        /\ \A q \in Process : Loaded(q)' => (proc[q].done \subseteq Below(proc[q].tree))'
    BY <1>7, <2>1, GoOK DEF RecordBackup
  <2> QED BY <1>7, <2>2, <2>3 DEF RecordBackup, verifyVars
<1>8. CASE SaveFinalState(p)
  <2>1. proc[p].state \in States
    BY <1>8, ProcTypes DEF SaveFinalState, At
  <2> QED BY <1>8, <2>1, IdleOK DEF SaveFinalState, verifyVars
<1>9. CASE Crash(p)
  BY <1>9, IdleOK DEF Crash, verifyVars
<1> QED BY <1>1, <1>2, <1>3, <1>4, <1>5, <1>6, <1>7, <1>8, <1>9 DEF SaveStep

\* The blobs below recorded or logged trees are blobs.
LEMMA BelowTypes ==
    ASSUME NEW trees \in SUBSET Tree
    PROVE  AllBelow(trees) \subseteq Blob
BY TreeAssumption DEF AllBelow, Below

LEMMA VerifyType ==
    ASSUME TypeOK, VerifyStep
    PROVE  TypeOK'
<1>1. CASE Verify
  <2>1. output' \subseteq Blob
    <3>1. PICK known \in SUBSET log, fast \in BOOLEAN :
            output' = Emitted(recorded, known, fast)
      BY <1>1 DEF Verify
    <3>2. recorded \ known \in SUBSET Tree /\ recorded \in SUBSET Tree
      BY DEF TypeOK
    <3>3. UNION {Files[t] : t \in recorded} \subseteq Blob
      BY <3>2, TreeAssumption
    <3> QED BY <3>1, <3>2, <3>3, BelowTypes DEF Emitted
  <2>2. log' \subseteq Tree /\ verified' \subseteq Tree
    BY <1>1 DEF Verify, TypeOK
  <2> QED BY <1>1, <2>1, <2>2 DEF Verify, TypeOK, Loaded
<1>2. CASE VerifyFails
  BY <1>2 DEF VerifyFails, TypeOK, Loaded
<1> QED BY <1>1, <1>2 DEF VerifyStep

LEMMA GcType ==
    ASSUME TypeOK, GcStep
    PROVE  TypeOK'
<1> USE DEF TypeOK, Loaded, verifyVars
<1>1. CASE StartGC
  <2>1. Accessible \subseteq Blob
    BY BelowTypes DEF Accessible
  <2>2. gc' \in GcRuns
    BY <1>1, <2>1 DEF StartGC, GcRuns
  <2>3. stateFile' \in States
    BY <1>1 DEF StartGC, NoState, States
  <2> QED BY <1>1, <2>2, <2>3 DEF StartGC
<1>2. CASE ListGarbage
  <2>1. gc' \in GcRuns
    BY <1>2, MovingTypes DEF ListGarbage
  <2> QED BY <1>2, <2>1 DEF ListGarbage
<1>3. ASSUME NEW b \in Blob, CloneGarbage(b) PROVE TypeOK'
  <2>1. gc.toClone \ {b} \in SUBSET Blob /\ gc.toDelete \cup {b} \in SUBSET Blob
    BY <1>3, GcTypes DEF CloneGarbage
  <2>2. gc' \in GcRuns
    BY <1>3, <2>1, MovingTypes DEF CloneGarbage
  <2> QED BY <1>3, <2>2 DEF CloneGarbage
<1>4. ASSUME NEW b \in Blob, DeleteObject(b) PROVE TypeOK'
  <2>1. gc.toClone \in SUBSET Blob /\ gc.toDelete \ {b} \in SUBSET Blob
    BY <1>4, GcTypes DEF DeleteObject
  <2>2. gc' \in GcRuns
    BY <1>4, <2>1, MovingTypes DEF DeleteObject
  <2> QED BY <1>4, <2>2 DEF DeleteObject
<1>5. CASE EndGC
  BY <1>5 DEF EndGC, GcRuns
<1> QED BY <1>1, <1>2, <1>3, <1>4, <1>5 DEF GcStep

LEMMA NextType == TypeOK /\ [Next]_vars => TypeOK'
<1> SUFFICES ASSUME TypeOK, [Next]_vars PROVE TypeOK'
  OBVIOUS
<1>1. ASSUME NEW p \in Process, SaveStep(p) PROVE TypeOK'
  BY <1>1, SaveType
<1>2. CASE StateGetsOld
  <2>1. stateFile' \in States
    BY <1>2, StateFields DEF StateGetsOld, TypeOK, States
  <2> QED BY <1>2, <2>1 DEF StateGetsOld, TypeOK, Loaded, verifyVars
<1>3. CASE UNCHANGED vars
  BY <1>3 DEF vars, verifyVars, TypeOK, Loaded
<1> QED BY <1>1, <1>2, <1>3, VerifyType, GcType DEF Next

\* Type correctness of the commands, for every set of processes, blobs and
\* trees and every way of using gc.
THEOREM TypeCorrect == Spec => []TypeOK
BY InitType, NextType, PTL DEF Spec

------------------------------------------------------------------------------
(* What the programs believe                                               *)

\* K holds every blob that the state file, a save in progress or the registry
\* relies on.
Held(file, procs, trees, K) ==
    /\ file.existing \subseteq K /\ file.scoreMap \subseteq K
    /\ \A p \in Process : procs[p].pc # "off" =>
           /\ procs[p].done \subseteq K
           /\ procs[p].state.existing \subseteq K
           /\ procs[p].state.scoreMap \subseteq K
    /\ AllBelow(trees) \subseteq K

\* A save puts each blob that it comes to rely on into the bucket, or finds it
\* among those already relied upon.
LEMMA SaveHeld ==
    ASSUME TypeOK, NEW K, NEW L, bucket \subseteq K, K \subseteq L, bucket' \subseteq L,
           Held(stateFile, proc, recorded, K),
           NEW p \in Process, SaveStep(p)
    PROVE  Held(stateFile', proc', recorded', L)
<1>1. CASE LoadState(p)
  BY <1>1, LoadOK DEF LoadState, Held
<1>2. CASE InitState(p)
  <2>1. proc[p].pc # "off" /\ "saving" \in Running /\ Go(p, "saving")
    BY <1>2 DEF InitState, At, Running
  <2> QED BY <1>2, <2>1, GoOK DEF InitState, Held
<1>3. ASSUME NEW b \in Blob, SkipFile(p, b)
      PROVE  Held(stateFile', proc', recorded', L)
  BY <1>3, DoneOK DEF SkipFile, At, Held
<1>4. ASSUME NEW b \in Blob, SaveBlob(p, b)
      PROVE  Held(stateFile', proc', recorded', L)
  <2>1. b \in L
    BY <1>4 DEF SaveBlob, At, Held
  <2>2. /\ b \in Due(p) /\ At(p, "saving") /\ Stored(p, b) /\ proc[p].pc # "off"
        /\ stateFile' = stateFile /\ recorded' = recorded
    BY <1>4 DEF SaveBlob, At
  <2>3. /\ \A q \in Process \ {p} : proc'[q] = proc[q]
        /\ proc'[p].done \subseteq L
        /\ proc'[p].state.existing \subseteq L
        /\ proc'[p].state.scoreMap \subseteq L
    <3>1. /\ \A q \in Process \ {p} : proc'[q] = proc[q]
          /\ proc'[p].done = proc[p].done \cup {b}
          /\ proc'[p].state.existing \subseteq proc[p].state.existing \cup {b}
          /\ proc'[p].state.scoreMap \subseteq proc[p].state.scoreMap \cup {b}
      BY <2>2, DoneOK
    <3>2. /\ proc[p].done \subseteq K
          /\ proc[p].state.existing \subseteq K
          /\ proc[p].state.scoreMap \subseteq K
      BY <2>2 DEF Held
    <3> QED BY <2>1, <3>1, <3>2
  <2> QED BY <2>2, <2>3 DEF Held
<1>5. ASSUME NEW b \in Blob, SaveBlobFails(p, b)
      PROVE  Held(stateFile', proc', recorded', L)
  BY <1>5, IdleOK DEF SaveBlobFails, Held
<1>6. CASE SaveStatePeriodically(p)
  BY <1>6 DEF SaveStatePeriodically, At, Held
<1>7. CASE RecordBackup(p)
  <2>1. proc[p].pc # "off" /\ "recorded" \in Running /\ Go(p, "recorded")
    BY <1>7 DEF RecordBackup, At, Running
  <2>2. Below(proc[p].tree) \subseteq proc[p].done
    BY <1>7 DEF RecordBackup, Due, Below
  <2>3. AllBelow(recorded') \subseteq L
    BY <1>7, <2>1, <2>2 DEF RecordBackup, AllBelow, Held
  <2>4. stateFile' = stateFile /\ proc[p].pc # "off" /\ Go(p, "recorded")
    BY <1>7, <2>1 DEF RecordBackup
  <2>5. /\ \A r \in Process \ {p} : proc'[r] = proc[r]
        /\ proc'[p].done = proc[p].done /\ proc'[p].state = proc[p].state
    BY <2>1, <2>4, GoOK
  <2>6. \A r \in Process : proc'[r].pc # "off" =>
            /\ proc[r].pc # "off"
            /\ proc'[r].done = proc[r].done /\ proc'[r].state = proc[r].state
    BY <2>4, <2>5
  <2> QED BY <2>3, <2>4, <2>6 DEF Held
<1>8. CASE SaveFinalState(p)
  BY <1>8, IdleOK DEF SaveFinalState, At, Held
<1>9. CASE Crash(p)
  BY <1>9, IdleOK DEF Crash, Held
<1> QED BY <1>1, <1>2, <1>3, <1>4, <1>5, <1>6, <1>7, <1>8, <1>9 DEF SaveStep

\* Time passing changes nothing the programs rely on.
LEMMA OldHeld ==
    ASSUME NEW K, Held(stateFile, proc, recorded, K), StateGetsOld
    PROVE  Held(stateFile', proc', recorded', K)
BY DEF StateGetsOld, Held

------------------------------------------------------------------------------
(* gc loses nothing                                                        *)

Kept == bucket \cup garbage

LostInv ==
    /\ Held(stateFile, proc, recorded, Kept)
    /\ gc.pc = "moving" => gc.toDelete \subseteq garbage

LEMMA InitLost == Init => LostInv
BY DEF Init, LostInv, Held, NoState, Idle, AllBelow

LEMMA NextLost == TypeOK /\ LostInv /\ [Next]_vars => LostInv'
<1> SUFFICES ASSUME TypeOK, LostInv, [Next]_vars PROVE LostInv'
  OBVIOUS
<1>1. ASSUME NEW p \in Process, SaveStep(p) PROVE LostInv'
  <2>1. bucket \subseteq bucket' /\ garbage' = garbage /\ gc' = gc
    BY <1>1 DEF SaveStep, LoadState, InitState, SkipFile, SaveBlob, SaveBlobFails,
                SaveStatePeriodically, RecordBackup, SaveFinalState, Crash
  <2>2. Held(stateFile', proc', recorded', Kept')
    BY <1>1, <2>1, SaveHeld DEF LostInv, Kept
  <2> QED BY <2>1, <2>2 DEF LostInv
<1>2. CASE StateGetsOld
  <2>1. Held(stateFile', proc', recorded', Kept)
    BY <1>2, OldHeld DEF LostInv
  <2> QED BY <1>2, <2>1 DEF StateGetsOld, LostInv, Kept
<1>3. CASE VerifyStep
  BY <1>3 DEF VerifyStep, Verify, VerifyFails, LostInv, Kept
<1>4. CASE GcStep
  <2>1. CASE StartGC
    BY <2>1 DEF StartGC, LostInv, Kept, Held, NoState
  <2>2. CASE ListGarbage
    BY <2>2 DEF ListGarbage, Moving, LostInv, Kept
  <2>3. ASSUME NEW b \in Blob, CloneGarbage(b) PROVE LostInv'
    <3>1. Held(stateFile', proc', recorded', Kept')
      BY <2>3 DEF CloneGarbage, LostInv, Kept, Held
    <3> QED BY <2>3, <3>1 DEF CloneGarbage, Moving, LostInv
  <2>4. ASSUME NEW b \in Blob, DeleteObject(b) PROVE LostInv'
    <3>1. Kept' = Kept
      BY <2>4 DEF DeleteObject, LostInv, Kept
    <3> QED BY <2>4, <3>1 DEF DeleteObject, Moving, LostInv
  <2>5. CASE EndGC
    BY <2>5 DEF EndGC, Idle, LostInv, Kept
  <2> QED BY <1>4, <2>1, <2>2, <2>3, <2>4, <2>5 DEF GcStep
<1>5. CASE UNCHANGED vars
  BY <1>5 DEF vars, LostInv, Kept
<1> QED BY <1>1, <1>2, <1>3, <1>4, <1>5 DEF Next

\* However gc is used, whatever runs beside it and wherever anything is
\* killed, every blob of a recorded backup is in blobs/ or in garbage/.
THEOREM GcLosesNothing == Spec => []NothingLost
<1>1. TypeOK /\ LostInv => NothingLost
  BY DEF LostInv, Held, Kept, NothingLost
<1> QED BY <1>1, InitType, NextType, InitLost, NextLost, PTL DEF Spec

------------------------------------------------------------------------------
(* Without gc, every backup stays complete                                 *)

NoGc == GcInput = "none"

NoGcInv ==
    /\ Held(stateFile, proc, recorded, bucket)
    /\ gc = Idle

LEMMA InitNoGc == Init => NoGcInv
BY DEF Init, NoGcInv, Held, NoState, Idle, AllBelow

LEMMA NextNoGc == NoGc /\ TypeOK /\ NoGcInv /\ [Next]_vars => NoGcInv'
<1> SUFFICES ASSUME NoGc, TypeOK, NoGcInv, [Next]_vars PROVE NoGcInv'
  OBVIOUS
<1>1. ASSUME NEW p \in Process, SaveStep(p) PROVE NoGcInv'
  <2>1. bucket \subseteq bucket' /\ gc' = gc
    BY <1>1 DEF SaveStep, LoadState, InitState, SkipFile, SaveBlob, SaveBlobFails,
                SaveStatePeriodically, RecordBackup, SaveFinalState, Crash
  <2> QED BY <1>1, <2>1, SaveHeld DEF NoGcInv
<1>2. CASE StateGetsOld
  BY <1>2, OldHeld DEF StateGetsOld, NoGcInv
<1>3. CASE VerifyStep
  BY <1>3 DEF VerifyStep, Verify, VerifyFails, NoGc
<1>4. CASE GcStep
  BY <1>4 DEF GcStep, StartGC, ListGarbage, CloneGarbage, DeleteObject, EndGC,
              NoGc, NoGcInv, Idle
<1>5. CASE UNCHANGED vars
  BY <1>5 DEF vars, NoGcInv
<1> QED BY <1>1, <1>2, <1>3, <1>4, <1>5 DEF Next

LEMMA HeldIsEnough ==
    ASSUME Held(stateFile, proc, recorded, bucket)
    PROVE  RecordedBackupsIntact /\ ExistingScoresExist /\ StateFileIsTrue
BY DEF Held, RecordedBackupsIntact, ExistingScoresExist, StateFileIsTrue, At

\* As long as gc is not used: any number of saves at a time, killed anywhere
\* and overwriting each other's state file, record only complete backups.
THEOREM SavesAreSafe == NoGc => (Spec => []RecordedBackupsIntact)
<1> SUFFICES ASSUME NoGc PROVE Spec => []RecordedBackupsIntact
  OBVIOUS
<1>1. TypeOK /\ NoGcInv /\ [Next]_vars => NoGcInv'
  BY NextNoGc
<1>2. NoGcInv => RecordedBackupsIntact
  BY HeldIsEnough DEF NoGcInv
<1> QED BY <1>1, <1>2, InitType, NextType, InitNoGc, PTL DEF Spec

------------------------------------------------------------------------------
(* The careful use of gc                                                   *)

\* gc reads the whole log of a run after the last save, runs alone, and the
\* state file is removed first.
Careful == GcInput = "log" /\ ~Overlap /\ ForgetState

\* While gc runs nobody believes anything, and what it may delete is below no
\* recorded tree.
CarefulInv ==
    /\ Held(stateFile, proc, recorded, bucket)
    /\ verified \subseteq log
    /\ gc.pc # "off" =>
           /\ stateFile = NoState
           /\ \A p \in Process : proc[p].pc = "off"
    /\ gc.pc = "listing" => AllBelow(recorded) \subseteq gc.accessible
    /\ gc.pc = "moving" =>
           AllBelow(recorded) \cap (gc.toClone \cup gc.toDelete) = {}

LEMMA InitCareful == Init => CarefulInv
BY DEF Init, CarefulInv, Held, NoState, Idle, AllBelow

LEMMA NextCareful == Careful /\ TypeOK /\ CarefulInv /\ [Next]_vars => CarefulInv'
<1> SUFFICES ASSUME Careful, TypeOK, CarefulInv, [Next]_vars PROVE CarefulInv'
  OBVIOUS
<1>1. ASSUME NEW p \in Process, SaveStep(p) PROVE CarefulInv'
  <2>1. bucket \subseteq bucket' /\ gc' = gc /\ verified' = verified /\ log' = log
    BY <1>1 DEF SaveStep, LoadState, InitState, SkipFile, SaveBlob, SaveBlobFails,
                SaveStatePeriodically, RecordBackup, SaveFinalState, Crash, verifyVars
  <2>2. gc.pc = "off"
    <3>1. CASE LoadState(p)
      BY <3>1 DEF LoadState, Careful, Idle
    <3>2. CASE ~LoadState(p)
      BY <1>1, <3>2 DEF SaveStep, InitState, SkipFile, SaveBlob, SaveBlobFails,
                        SaveStatePeriodically, RecordBackup, SaveFinalState, Crash,
                        At, Loaded, CarefulInv
    <3> QED BY <3>1, <3>2
  <2>3. Held(stateFile', proc', recorded', bucket')
    BY <1>1, <2>1, SaveHeld DEF CarefulInv
  <2> QED BY <2>1, <2>2, <2>3 DEF CarefulInv
<1>2. CASE StateGetsOld
  <2>1. gc.pc = "off"
    BY <1>2 DEF StateGetsOld, CarefulInv, NoState
  <2>2. Held(stateFile', proc', recorded', bucket)
    BY <1>2, OldHeld DEF CarefulInv
  <2> QED BY <1>2, <2>1, <2>2 DEF StateGetsOld, CarefulInv, verifyVars
<1>3. CASE VerifyStep
  BY <1>3 DEF VerifyStep, Verify, VerifyFails, CarefulInv
<1>4. CASE GcStep
  <2> USE DEF verifyVars
  <2>1. CASE StartGC
    <3>1. /\ verified = recorded /\ \A p \in Process : proc[p].pc = "off"
      BY <2>1 DEF StartGC, Covered, Loaded, Careful
    <3>2. AllBelow(recorded) \subseteq Accessible
      BY <3>1 DEF CarefulInv, Accessible, Careful, AllBelow
    <3>3. /\ stateFile' = NoState
          /\ gc' = [pc |-> "listing", accessible |-> Accessible]
      BY <2>1 DEF StartGC, Careful
    <3>4. Held(stateFile', proc', recorded', bucket')
      BY <2>1, <3>1, <3>3 DEF StartGC, CarefulInv, Held, NoState
    <3> QED BY <2>1, <3>1, <3>2, <3>3, <3>4 DEF StartGC, CarefulInv
  <2>2. CASE ListGarbage
    BY <2>2 DEF ListGarbage, Moving, CarefulInv
  <2>3. ASSUME NEW b \in Blob, CloneGarbage(b) PROVE CarefulInv'
    BY <2>3 DEF CloneGarbage, Moving, CarefulInv
  <2>4. ASSUME NEW b \in Blob, DeleteObject(b) PROVE CarefulInv'
    <3>1. b \notin AllBelow(recorded)
      BY <2>4 DEF DeleteObject, CarefulInv
    <3>2. stateFile = NoState /\ \A p \in Process : proc[p].pc = "off"
      BY <2>4 DEF DeleteObject, CarefulInv
    <3>3. Held(stateFile', proc', recorded', bucket')
      BY <2>4, <3>1, <3>2 DEF DeleteObject, CarefulInv, Held, NoState
    <3> QED BY <2>4, <3>2, <3>3 DEF DeleteObject, Moving, CarefulInv
  <2>5. CASE EndGC
    BY <2>5 DEF EndGC, Idle, CarefulInv
  <2> QED BY <1>4, <2>1, <2>2, <2>3, <2>4, <2>5 DEF GcStep
<1>5. CASE UNCHANGED vars
  BY <1>5 DEF vars, verifyVars, CarefulInv
<1> QED BY <1>1, <1>2, <1>3, <1>4, <1>5 DEF Next

\* Used with care, gc keeps every recorded backup complete and leaves nothing
\* false behind, wherever it, or a save before or after it, is killed.
THEOREM CarefulGcIsSafe ==
    Careful => (Spec => [](RecordedBackupsIntact /\ ExistingScoresExist /\ StateFileIsTrue))
<1> SUFFICES ASSUME Careful
             PROVE  Spec => [](RecordedBackupsIntact /\ ExistingScoresExist /\ StateFileIsTrue)
  OBVIOUS
<1>1. TypeOK /\ CarefulInv /\ [Next]_vars => CarefulInv'
  BY NextCareful
<1>2. CarefulInv => RecordedBackupsIntact /\ ExistingScoresExist /\ StateFileIsTrue
  BY HeldIsEnough DEF CarefulInv
<1> QED BY <1>1, <1>2, InitType, NextType, InitCareful, PTL DEF Spec

\* With gc used as above, the state file and every save in progress believe only
\* in blobs that are in the bucket ("existingScores must contain only scores
\* that are known to exist in the bucket", save.go of internal/save).
THEOREM CarefulScoresExist == Careful => (Spec => []ExistingScoresExist)
<1>1. RecordedBackupsIntact /\ ExistingScoresExist /\ StateFileIsTrue => ExistingScoresExist
  OBVIOUS
<1> QED BY <1>1, CarefulGcIsSafe, PTL

------------------------------------------------------------------------------
(* The registry                                                            *)


Opening == {"open", "claim", "ready"}
Opened == {"ready", "save", "record", "recorded", "list", "listed", "mounted"}

\* What is to come has not begun, and a record is requested by a save that has
\* chosen its name.
Order ==
  /\ \A c \in Commands : pc[c] \in Opening => start[c] = 0 /\ at[c] = 0
  /\ \A c \in Commands : pc[c] \in {"save", "record", "recorded"} => c \in Savers /\ start[c] \in Seconds
  /\ \A c \in Commands : <<c, "job">> \in sent => c \in Savers /\ start[c] \in Seconds

\* What a listing has returned is there, and it has returned what was there when
\* it began, as far as it has got.
Listing ==
  \A c \in Commands :
    /\ \A o \in found[c] : jobs[o[1]] = o[2] /\ o[2] # NoObject
    /\ \A n \in before[c] : jobs[n] # NoObject
    /\ \A n \in before[c] : n < at[c] => <<n, jobs[n]>> \in found[c]

\* How a listing ended.
Outcome ==
  \A c \in Commands :
    /\ pc[c] \in {"listed", "mounted", "no jobs"} => at[c] > MaxSecond /\ ~Unparsable(found[c])
    /\ pc[c] = "unparsable" => Unparsable(found[c])
    /\ pc[c] = "mounted" => chosen[c] \in Newest(ForParsing(found[c]))

IInv == /\ RegistryTypeOK /\ OneKey /\ RefusalIsDeserved /\ Order /\ ReportedMeansRecorded
        /\ RefusedMeansTaken /\ Listing /\ Outcome

\* A step of the service or of a command, by action.
Acts(c) ==
  \/ OpenFound(c) \/ Claim(c) \/ StartSave(c) \/ RequestRecord(c)
  \/ CreateObject(c, "marker") \/ CreateObject(c, "job")
  \/ PreconditionError(c, "marker") \/ PreconditionError(c, "job")
  \/ Fails(c) \/ StartList(c) \/ ListPage(c) \/ ParseJobs(c) \/ Mount(c) \/ Kill(c)

LEMMA NextActs ==
    ASSUME [RegistryNext]_registryVars
    PROVE  (\E c \in Commands : Acts(c)) \/ UNCHANGED registryVars
BY DEF RegistryNext, Runs, Answers, AllEnded, Acts

-----------------------------------------------------------------------------
(* Values                                                                  *)

LEMMA ObjectKinds ==
    /\ NoObject # Foreign /\ NoObject \in Objects /\ Foreign \in Objects
    /\ \A d \in Savers : Job(d) # NoObject /\ Job(d) # Foreign /\ Job(d) \in Objects
BY DEF Objects, NoObject, Foreign, Job

LEMMA MarkerFields ==
    ASSUME NEW c
    PROVE  /\ Marker(c) # NoMarker /\ Marker(c).salt = c
           /\ Marker(c).key = DeriveKey(Password[c], c)
BY DEF Marker, NoMarker

LEMMA ValuesOK ==
    ASSUME NEW c \in Commands, NEW salt \in Commands
    PROVE  Marker(c) \in Markers /\ DeriveKey(Password[c], salt) \in Keys
BY DEF Markers, Keys

LEMMA PlacesOK ==
    /\ Ended \subseteq Places /\ Waiting \subseteq Places
    /\ {"open", "ready", "save", "list", "listed"} \subseteq Places
    /\ {"failed", "wrong password", "refused", "recorded", "unparsable",
        "no jobs", "mounted", "killed", "claim", "record"} \subseteq Places
BY DEF Places, Ended, Waiting

LEMMA MarkerOK ==
    ASSUME RegistryTypeOK, marker # NoMarker
    PROVE  /\ marker.salt \in Commands
           /\ marker = Marker(marker.salt)
           /\ marker.key = DeriveKey(Password[marker.salt], marker.salt)
<1>1. PICK c \in Commands : marker = Marker(c)
  BY DEF RegistryTypeOK, Markers
<1> QED BY <1>1, MarkerFields

LEMMA KeyFields ==
    ASSUME NEW p, NEW q, NEW s, DeriveKey(p, s) # DeriveKey(q, s)
    PROVE  p # q
OBVIOUS

-----------------------------------------------------------------------------
(* No step overwrites anything                                             *)

Stays == /\ marker # NoMarker => marker' = marker
        /\ \A n \in Names : jobs[n] # NoObject => jobs'[n] = jobs[n]

LEMMA NextKeeps ==
    ASSUME RegistryTypeOK, [RegistryNext]_registryVars
    PROVE  Stays
<1>1. ASSUME NEW c \in Commands, CreateObject(c, "marker")
      PROVE  Stays
  BY <1>1 DEF CreateObject, Absent, Stays
<1>2. ASSUME NEW c \in Commands, CreateObject(c, "job")
      PROVE  Stays
  <2>1. jobs[start[c]] = NoObject /\ marker' = marker
    BY <1>2 DEF CreateObject, Absent
  <2>2. jobs' = [jobs EXCEPT ![start[c]] = Job(c)]
    BY <1>2 DEF CreateObject
  <2> QED BY <2>1, <2>2 DEF Stays, RegistryTypeOK
<1>3. ASSUME UNCHANGED <<marker, jobs>>
      PROVE  Stays
  BY <1>3 DEF Stays
<1> QED BY <1>1, <1>2, <1>3, NextActs
        DEF Acts, OpenFound, Claim, StartSave, RequestRecord, PreconditionError, Fails,
            StartList, ListPage, ParseJobs, Mount, Kill, registryVars

-----------------------------------------------------------------------------
(* Each part of the invariant is kept                                      *)

LEMMA InitOK ==
    ASSUME RegistryInit
    PROVE  IInv
<1>1. RegistryTypeOK
  <2>1. marker \in Markers /\ NoKey \in Keys /\ 0 \in Names /\ 0 \in 0..MaxSecond + 1
    BY MaxSecondAssumption DEF RegistryInit, Markers, Keys, Names
  <2>2. jobs \in [Names -> Objects]
    BY ObjectKinds DEF RegistryInit
  <2>3. pc \in [Commands -> Places] /\ key \in [Commands -> Keys]
    BY <2>1, PlacesOK DEF RegistryInit
  <2>4. /\ start \in [Commands -> Names] /\ at \in [Commands -> 0..MaxSecond + 1]
        /\ chosen \in [Commands -> Names]
    BY <2>1 DEF RegistryInit
  <2>5. /\ found \in [Commands -> SUBSET (Names \X Objects)]
        /\ before \in [Commands -> SUBSET Names] /\ sent = {}
    BY DEF RegistryInit
  <2> QED BY <2>1, <2>2, <2>3, <2>4, <2>5 DEF RegistryTypeOK
<1>2. OneKey /\ RefusalIsDeserved /\ ReportedMeansRecorded /\ RefusedMeansTaken
  BY DEF RegistryInit, OneKey, RefusalIsDeserved, ReportedMeansRecorded, RefusedMeansTaken
<1>3. Order /\ Listing /\ Outcome
  BY DEF RegistryInit, Order, Listing, Outcome, Opening
<1> QED BY <1>1, <1>2, <1>3 DEF IInv

\* What one command's step leaves to the others.
LEMMA CreateMarkerOK ==
    ASSUME RegistryTypeOK, NEW c \in Commands, CreateObject(c, "marker")
    PROVE  /\ marker = NoMarker /\ marker' = Marker(c) /\ jobs' = jobs
           /\ UNCHANGED <<sent, start, at, found, before, chosen>>
           /\ \/ UNCHANGED <<pc, key>>
              \/ /\ pc[c] = "claim" /\ pc' = [pc EXCEPT ![c] = "ready"]
                 /\ key' = [key EXCEPT ![c] = DeriveKey(Password[c], c)]
BY DEF CreateObject, Absent, Awaits, Goto

LEMMA CreateJobOK ==
    ASSUME RegistryTypeOK, Order, NEW c \in Commands, CreateObject(c, "job")
    PROVE  /\ c \in Savers /\ start[c] \in Seconds /\ jobs[start[c]] = NoObject
           /\ jobs' = [jobs EXCEPT ![start[c]] = Job(c)] /\ jobs'[start[c]] = Job(c)
           /\ UNCHANGED <<marker, key, sent, start, at, found, before, chosen>>
           /\ \/ UNCHANGED pc
              \/ pc[c] = "record" /\ pc' = [pc EXCEPT ![c] = "recorded"]
<1>1. c \in Savers /\ start[c] \in Seconds
  BY DEF CreateObject, Order
<1>2. start[c] \in Names
  BY <1>1 DEF Seconds, Names
<1> QED BY <1>1, <1>2 DEF CreateObject, Absent, Awaits, Goto, RegistryTypeOK

\* One page: the part of the names from at[c] to n.
LEMMA ListPageOK ==
    ASSUME RegistryTypeOK, NEW c \in Commands, ListPage(c)
    PROVE  \E n \in at[c]..MaxSecond :
             /\ n \in Names /\ n + 1 \in 0..MaxSecond + 1 /\ at'[c] = n + 1
             /\ at' = [at EXCEPT ![c] = n + 1]
             /\ \A o \in found'[c] : \/ o \in found[c]
                                     \/ /\ o[1] \in Names /\ o[2] = jobs[o[1]]
                                        /\ o = <<o[1], o[2]>> /\ o[2] # NoObject
             /\ \A m \in Names : m \in at[c]..n /\ jobs[m] # NoObject => <<m, jobs[m]>> \in found'[c]
             /\ found[c] \subseteq found'[c]
             /\ \A d \in Commands \ {c} : at'[d] = at[d] /\ found'[d] = found[d]
             /\ DOMAIN found' = Commands /\ found' = [found EXCEPT ![c] = found'[c]]
<1>1. at[c] \in 0..MaxSecond + 1
  BY DEF RegistryTypeOK
<1>2. PICK n \in at[c]..MaxSecond :
        /\ at' = [at EXCEPT ![c] = n + 1]
        /\ found' = [found EXCEPT ![c] = found[c] \union
             {<<m, jobs[m]>> : m \in {k \in at[c]..n : jobs[k] # NoObject}}]
  BY DEF ListPage, ContinuationToken
<1>3. n \in Names /\ n + 1 \in 0..MaxSecond + 1 /\ at[c]..n \subseteq Names
  BY <1>1, <1>2, MaxSecondAssumption DEF Names
<1>4. found'[c] = found[c] \union {<<m, jobs[m]>> : m \in {k \in at[c]..n : jobs[k] # NoObject}}
  BY <1>2 DEF RegistryTypeOK
<1>5. \A o \in found'[c] : \/ o \in found[c]
                           \/ /\ o[1] \in Names /\ o[2] = jobs[o[1]]
                              /\ o = <<o[1], o[2]>> /\ o[2] # NoObject
  BY <1>3, <1>4
<1>6. /\ \A m \in Names : m \in at[c]..n /\ jobs[m] # NoObject => <<m, jobs[m]>> \in found'[c]
      /\ found[c] \subseteq found'[c]
  BY <1>4
<1>7. /\ at'[c] = n + 1
      /\ \A d \in Commands \ {c} : at'[d] = at[d] /\ found'[d] = found[d]
      /\ DOMAIN found' = Commands /\ found' = [found EXCEPT ![c] = found'[c]]
  BY <1>2, <1>4 DEF RegistryTypeOK
<1> QED BY <1>2, <1>3, <1>5, <1>6, <1>7

LEMMA TypeKept ==
    ASSUME RegistryTypeOK, Order, [RegistryNext]_registryVars
    PROVE  RegistryTypeOK'
<1>1. ASSUME NEW c \in Commands, OpenFound(c)
      PROVE  RegistryTypeOK'
  <2>1. DeriveKey(Password[c], marker.salt) \in Keys
    BY <1>1, MarkerOK, ValuesOK DEF OpenFound
  <2> QED BY <1>1, <2>1, PlacesOK DEF RegistryTypeOK, OpenFound, Goto
<1>2. ASSUME NEW c \in Commands, CreateObject(c, "marker")
      PROVE  RegistryTypeOK'
  <2>1. Marker(c) \in Markers /\ DeriveKey(Password[c], c) \in Keys
    BY ValuesOK
  <2> QED BY <1>2, <2>1, CreateMarkerOK, PlacesOK DEF RegistryTypeOK
<1>3. ASSUME NEW c \in Commands, CreateObject(c, "job")
      PROVE  RegistryTypeOK'
  <2>1. Job(c) \in Objects /\ jobs' = [jobs EXCEPT ![start[c]] = Job(c)]
    BY <1>3, CreateJobOK, ObjectKinds
  <2>2. jobs' \in [Names -> Objects]
    BY <2>1 DEF RegistryTypeOK
  <2>3. pc' \in [Commands -> Places]
    BY <1>3, CreateJobOK, PlacesOK DEF RegistryTypeOK
  <2>4. UNCHANGED <<marker, key, sent, start, at, found, before, chosen>>
    BY <1>3, CreateJobOK
  <2> QED BY <2>2, <2>3, <2>4 DEF RegistryTypeOK
<1>4. ASSUME NEW c \in Commands, ListPage(c)
      PROVE  RegistryTypeOK'
  <2>0. PICK n \in at[c]..MaxSecond : n + 1 \in 0..MaxSecond + 1 /\ at' = [at EXCEPT ![c] = n + 1]
    BY <1>4, ListPageOK
  <2>1. /\ at' \in [Commands -> 0..MaxSecond + 1]
        /\ UNCHANGED <<marker, jobs, sent, pc, key, start, before, chosen>>
    BY <1>4, <2>0 DEF RegistryTypeOK, ListPage
  <2>2. found'[c] \subseteq Names \X Objects
    <3> SUFFICES ASSUME NEW o \in found'[c]
                 PROVE  o \in Names \X Objects
      OBVIOUS
    <3>1. CASE o \in found[c]
      BY <3>1 DEF RegistryTypeOK
    <3>2. CASE o[1] \in Names /\ o[2] = jobs[o[1]] /\ o = <<o[1], o[2]>>
      <4>1. o[2] \in Objects
        BY <3>2 DEF RegistryTypeOK
      <4> QED BY <3>2, <4>1
    <3> QED BY <1>4, <3>1, <3>2, ListPageOK
  <2>3. found' \in [Commands -> SUBSET (Names \X Objects)]
    BY <1>4, <2>2, ListPageOK DEF RegistryTypeOK
  <2> QED BY <2>1, <2>3 DEF RegistryTypeOK
<1>5. ASSUME NEW c \in Commands, Claim(c) \/ RequestRecord(c) \/ StartSave(c)
      PROVE  RegistryTypeOK'
  <2>1. Seconds \subseteq Names
    BY MaxSecondAssumption DEF Seconds, Names
  <2>2. CASE Claim(c)
    <3>1. pc' \in [Commands -> Places]
      BY <2>2, PlacesOK DEF RegistryTypeOK, Claim, Goto
    <3>2. sent' = sent \union {<<c, "marker">>} /\ sent \subseteq (Commands \X {"marker", "job"})
      BY <2>2 DEF Claim, RegistryTypeOK
    <3>3. sent' \subseteq (Commands \X {"marker", "job"})
      BY <3>2
    <3> QED BY <2>2, <3>1, <3>3 DEF RegistryTypeOK, Claim
  <2>3. CASE RequestRecord(c)
    <3>1. pc' \in [Commands -> Places]
      BY <2>3, PlacesOK DEF RegistryTypeOK, RequestRecord, Goto
    <3>2. sent' = sent \union {<<c, "job">>} /\ sent \subseteq (Commands \X {"marker", "job"})
      BY <2>3 DEF RequestRecord, RegistryTypeOK
    <3>3. sent' \subseteq (Commands \X {"marker", "job"})
      BY <3>2
    <3> QED BY <2>3, <3>1, <3>3 DEF RegistryTypeOK, RequestRecord
  <2>4. CASE StartSave(c)
    BY <2>1, <2>4, PlacesOK DEF RegistryTypeOK, StartSave, Goto
  <2> QED BY <1>5, <2>2, <2>3, <2>4
<1>6. ASSUME NEW c \in Commands,
             \/ PreconditionError(c, "marker") \/ PreconditionError(c, "job")
             \/ Fails(c) \/ ParseJobs(c) \/ Kill(c)
      PROVE  RegistryTypeOK'
  <2>1. /\ pc' \in [Commands -> Places]
        /\ UNCHANGED <<marker, jobs, sent, key, start, at, found, before, chosen>>
    BY <1>6, PlacesOK DEF RegistryTypeOK, PreconditionError, Fails, ParseJobs, Kill, Goto
  <2> QED BY <2>1 DEF RegistryTypeOK
<1>7. ASSUME NEW c \in Commands, StartList(c)
      PROVE  RegistryTypeOK'
  BY <1>7, PlacesOK DEF RegistryTypeOK, StartList, Goto
<1>8. ASSUME NEW c \in Commands, Mount(c)
      PROVE  RegistryTypeOK'
  <2>1. Newest(ForParsing(found[c])) \subseteq Names
    BY MaxSecondAssumption DEF Newest, Seconds, Names
  <2> QED BY <1>8, <2>1, PlacesOK DEF RegistryTypeOK, Mount, Goto
<1>9. ASSUME UNCHANGED registryVars
      PROVE  RegistryTypeOK'
  BY <1>9 DEF RegistryTypeOK, registryVars
<1> QED BY <1>1, <1>2, <1>3, <1>4, <1>5, <1>6, <1>7, <1>8, <1>9, NextActs DEF Acts

LEMMA OrderKept ==
    ASSUME RegistryTypeOK, Order, [RegistryNext]_registryVars
    PROVE  Order'
<1>1. ASSUME NEW c \in Commands, CreateObject(c, "marker")
      PROVE  Order'
  BY <1>1, CreateMarkerOK DEF RegistryTypeOK, Order, Opening
<1>2. ASSUME NEW c \in Commands, CreateObject(c, "job")
      PROVE  Order'
  BY <1>2, CreateJobOK DEF RegistryTypeOK, Order, Opening
<1>3. ASSUME NEW c \in Commands,
             OpenFound(c) \/ Claim(c) \/ StartSave(c) \/ RequestRecord(c)
      PROVE  Order'
  BY <1>3 DEF RegistryTypeOK, Order, Opening, OpenFound, Claim, StartSave, RequestRecord, Goto
<1>4. ASSUME NEW c \in Commands,
             \/ PreconditionError(c, "marker") \/ PreconditionError(c, "job")
             \/ Fails(c) \/ StartList(c) \/ ParseJobs(c) \/ Mount(c) \/ Kill(c)
      PROVE  Order'
  BY <1>4 DEF RegistryTypeOK, Order, Opening, PreconditionError, Fails, StartList, ParseJobs, Mount, Kill, Goto
<1>5. ASSUME NEW c \in Commands, ListPage(c)
      PROVE  Order'
  BY <1>5 DEF RegistryTypeOK, Order, Opening, ListPage
<1>6. ASSUME UNCHANGED registryVars
      PROVE  Order'
  BY <1>6 DEF RegistryTypeOK, Order, Opening, registryVars
<1> QED BY <1>1, <1>2, <1>3, <1>4, <1>5, <1>6, NextActs DEF Acts

LEMMA KeysKept ==
    ASSUME RegistryTypeOK, OneKey, RefusalIsDeserved, [RegistryNext]_registryVars
    PROVE  OneKey' /\ RefusalIsDeserved'
<1>1. ASSUME NEW c \in Commands, OpenFound(c)
      PROVE  OneKey' /\ RefusalIsDeserved'
  <2>1. CASE Accepts(Password[c])
    <3>1. DeriveKey(Password[c], marker.salt) = marker.key
      BY <2>1 DEF Accepts
    <3> QED BY <1>1, <2>1, <3>1 DEF RegistryTypeOK, OneKey, RefusalIsDeserved, OpenFound, Goto
  <2>2. CASE ~Accepts(Password[c])
    <3>1. Password[c] # Password[marker.salt]
      BY <1>1, <2>2, MarkerOK, KeyFields DEF Accepts, OpenFound
    <3> QED BY <1>1, <2>2, <3>1 DEF RegistryTypeOK, OneKey, RefusalIsDeserved, OpenFound, Goto
  <2> QED BY <2>1, <2>2
<1>2. ASSUME NEW c \in Commands, CreateObject(c, "marker")
      PROVE  OneKey' /\ RefusalIsDeserved'
  <2>1. marker' # NoMarker /\ marker'.key = DeriveKey(Password[c], c)
    BY <1>2, CreateMarkerOK, MarkerFields
  <2>2. \A d \in Commands : pc[d] \notin Opened /\ pc[d] # "wrong password"
    BY <1>2, CreateMarkerOK DEF OneKey, RefusalIsDeserved, Opened
  <2>3. \A d \in Commands : pc'[d] # "wrong password" /\ (pc'[d] \in Opened => d = c)
    BY <1>2, <2>2, CreateMarkerOK DEF RegistryTypeOK, Opened
  <2>4. pc'[c] \in Opened => key'[c] = DeriveKey(Password[c], c)
    BY <1>2, <2>2, CreateMarkerOK DEF RegistryTypeOK
  <2> QED BY <2>1, <2>3, <2>4 DEF OneKey, RefusalIsDeserved, Opened
<1>3. ASSUME NEW c \in Commands,
             \/ CreateObject(c, "job") \/ Claim(c) \/ StartSave(c) \/ RequestRecord(c)
             \/ PreconditionError(c, "marker") \/ PreconditionError(c, "job")
             \/ Fails(c) \/ StartList(c) \/ ListPage(c) \/ ParseJobs(c) \/ Mount(c) \/ Kill(c)
      PROVE  OneKey' /\ RefusalIsDeserved'
  <2>1. /\ UNCHANGED <<marker, key>>
        /\ \A d \in Commands \ {c} : pc'[d] = pc[d]
        /\ pc'[c] # "wrong password" \/ UNCHANGED pc
        /\ pc'[c] \in Opened => pc[c] \in Opened
    BY <1>3 DEF RegistryTypeOK, Opened, CreateObject, Awaits, Claim, StartSave, RequestRecord, PreconditionError,
                Fails, StartList, ListPage, ParseJobs, Mount, Kill, Goto
  <2> QED BY <2>1 DEF OneKey, RefusalIsDeserved, Opened
<1>4. ASSUME UNCHANGED registryVars
      PROVE  OneKey' /\ RefusalIsDeserved'
  BY <1>4 DEF OneKey, RefusalIsDeserved, registryVars
<1> QED BY <1>1, <1>2, <1>3, <1>4, NextActs DEF Acts

LEMMA RecordsKept ==
    ASSUME RegistryTypeOK, Order, OneKey, ReportedMeansRecorded, RefusedMeansTaken, [RegistryNext]_registryVars
    PROVE  ReportedMeansRecorded' /\ RefusedMeansTaken'
<1>1. Stays
  BY NextKeeps
<1>2. Seconds \subseteq Names
  BY MaxSecondAssumption DEF Seconds, Names
<1>3. ASSUME NEW c \in Commands, CreateObject(c, "job")
      PROVE  ReportedMeansRecorded' /\ RefusedMeansTaken'
  <2>1. \A d \in Commands : pc'[d] = "recorded" => pc[d] = "recorded" \/ d = c
    BY <1>3, CreateJobOK DEF RegistryTypeOK
  <2>2. \A d \in Commands : pc'[d] = "refused" => pc[d] = "refused"
    BY <1>3, CreateJobOK DEF RegistryTypeOK
  <2>3. /\ jobs'[start[c]] = Job(c) /\ start' = start /\ marker' = marker
        /\ \A d \in Commands : start[d] \in Names
    BY <1>3, CreateJobOK DEF RegistryTypeOK
  <2>4. \A d \in Commands : pc[d] = "recorded" => jobs'[start[d]] = Job(d)
    BY <1>1, <2>3, ObjectKinds DEF ReportedMeansRecorded, Stays, Order
  <2>5. \A d \in Commands : pc[d] = "refused" /\ start[d] # 0 => jobs'[start[d]] # NoObject
    BY <1>1, <2>3 DEF RefusedMeansTaken, Stays
  <2> QED BY <2>1, <2>2, <2>3, <2>4, <2>5 DEF ReportedMeansRecorded, RefusedMeansTaken
<1>4. ASSUME NEW c \in Commands, PreconditionError(c, "marker") \/ PreconditionError(c, "job")
      PROVE  ReportedMeansRecorded' /\ RefusedMeansTaken'
  <2>1. /\ UNCHANGED <<marker, jobs, start>> /\ pc' = [pc EXCEPT ![c] = "refused"]
    BY <1>4 DEF PreconditionError, Goto
  <2>2. CASE PreconditionError(c, "marker")
    <3>1. start[c] = 0 /\ marker # NoMarker
      BY <2>2 DEF PreconditionError, Awaits, Absent, Order, Opening
    <3> QED BY <2>1, <3>1 DEF ReportedMeansRecorded, RefusedMeansTaken, RegistryTypeOK
  <2>3. CASE PreconditionError(c, "job")
    <3>1. jobs[start[c]] # NoObject /\ marker # NoMarker
      BY <2>3 DEF PreconditionError, Awaits, Absent, OneKey
    <3> QED BY <2>1, <3>1 DEF ReportedMeansRecorded, RefusedMeansTaken, RegistryTypeOK
  <2> QED BY <1>4, <2>2, <2>3
<1>5. ASSUME NEW c \in Commands,
             \/ OpenFound(c) \/ Claim(c) \/ StartSave(c) \/ RequestRecord(c)
             \/ CreateObject(c, "marker")
             \/ Fails(c) \/ StartList(c) \/ ListPage(c) \/ ParseJobs(c) \/ Mount(c) \/ Kill(c)
      PROVE  ReportedMeansRecorded' /\ RefusedMeansTaken'
  <2>1. /\ UNCHANGED jobs
        /\ marker # NoMarker => marker' # NoMarker
        /\ \A d \in Commands : pc'[d] \in {"recorded", "refused"} => pc[d] = pc'[d] /\ start'[d] = start[d]
    BY <1>1, <1>5 DEF RegistryTypeOK, Stays, Awaits, OpenFound, Claim, StartSave, RequestRecord, CreateObject,
                      Fails, StartList, ListPage, ParseJobs, Mount, Kill, Goto
  <2> QED BY <2>1 DEF ReportedMeansRecorded, RefusedMeansTaken
<1>6. ASSUME UNCHANGED registryVars
      PROVE  ReportedMeansRecorded' /\ RefusedMeansTaken'
  BY <1>6 DEF ReportedMeansRecorded, RefusedMeansTaken, registryVars
<1> QED BY <1>3, <1>4, <1>5, <1>6, NextActs DEF Acts

LEMMA ListingKept ==
    ASSUME RegistryTypeOK, Order, Listing, [RegistryNext]_registryVars
    PROVE  Listing'
<1>1. Stays
  BY NextKeeps
<1>2. \A c \in Commands : found[c] \subseteq Names \X Objects /\ before[c] \subseteq Names
  BY DEF RegistryTypeOK
<1>3. ASSUME UNCHANGED <<at, found, before>>
      PROVE  Listing'
  BY <1>1, <1>2, <1>3 DEF Listing, Stays
<1>4. ASSUME NEW c \in Commands, StartList(c)
      PROVE  Listing'
  <2>1. /\ UNCHANGED <<jobs, at, found>> /\ at[c] = 0
        /\ before'[c] = {n \in Names : jobs[n] # NoObject}
        /\ \A d \in Commands \ {c} : before'[d] = before[d]
    BY <1>4 DEF StartList, RegistryTypeOK, Order, Opening
  <2>2. \A n \in before'[c] : n \in Nat
    BY <2>1, MaxSecondAssumption DEF Names
  <2> QED BY <2>1, <2>2 DEF Listing
<1>5. ASSUME NEW c \in Commands, ListPage(c)
      PROVE  Listing'
  <2>1. UNCHANGED <<jobs, before>>
    BY <1>5 DEF ListPage
  <2>2. PICK n \in at[c]..MaxSecond :
          /\ at'[c] = n + 1 /\ found[c] \subseteq found'[c]
          /\ \A o \in found'[c] : o \in found[c] \/ (o[2] = jobs[o[1]] /\ o[2] # NoObject)
          /\ \A m \in Names : m \in at[c]..n /\ jobs[m] # NoObject => <<m, jobs[m]>> \in found'[c]
          /\ \A d \in Commands \ {c} : at'[d] = at[d] /\ found'[d] = found[d]
    BY <1>5, ListPageOK
  <2>3. \A o \in found'[c] : jobs[o[1]] = o[2] /\ o[2] # NoObject
    BY <2>2 DEF Listing
  <2>4. ASSUME NEW m \in before[c], m < n + 1
        PROVE  <<m, jobs[m]>> \in found'[c]
    <3>1. m \in Names /\ m \in Nat /\ jobs[m] # NoObject /\ at[c] \in Nat /\ n \in Nat
      BY <1>2, MaxSecondAssumption DEF Listing, Names, RegistryTypeOK
    <3>2. CASE m < at[c]
      BY <2>2, <3>2 DEF Listing
    <3>3. CASE ~(m < at[c])
      BY <2>2, <2>4, <3>1, <3>3
    <3> QED BY <3>2, <3>3
  <2> QED BY <2>1, <2>2, <2>3, <2>4 DEF Listing
<1> QED BY <1>3, <1>4, <1>5, NextActs
        DEF Acts, OpenFound, Claim, StartSave, RequestRecord, CreateObject, PreconditionError,
            Fails, ParseJobs, Mount, Kill, registryVars

LEMMA OutcomeKept ==
    ASSUME RegistryTypeOK, Outcome, [RegistryNext]_registryVars
    PROVE  Outcome'
<1>1. ASSUME NEW c \in Commands, ParseJobs(c)
      PROVE  Outcome'
  BY <1>1 DEF ParseJobs, Goto, Outcome, RegistryTypeOK
<1>2. ASSUME NEW c \in Commands, Mount(c)
      PROVE  Outcome'
  BY <1>2 DEF Mount, Goto, Outcome, RegistryTypeOK
<1>3. ASSUME NEW c \in Commands, ListPage(c)
      PROVE  Outcome'
  <2>1. /\ pc[c] = "list" /\ pc' = pc /\ chosen' = chosen
        /\ \A d \in Commands \ {c} : at'[d] = at[d] /\ found'[d] = found[d]
    BY <1>3 DEF ListPage, RegistryTypeOK
  <2> QED BY <2>1 DEF Outcome
<1>4. ASSUME NEW c \in Commands,
             \/ OpenFound(c) \/ Claim(c) \/ StartSave(c) \/ RequestRecord(c)
             \/ CreateObject(c, "marker") \/ CreateObject(c, "job")
             \/ PreconditionError(c, "marker") \/ PreconditionError(c, "job")
             \/ Fails(c) \/ StartList(c) \/ Kill(c)
      PROVE  Outcome'
  <2>1. /\ UNCHANGED <<at, found, chosen>>
        /\ \A d \in Commands : pc'[d] \in {"listed", "mounted", "no jobs", "unparsable"} => pc[d] = pc'[d]
    BY <1>4 DEF RegistryTypeOK, Awaits, OpenFound, Claim, StartSave, RequestRecord, CreateObject,
                PreconditionError, Fails, StartList, Kill, Goto
  <2> QED BY <2>1 DEF Outcome
<1>5. ASSUME UNCHANGED registryVars
      PROVE  Outcome'
  BY <1>5 DEF Outcome, registryVars
<1> QED BY <1>1, <1>2, <1>3, <1>4, <1>5, NextActs DEF Acts

-----------------------------------------------------------------------------
(* The invariant, and what follows                                         *)

LEMMA Invariance == RegistrySpec => []IInv
<1>1. IInv /\ [RegistryNext]_registryVars => IInv'
  BY TypeKept, OrderKept, KeysKept, RecordsKept, ListingKept, OutcomeKept DEF IInv
<1> QED BY <1>1, InitOK, PTL DEF RegistrySpec

\* A listing that has come to its end has found everything, and it is all jobs.
LEMMA ListedOK ==
    ASSUME IInv, NEW c \in Commands, at[c] > MaxSecond, ~Unparsable(found[c])
    PROVE  /\ \A n \in before[c] : <<n, jobs[n]>> \in found[c]
           /\ \A o \in ForParsing(found[c]) : \E d \in Savers : jobs[o[1]] = Job(d)
<1>1. \A n \in before[c] : n \in Nat /\ n <= MaxSecond
  BY MaxSecondAssumption DEF IInv, RegistryTypeOK, Names
<1>2. \A n \in before[c] : <<n, jobs[n]>> \in found[c]
  BY <1>1, MaxSecondAssumption DEF IInv, RegistryTypeOK, Listing
<1>3. ASSUME NEW o \in ForParsing(found[c])
      PROVE  \E d \in Savers : jobs[o[1]] = Job(d)
  <2>1. o \in found[c] /\ o[1] \in Names /\ jobs[o[1]] = o[2] /\ o[2] # NoObject
    BY <1>3 DEF ForParsing, IInv, RegistryTypeOK, Listing
  <2>2. o[2] # Foreign
    BY <1>3 DEF Unparsable
  <2>3. jobs[o[1]] \in Objects
    BY <2>1 DEF IInv, RegistryTypeOK
  <2> QED BY <2>1, <2>2, <2>3 DEF Objects
<1> QED BY <1>2, <1>3

LEMMA ListingFollows ==
    ASSUME IInv
    PROVE  ListingComplete /\ ParsesJobs /\ MountsNewest
<1>1. ListingComplete
  <2> SUFFICES ASSUME NEW c \in Commands, pc[c] \in {"listed", "mounted", "no jobs"},
                      NEW s \in before[c] \ {0}
               PROVE  /\ <<s, jobs[s]>> \in found[c]
                      /\ \E d \in Savers : jobs[s] = Job(d)
    BY DEF ListingComplete
  <2>1. at[c] > MaxSecond /\ ~Unparsable(found[c])
    BY DEF IInv, Outcome
  <2>2. <<s, jobs[s]>> \in found[c]
    BY <2>1, ListedOK
  <2>3. <<s, jobs[s]>> \in ForParsing(found[c])
    BY <2>2 DEF ForParsing
  <2> QED BY <2>1, <2>2, <2>3, ListedOK
<1>2. ParsesJobs
  <2> SUFFICES ASSUME NEW c \in Commands, pc[c] = "unparsable"
               PROVE  \E s \in Seconds : jobs[s] = Foreign
    BY DEF ParsesJobs
  <2>1. PICK o \in found[c] : o[1] # 0 /\ o[2] = Foreign
    BY DEF IInv, Outcome, Unparsable, ForParsing
  <2>2. o[1] \in Names /\ jobs[o[1]] = Foreign
    BY <2>1 DEF IInv, RegistryTypeOK, Listing
  <2> QED BY <2>1, <2>2, MaxSecondAssumption DEF Names, Seconds
<1>3. MountsNewest
  <2> SUFFICES ASSUME NEW c \in Commands, pc[c] = "mounted"
               PROVE  /\ \E d \in Savers : jobs[chosen[c]] = Job(d)
                      /\ \A s \in before[c] : s <= chosen[c]
    BY DEF MountsNewest
  <2>1. at[c] > MaxSecond /\ ~Unparsable(found[c])
    BY DEF IInv, Outcome
  <2>2. chosen[c] \in Newest(ForParsing(found[c]))
    BY DEF IInv, Outcome
  <2>3. PICK o \in ForParsing(found[c]) : o[1] = chosen[c]
    BY <2>2 DEF Newest
  <2>4. chosen[c] \in Nat /\ \A p \in ForParsing(found[c]) : p[1] <= chosen[c]
    BY <2>2, MaxSecondAssumption DEF Newest, Seconds
  <2>5. ASSUME NEW s \in before[c]
        PROVE  s <= chosen[c]
    <3>1. CASE s = 0
      BY <2>4, <3>1
    <3>2. CASE s # 0
      <4>1. <<s, jobs[s]>> \in ForParsing(found[c])
        BY <2>1, <3>2, ListedOK DEF ForParsing
      <4> QED BY <2>4, <4>1
    <3> QED BY <3>1, <3>2
  <2> QED BY <2>1, <2>3, <2>5, ListedOK
<1> QED BY <1>1, <1>2, <1>3

\* Every command is in a state of its own kind, for any number of commands,
\* passwords and objects (RequestRecord, ListBackups and newGCSRegistry).
THEOREM RegistryTypes == RegistrySpec => []RegistryTypeOK
BY Invariance, PTL DEF IInv

\* However many machines race for the bucket, with requests lost, repeated and
\* late, all that opened the registry have the one key (newGCSRegistry).
THEOREM OneKeyForAll == RegistrySpec => []OneKey
BY Invariance, PTL DEF IInv

\* The claimer's password is never refused (verifyCompatibleAndSetUpCrypter).
THEOREM RightPasswordAccepted == RegistrySpec => []RefusalIsDeserved
BY Invariance, PTL DEF IInv

\* A backup reported as recorded is in the registry for good, and one that is
\* refused is refused for the object that has its name (RequestRecord).
THEOREM RecordsAreTrue == RegistrySpec => [](ReportedMeansRecorded /\ RefusedMeansTaken)
BY Invariance, PTL DEF IInv

\* A listing that succeeds is complete and right, and mount takes the newest
\* backup (ListBackups, runMount).
THEOREM ListingsAreComplete == RegistrySpec => [](ListingComplete /\ ParsesJobs /\ MountsNewest)
BY Invariance, ListingFollows, PTL

\* No object of the registry is ever overwritten (the generation preconditions).
THEOREM NeverOverwrites == RegistrySpec => NothingOverwritten
<1>1. IInv /\ [RegistryNext]_registryVars =>
        [ /\ marker # NoMarker => marker' = marker
          /\ \A n \in Names : jobs[n] # NoObject => jobs'[n] = jobs[n] ]_<<marker, jobs>>
  BY NextKeeps DEF IInv, Stays
<1> QED BY <1>1, Invariance, PTL DEF RegistrySpec, NothingOverwritten
=============================================================================
