------------------------------ MODULE Backups ------------------------------
(***************************************************************************)
(* The commands of comeback against one bucket and one state file: saves   *)
(* (save.go) that may run at the same time and be killed at any moment,    *)
(* verify (verify.go), and gc (gc.go), which moves to garbage/ every blob  *)
(* the verify output it is given does not mention.                         *)
(*                                                                         *)
(* A tree is the listing blob of a base path; below it are the blobs of    *)
(* its files, one each.  SavePipeline has the inside of a save.            *)
(***************************************************************************)
EXTENDS Naturals

CONSTANTS
    Process,      \* runs of the save command
    Blob,         \* encrypted blobs, or their scores
    Tree,         \* the blobs that are root listings
    Files,        \* the blobs listed in each tree
    GcInput,      \* "log": gc reads ~/.comeback.verify.log; "stdout": the
                  \* captured output of the last verify run
    Overlap,      \* may gc run at the same time as, or after, saves that the
                  \* verify run behind its input has not seen?
    ForgetState   \* does the operator remove the state file before gc?

ASSUME TreeAssumption ==
    /\ Tree \subseteq Blob
    /\ Files \in [Tree -> SUBSET (Blob \ Tree)]
ASSUME OperatorAssumption ==
    /\ GcInput \in {"log", "stdout", "none"}
    /\ Overlap \in BOOLEAN /\ ForgetState \in BOOLEAN

VARIABLES
    bucket,      \* the scores with an object under blobs/
    garbage,     \* the scores with an object under garbage/
    recorded,    \* the trees of the jobs in the registry
    stateFile,   \* the state file
    proc,        \* the saves
    log,         \* the trees with a record in ~/.comeback.verify.log
    output,      \* the scores in the stdout of the last verify run
    verified,    \* the trees that run was told to verify
    gc           \* the gc run

verifyVars == <<log, output, verified>>
vars == <<bucket, garbage, recorded, stateFile, proc, verifyVars, gc>>

Below(t) == {t} \cup Files[t]
AllBelow(trees) == UNION {Below(t) : t \in trees}

\* state.State.  relist tells the age of RelistTime; a missing file is a state
\* in which nothing was ever listed.
States == [existing : SUBSET Blob, scoreMap : SUBSET Blob,
           relist : {"never", "recent", "old"}]
NoState == [existing |-> {}, scoreMap |-> {}, relist |-> "never"]

\* No save, and no gc, in progress.
Idle == [pc |-> "off"]

\* runSave: the base path's listing, and the blobs dealt with so far.
Saves == {Idle} \cup [pc : {"loaded", "saving", "recorded"}, tree : Tree,
                      done : SUBSET Blob, state : States]

\* runGC: first the scores to keep, then those to clone and to delete.
GcRuns == {Idle} \cup [pc : {"listing"}, accessible : SUBSET Blob]
                \cup [pc : {"moving"}, toClone : SUBSET Blob, toDelete : SUBSET Blob]

Init ==
    /\ bucket = {} /\ garbage = {} /\ recorded = {}
    /\ stateFile = NoState
    /\ proc = [p \in Process |-> Idle]
    /\ log = {} /\ output = {} /\ verified = {}
    /\ gc = Idle

------------------------------------------------------------------------------
(* save                                                                    *)

\* makeState: re-list when ExistingScores is missing or 30 days old; the score
\* map is kept unless -discard_score_cache says otherwise.
MakeState(s, discard) ==
    [existing |-> IF s.relist = "recent" THEN s.existing ELSE bucket,
     scoreMap |-> IF discard THEN {} ELSE s.scoreMap,
     relist |-> "recent"]

Loaded(p) == proc[p].pc # "off"
At(p, pc) == proc[p].pc = pc

\* A save's place, its tree, the blobs it has dealt with, and its g_state.
Run(pc, tree, done, state) ==
    [pc |-> pc, tree |-> tree, done |-> done, state |-> state]
Become(p, run) == proc' = [proc EXCEPT ![p] = run]
Go(p, pc) == Become(p, Run(pc, proc[p].tree, proc[p].done, proc[p].state))

LoadState(p) ==
    /\ At(p, "off")
    /\ Overlap \/ gc = Idle
    /\ \E t \in Tree, discard \in BOOLEAN :
           Become(p, Run("loaded", t, {}, MakeState(stateFile, discard)))
    /\ UNCHANGED <<bucket, garbage, recorded, stateFile, verifyVars, gc>>

\* initState writes the state back.  A verify or a mount does this much, and
\* nothing else to the state: as a save that is killed here.
InitState(p) ==
    /\ At(p, "loaded")
    /\ stateFile' = proc[p].state
    /\ Go(p, "saving")
    /\ UNCHANGED <<bucket, garbage, recorded, verifyVars, gc>>

\* The blobs save.Save is at: the files in any order, then the listing.
Due(p) ==
    LET t == proc[p].tree
        files == Files[t] \ proc[p].done
    IN  IF files # {} THEN files ELSE {t} \ proc[p].done

\* The score map knows the file.
SkipFile(p, b) ==
    /\ At(p, "saving") /\ b \in Due(p)
    /\ b \in proc[p].state.scoreMap
    /\ Become(p, Run("saving", proc[p].tree, proc[p].done \cup {b}, proc[p].state))
    /\ UNCHANGED <<bucket, garbage, recorded, stateFile, verifyVars, gc>>

\* existingScoresStore passes the blob on only if its score is unknown; the
\* score map learns of files that are old enough.
Stored(p, b) ==
    \E known \in {{}, {b} \ Tree} :
        Become(p, Run("saving", proc[p].tree, proc[p].done \cup {b},
                      [existing |-> proc[p].state.existing \cup {b},
                       scoreMap |-> proc[p].state.scoreMap \cup known,
                       relist |-> proc[p].state.relist]))

SaveBlob(p, b) ==
    /\ At(p, "saving") /\ b \in Due(p)
    /\ b \notin proc[p].state.scoreMap
    /\ bucket' = IF b \in proc[p].state.existing THEN bucket ELSE bucket \cup {b}
    /\ Stored(p, b)
    /\ UNCHANGED <<garbage, recorded, stateFile, verifyVars, gc>>

\* Mutant: the error is dropped on the way up.
SaveBlobFailsQuietly(p, b) ==
    /\ At(p, "saving") /\ b \in Due(p)
    /\ b \notin proc[p].state.scoreMap \cup proc[p].state.existing
    /\ Stored(p, b)
    /\ UNCHANGED <<bucket, garbage, recorded, stateFile, verifyVars, gc>>

\* The request fails, perhaps after it took effect; save.Save returns the
\* error and the process ends.
SaveBlobFails(p, b) ==
    /\ At(p, "saving") /\ b \in Due(p)
    /\ b \notin proc[p].state.scoreMap \cup proc[p].state.existing
    /\ bucket' \in {bucket, bucket \cup {b}}
    /\ Become(p, Idle)
    /\ UNCHANGED <<garbage, recorded, stateFile, verifyVars, gc>>

\* saveStatePeriodically, at any moment of the save.
SaveStatePeriodically(p) ==
    /\ At(p, "saving")
    /\ stateFile' = proc[p].state
    /\ UNCHANGED <<bucket, garbage, recorded, proc, verifyVars, gc>>

RecordBackup(p) ==
    /\ At(p, "saving") /\ Due(p) = {}
    /\ recorded' = recorded \cup {proc[p].tree}
    /\ Go(p, "recorded")
    /\ UNCHANGED <<bucket, garbage, stateFile, verifyVars, gc>>

SaveFinalState(p) ==
    /\ At(p, "recorded")
    /\ stateFile' = proc[p].state
    /\ Become(p, Idle)
    /\ UNCHANGED <<bucket, garbage, recorded, verifyVars, gc>>

\* The process is killed, or gives up.
Crash(p) ==
    /\ Loaded(p)
    /\ Become(p, Idle)
    /\ UNCHANGED <<bucket, garbage, recorded, stateFile, verifyVars, gc>>

\* Thirty days go by between two commands.
StateGetsOld ==
    /\ stateFile.relist = "recent"
    /\ \A p \in Process : ~Loaded(p)
    /\ stateFile' = [existing |-> stateFile.existing,
                     scoreMap |-> stateFile.scoreMap, relist |-> "old"]
    /\ UNCHANGED <<bucket, garbage, recorded, proc, verifyVars, gc>>

------------------------------------------------------------------------------
(* verify                                                                  *)

\* A successful run over all recorded jobs.  A directory known from the log
\* (less than 90 days old: any part of it) is not loaded and emits no record;
\* files emit one each, unless -fast.
Emitted(trees, known, fast) ==
    AllBelow(trees \ known) \cup (IF fast THEN {} ELSE UNION {Files[t] : t \in trees})

Verify ==
    /\ GcInput # "none"
    /\ Overlap \/ gc = Idle
    /\ AllBelow(recorded) \subseteq bucket
    /\ \E known \in SUBSET log, fast \in BOOLEAN :
           output' = Emitted(recorded, known, fast)
    /\ log' = log \cup recorded
    /\ verified' = recorded
    /\ UNCHANGED <<bucket, garbage, recorded, stateFile, proc, gc>>

\* A run that fails or is killed has logged some of the directories.
VerifyFails ==
    /\ GcInput # "none"
    /\ Overlap \/ gc = Idle
    /\ \E trees \in SUBSET (recorded \cap bucket) : log' = log \cup trees
    /\ UNCHANGED <<bucket, garbage, recorded, stateFile, proc, output, verified, gc>>

------------------------------------------------------------------------------
(* gc                                                                      *)

\* Mutant: the children in the records are forgotten.
AccessibleParents == IF GcInput = "log" THEN log ELSE output

\* The scores in the records gc is given, children included.
Accessible == IF GcInput = "log" THEN AllBelow(log) ELSE output

\* The verify run behind the input saw everything there is to keep.
Covered == verified = recorded /\ recorded # {} /\ \A p \in Process : ~Loaded(p)

StartGC ==
    /\ gc = Idle /\ GcInput # "none"
    /\ Overlap \/ Covered
    /\ gc' = [pc |-> "listing", accessible |-> Accessible]
    /\ stateFile' = IF ForgetState THEN NoState ELSE stateFile
    /\ UNCHANGED <<bucket, garbage, recorded, proc, verifyVars>>

Moving(toClone, toDelete) ==
    [pc |-> "moving", toClone |-> toClone, toDelete |-> toDelete]

\* ListScores and filterToGarbage.
ListGarbage ==
    /\ gc.pc = "listing"
    /\ gc' = Moving(bucket \ gc.accessible, {})
    /\ UNCHANGED <<bucket, garbage, recorded, stateFile, proc, verifyVars>>

\* cloneGarbage passes on the name once the copy exists.
CloneGarbage(b) ==
    /\ gc.pc = "moving" /\ b \in gc.toClone
    /\ garbage' = garbage \cup {b}
    /\ gc' = Moving(gc.toClone \ {b}, gc.toDelete \cup {b})
    /\ UNCHANGED <<bucket, recorded, stateFile, proc, verifyVars>>

DeleteObject(b) ==
    /\ gc.pc = "moving" /\ b \in gc.toDelete
    /\ bucket' = bucket \ {b}
    /\ gc' = Moving(gc.toClone, gc.toDelete \ {b})
    /\ UNCHANGED <<garbage, recorded, stateFile, proc, verifyVars>>

\* Done, failed or killed.
EndGC ==
    /\ gc # Idle
    /\ gc' = Idle
    /\ UNCHANGED <<bucket, garbage, recorded, stateFile, proc, verifyVars>>

------------------------------------------------------------------------------
SaveStep(p) ==
    \/ LoadState(p) \/ InitState(p)
    \/ \E b \in Blob : SkipFile(p, b) \/ SaveBlob(p, b) \/ SaveBlobFails(p, b)
    \/ SaveStatePeriodically(p) \/ RecordBackup(p) \/ SaveFinalState(p)
    \/ Crash(p)

VerifyStep == Verify \/ VerifyFails

GcStep ==
    \/ StartGC \/ ListGarbage
    \/ \E b \in Blob : CloneGarbage(b) \/ DeleteObject(b)
    \/ EndGC

Next == (\E p \in Process : SaveStep(p)) \/ StateGetsOld \/ VerifyStep \/ GcStep

Spec == Init /\ [][Next]_vars

------------------------------------------------------------------------------
(* Properties                                                              *)

TypeOK ==
    /\ bucket \subseteq Blob /\ garbage \subseteq Blob /\ output \subseteq Blob
    /\ recorded \subseteq Tree /\ log \subseteq Tree /\ verified \subseteq Tree
    /\ stateFile \in States
    /\ proc \in [Process -> Saves]
    /\ \A p \in Process : Loaded(p) => proc[p].done \subseteq Below(proc[p].tree)
    /\ gc \in GcRuns

\* Every backup in the registry can be restored: its listing and all files are
\* in the bucket, whatever was killed on the way and in whatever order several
\* processes wrote the state file.
RecordedBackupsIntact == AllBelow(recorded) \subseteq bucket

\* "existingScores must contain only scores that are known to exist in the
\* bucket" (save.Save), while a save uses it.
ExistingScoresExist ==
    \A p \in Process : At(p, "saving") => proc[p].state.existing \subseteq bucket

\* What the next run will believe is true, score map included, unless it
\* re-lists.
StateFileIsTrue ==
    /\ stateFile.relist = "recent" => stateFile.existing \subseteq bucket
    /\ stateFile.scoreMap \subseteq bucket

\* gc only ever moves blobs: whatever it was told, whoever saves at the same
\* time and wherever it is killed, each blob of a recorded backup still
\* exists, in blobs/ or in garbage/.
NothingLost == AllBelow(recorded) \subseteq bucket \cup garbage

=============================================================================
