----------------------------- MODULE GcPipeline -----------------------------
(***************************************************************************)
(* gc and delete_garbage from the inside (gc.go, delete_garbage.go,        *)
(* blob.ListScores): a chain of stages, each one goroutine or a pool of    *)
(* them, joined by bounded channels.  Errors stop the chain through the    *)
(* contexts of nested errgroups: a failing goroutine cancels those of its  *)
(* own group at once, and the whole command only when its group, or its    *)
(* stage, has ended.  Backups has gc among the other commands.             *)
(***************************************************************************)
EXTENDS Integers, Sequences, FiniteSets

CONSTANTS
    Object,      \* the scores of the objects the command lists
    InUse,       \* the scores its input mentions (accessibleScores)
    Pipeline     \* the commands, by name: a record of
                 \* kind      what each stage does, the first lists, the last deletes
                 \* task      stage -> the goroutine of the command's errgroup it is part of
                 \* stage     goroutine -> the stage it works for
                 \* share     list goroutines -> the objects with their prefix
                 \* capacity  stage -> room in the channel to the next; 0: unbuffered
                 \* source    what the last stage deletes: "blobs" or "garbage"

Command == DOMAIN Pipeline
NoItem == "none"

\* A chain as gc.go and delete_garbage.go set it up: it lists first and deletes
\* last; gc clones, and clones only what it has filtered, delete_garbage does
\* neither.
IsChain(p) ==
    LET stages == DOMAIN p.kind
        of(s) == {w \in DOMAIN p.stage : p.stage[w] = s}
    IN  /\ p.kind \in Seq({"list", "parse", "count", "filter", "clone", "delete"})
        /\ p.kind # <<>>
        /\ \A s \in stages : p.kind[s] = "list" <=> s = 1
        /\ \A s \in stages : p.kind[s] = "delete" <=> s = Len(p.kind)
        /\ DOMAIN p.task = stages /\ p.capacity \in [stages -> Nat]
        /\ \A w \in DOMAIN p.stage : p.stage[w] \in stages
        /\ \A s \in stages : of(s) # {}
        /\ UNION {p.share[w] : w \in of(1)} = Object
        /\ p.source \in {"blobs", "garbage"}
        /\ p.source = "blobs" <=> \E s \in stages : p.kind[s] = "clone"
        /\ \A s \in stages :
              /\ p.kind[s] = "clone" => \E f \in stages : f < s /\ p.kind[f] = "filter"
              /\ p.kind[s] = "filter" => p.source = "blobs"

ASSUME PipelineAssumption ==
    /\ InUse \subseteq Object /\ NoItem \notin Object
    /\ \A c \in Command : IsChain(Pipeline[c])

VARIABLES
    command,    \* the command that was given
    blobs,      \* objects under blobs/
    garbage,    \* objects under garbage/
    pc,         \* where each goroutine is
    item,       \* what it has in hand
    unsent,     \* list workers: objects of the listing not yet passed on
    erring,     \* clone workers whose err is set although their loop goes on
    chan,       \* the channel behind each stage
    closed,     \* stages whose channel is closed
    result      \* what the command returned, or "running"

bucket == <<blobs, garbage>>
vars == <<command, bucket, pc, item, unsent, erring, chan, closed, result>>

Kind == Pipeline[command].kind
Task == Pipeline[command].task
Stage == Pipeline[command].stage
Share == Pipeline[command].share
Capacity == Pipeline[command].capacity
Source == Pipeline[command].source

Stages == DOMAIN Kind
Last == Len(Kind)
Worker == DOMAIN Stage
Of(s) == {w \in Worker : Stage[w] = s}

PCs == {"fetch",    \* about to ask for a listing
        "take",     \* about to receive
        "work",     \* in CopyObject or DeleteObject
        "send",     \* in the select between the channel and ctx.Done
        "done", "failed"}

TypeOK ==
    /\ command \in Command
    /\ blobs \subseteq Object /\ garbage \subseteq Object
    /\ pc \in [Worker -> PCs] /\ item \in [Worker -> Object \cup {NoItem}]
    /\ \A w \in Worker : pc[w] \in {"work", "send"} <=> item[w] # NoItem
    /\ \A w \in Worker : unsent[w] \subseteq Object
    /\ erring \subseteq Worker /\ closed \subseteq Stages
    /\ \A s \in Stages : Len(chan[s]) <= Capacity[s]
    /\ result \in {"running", "ok", "error"}

Init ==
    /\ command \in Command
    /\ blobs = IF Source = "blobs" THEN Object ELSE {}
    /\ garbage = IF Source = "blobs" THEN {} ELSE Object
    /\ pc = [w \in Worker |-> IF Stage[w] = 1 THEN "fetch" ELSE "take"]
    /\ item = [w \in Worker |-> NoItem]
    /\ unsent = [w \in Worker |-> {}]
    /\ erring = {} /\ chan = [s \in Stages |-> <<>>] /\ closed = {}
    /\ result = "running"

------------------------------------------------------------------------------
(* Errors and cancellation                                                 *)

Over(w) == pc[w] \in {"done", "failed"}
Ended(s) == \A w \in Of(s) : Over(w)
Failed(s) == Ended(s) /\ \E w \in Of(s) : pc[w] = "failed"
SameTask(s) == {t \in Stages : Task[t] = Task[s]}

\* The command's errgroup has seen an error: a goroutine of it has returned,
\* after its deferred close.
CommandCancelled ==
    \E s \in Stages :
        /\ \A t \in SameTask(s) : Ended(t) /\ (t \in closed \/ t = Last)
        /\ \E t \in SameTask(s) : Failed(t)

\* Within ListScores it is the first goroutine that closes a channel of its own.
FailureSeen(t) == Failed(t) /\ (t \in closed \/ t + 1 \notin SameTask(t))

\* The context the goroutines of stage s were given is done.
Cancelled(s) ==
    \/ CommandCancelled
    \/ \E t \in SameTask(s) \ {s} : FailureSeen(t)
    \/ \E w \in Of(s) : pc[w] = "failed"

Become(w, where, what) ==
    /\ pc' = [pc EXCEPT ![w] = where]
    /\ item' = [item EXCEPT ![w] = what]

Fail(w) == Become(w, "failed", NoItem)

------------------------------------------------------------------------------
(* ListBlobObjects: one goroutine per prefix                               *)

ListObjects(w) ==
    /\ pc[w] = "fetch"
    /\ unsent' = [unsent EXCEPT ![w] =
                     Share[w] \cap (IF Source = "blobs" THEN blobs ELSE garbage)]
    /\ Become(w, "take", NoItem)
    /\ UNCHANGED <<command, bucket, erring, chan, closed, result>>

\* The listing, or a later page of it, cannot be had.
ListObjectsFails(w) ==
    /\ Stage[w] = 1 /\ pc[w] \in {"fetch", "take"} /\ Fail(w)
    /\ UNCHANGED <<command, bucket, unsent, erring, chan, closed, result>>

PassOnListed(w) ==
    /\ Stage[w] = 1 /\ pc[w] = "take"
    /\ \E o \in unsent[w] : /\ unsent' = [unsent EXCEPT ![w] = @ \ {o}]
                            /\ Become(w, "send", o)
    /\ UNCHANGED <<command, bucket, erring, chan, closed, result>>

ListingDone(w) ==
    /\ Stage[w] = 1 /\ pc[w] = "take" /\ unsent[w] = {}
    /\ Become(w, "done", NoItem)
    /\ UNCHANGED <<command, bucket, unsent, erring, chan, closed, result>>

------------------------------------------------------------------------------
(* Receiving and sending                                                   *)

\* Mutant: every score listed is garbage.
KeepNothing(s, o) == s \notin Stages /\ o \in Object

\* filterToGarbage
Keep(s, o) == Kind[s] = "filter" /\ o \in InUse

After(s, o) ==
    IF Keep(s, o) THEN "take"
    ELSE IF Kind[s] \in {"clone", "delete"} THEN "work" ELSE "send"

Accept(w, o) ==
    LET where == After(Stage[w], o) IN
    Become(w, where, IF where = "take" THEN NoItem ELSE o)

Receive(w) ==
    LET in == Stage[w] - 1 IN
    /\ Stage[w] > 1 /\ pc[w] = "take" /\ chan[in] # <<>>
    /\ Accept(w, Head(chan[in]))
    /\ chan' = [chan EXCEPT ![in] = Tail(@)]
    /\ UNCHANGED <<command, bucket, unsent, erring, closed, result>>

\* ParseObjectRecord refuses the object.
ParseFails(w) ==
    LET in == Stage[w] - 1 IN
    /\ Kind[Stage[w]] = "parse" /\ pc[w] = "take" /\ chan[in] # <<>>
    /\ Fail(w) /\ chan' = [chan EXCEPT ![in] = Tail(@)]
    /\ UNCHANGED <<command, bucket, unsent, erring, closed, result>>

\* The channel is closed and empty.
LoopEnds(w) ==
    LET in == Stage[w] - 1 IN
    /\ Stage[w] > 1 /\ pc[w] = "take" /\ chan[in] = <<>> /\ in \in closed
    /\ Become(w, IF w \in erring THEN "failed" ELSE "done", NoItem)
    /\ UNCHANGED <<command, bucket, unsent, erring, chan, closed, result>>

Send(w) ==
    LET s == Stage[w] IN
    /\ pc[w] = "send" /\ Len(chan[s]) < Capacity[s]
    /\ chan' = [chan EXCEPT ![s] = Append(@, item[w])]
    /\ Become(w, "take", NoItem)
    /\ UNCHANGED <<command, bucket, unsent, erring, closed, result>>

\* An unbuffered channel passes the item from hand to hand.
HandOver(w, v) ==
    LET s == Stage[w] IN
    /\ pc[w] = "send" /\ Capacity[s] = 0
    /\ Stage[v] = s + 1 /\ pc[v] = "take"
    /\ pc' = [pc EXCEPT ![w] = "take", ![v] = After(s + 1, item[w])]
    /\ item' = [item EXCEPT ![w] = NoItem,
                             ![v] = IF After(s + 1, item[w]) = "take" THEN NoItem ELSE item[w]]
    /\ UNCHANGED <<command, bucket, unsent, erring, chan, closed, result>>

\* Mutant: the counting goroutine sends without an eye on the context.
GiveUpExceptCounting(w) ==
    LET s == Stage[w] IN
    /\ pc[w] = "send" /\ Cancelled(s) /\ Kind[s] # "count"
    /\ IF Kind[s] = "clone"
       THEN erring' = erring \cup {w} /\ Become(w, "take", NoItem)
       ELSE UNCHANGED erring /\ Fail(w)
    /\ UNCHANGED <<command, bucket, unsent, chan, closed, result>>

\* ctx.Done.  A clone worker notes the error and goes on receiving.
GiveUp(w) ==
    LET s == Stage[w] IN
    /\ pc[w] = "send" /\ Cancelled(s)
    /\ IF Kind[s] = "clone"
       THEN erring' = erring \cup {w} /\ Become(w, "take", NoItem)
       ELSE UNCHANGED erring /\ Fail(w)
    /\ UNCHANGED <<command, bucket, unsent, chan, closed, result>>

------------------------------------------------------------------------------
(* cloneGarbage and deleteObjects                                          *)

\* Mutant: an object that cannot be copied is passed on all the same.
CopyObjectQuietly(w) ==
    /\ pc[w] = "work" /\ Kind[Stage[w]] = "clone"
    /\ Become(w, "send", item[w])
    /\ UNCHANGED <<command, bucket, unsent, erring, chan, closed, result>>

CopyObject(w) ==
    /\ pc[w] = "work" /\ Kind[Stage[w]] = "clone"
    /\ garbage' = garbage \cup {item[w]}
    /\ erring' = erring \ {w}          \* the loop overwrites err
    /\ Become(w, "send", item[w])
    /\ UNCHANGED <<command, blobs, unsent, chan, closed, result>>

\* Mutant: the worker's error is lost.
CopyObjectUnnoticed(w) ==
    /\ pc[w] = "work" /\ Kind[Stage[w]] = "clone"
    /\ Become(w, "done", NoItem)
    /\ UNCHANGED <<command, bucket, unsent, erring, chan, closed, result>>

\* The request fails, perhaps after it has taken effect.
CopyObjectFails(w) ==
    /\ pc[w] = "work" /\ Kind[Stage[w]] = "clone"
    /\ garbage' \in {garbage, garbage \cup {item[w]}}
    /\ Fail(w)
    /\ UNCHANGED <<command, blobs, unsent, erring, chan, closed, result>>

Remove(o) ==
    IF Source = "blobs"
    THEN blobs' = blobs \ {o} /\ UNCHANGED garbage
    ELSE garbage' = garbage \ {o} /\ UNCHANGED blobs

DeleteObject(w) ==
    /\ pc[w] = "work" /\ Kind[Stage[w]] = "delete"
    /\ Remove(item[w])
    /\ Become(w, "take", NoItem)
    /\ UNCHANGED <<command, unsent, erring, chan, closed, result>>

DeleteObjectFails(w) ==
    /\ pc[w] = "work" /\ Kind[Stage[w]] = "delete"
    /\ Remove(item[w]) \/ UNCHANGED bucket
    /\ Fail(w)
    /\ UNCHANGED <<command, unsent, erring, chan, closed, result>>

------------------------------------------------------------------------------
(* Ends                                                                    *)

\* The deferred close.  ListScores returns, and its channel is closed, when
\* both its goroutines have ended.
Close(s) ==
    /\ s \in Stages \ closed /\ s # Last
    /\ \A t \in SameTask(s) : t <= s => Ended(t)
    /\ closed' = closed \cup {s}
    /\ UNCHANGED <<command, bucket, pc, item, unsent, erring, chan, result>>

\* eg.Wait in the command.
Return ==
    /\ result = "running"
    /\ \A s \in Stages : Ended(s) /\ (s \in closed \/ s = Last)
    /\ result' = IF \E s \in Stages : Failed(s) THEN "error" ELSE "ok"
    /\ UNCHANGED <<command, bucket, pc, item, unsent, erring, chan, closed>>

Step(w) ==
    /\ w \in Worker
    /\ \/ ListObjects(w) \/ ListObjectsFails(w) \/ PassOnListed(w) \/ ListingDone(w)
       \/ Receive(w) \/ ParseFails(w) \/ LoopEnds(w)
       \/ Send(w) \/ GiveUp(w) \/ \E v \in Worker : HandOver(w, v)
       \/ CopyObject(w) \/ CopyObjectFails(w)
       \/ DeleteObject(w) \/ DeleteObjectFails(w)

Next ==
    \/ \E w \in Worker : Step(w)
    \/ \E s \in Stages : Close(s)
    \/ Return
    \/ result # "running" /\ UNCHANGED vars

Spec == Init /\ [][Next]_vars

\* Every goroutine is scheduled; a request ends, well or not.
FairSpec ==
    /\ Spec
    /\ \A w \in UNION {DOMAIN Pipeline[c].stage : c \in Command} : WF_vars(Step(w))
    /\ \A s \in UNION {DOMAIN Pipeline[c].kind : c \in Command} : WF_vars(Close(s))
    /\ WF_vars(Return)

------------------------------------------------------------------------------
(* Properties                                                              *)

\* gc deletes an object only when its copy is there, and never one its input
\* mentions (cloneGarbage passes on "the names of the source objects that
\* were cloned"), whichever requests fail and whoever was cancelled; the names
\* it has in hand are those it was given (TypeOK).
OnlyCopiedGarbageDeleted ==
    /\ TypeOK
    /\ Source = "blobs" => Object \ blobs \subseteq garbage \ InUse

\* If the command says it succeeded, no error was lost on the way: all that
\* was listed has been moved, or deleted.
SuccessMeansAll ==
    result = "ok" => IF Source = "blobs"
                     THEN /\ blobs = InUse
                          /\ garbage = Object \ InUse
                     ELSE garbage = {}

\* The command comes to an end, although a stage that has failed no longer
\* receives and the ones before it are stuck with full channels.
CommandReturns == <>(result # "running")

\* What the rest of the commands see of gc: it is the one of Backups.
NotCopied == (Object \ InUse) \ garbage
Copied == garbage \cap blobs
Gc == INSTANCE Backups WITH
        Process <- {}, Blob <- Object, Tree <- {}, Files <- <<>>,
        GcInput <- "none", Overlap <- TRUE, ForgetState <- FALSE,
        bucket <- blobs, recorded <- {}, stateFile <- {}, proc <- <<>>,
        log <- {}, output <- {}, verified <- {},
        gc <- IF result = "running"
              THEN [pc |-> "moving", toClone |-> NotCopied, toDelete |-> Copied]
              ELSE [pc |-> "off"]

\* Each step of the pipeline clones one blob, deletes one that was cloned, or
\* ends the command, as Backups has it (or is not seen there).
MovesAsInBackups ==
    [][ Source = "blobs" =>
          \/ \E o \in Object : Gc!CloneGarbage(o) \/ Gc!DeleteObject(o)
          \/ Gc!EndGC ]_<<blobs, garbage, result>>
=============================================================================
