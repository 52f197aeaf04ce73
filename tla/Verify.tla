------------------------------- MODULE Verify -------------------------------
(***************************************************************************)
(* The verify command (verify.go, internal/verify): runs that walk every   *)
(* recorded backup, over the contract of the walk that DagTraversal        *)
(* states, and append a record for each node they checked to a log that    *)
(* the next run reads, not to check the same directories again.            *)
(*                                                                         *)
(* A run may be killed, the log may be cut in the middle of a line (power  *)
(* failure, full disk), its records grow stale, blobs may vanish from the  *)
(* bucket, and loads may fail.  A score is identified with its node.       *)
(***************************************************************************)
EXTENDS Integers, Sequences, FiniteSets

CONSTANTS
    Node,       \* the nodes of the recorded backups
    Dir,        \* those that are directory listings
    Children,   \* Node -> the nodes its listing refers to, in order
    Roots,      \* the root listings of the recorded backups
    Capacity,   \* room in the records channel
    CutPoints,  \* where a line of the log may be cut: see Cut
    MaxRuns, MaxLost   \* bounds: runs of the command, blobs that vanish

ASSUME VerifyAssumption ==
    /\ Dir \subseteq Node /\ Roots \subseteq Dir
    /\ Children \in [Node -> Seq(Node)]
    /\ \A n \in Node \ Dir : Children[n] = <<>>
    /\ Capacity \in Nat \ {0} /\ MaxRuns \in Nat /\ MaxLost \in Nat
    /\ CutPoints \subseteq {"torn", "unterminated", "space"}

VARIABLES
    bucket,     \* the nodes whose blobs are in the bucket
    log,        \* the lines of ~/.comeback.verify.log
    runs,       \* runs started so far
    pc,         \* where the command is; "idle" when none runs
    readFiles,  \* the run was not given --fast
    known,      \* knownStructure, from the log
    listing,    \* allScores, the nodes seen when the bucket was listed
    answers,    \* what FindDependencies answers in this run
    phase, outcome,   \* the walk (DagTraversal)
    sending,    \* nodes whose load is done and whose record is not sent
    loaded,     \* nodes whose blob this run has read
    records,    \* the records channel
    writer,     \* the goroutine that writes records out
    result      \* how the last run ended

world == <<bucket, log>>
inputs == <<readFiles, known, listing, answers>>
walk == <<phase, outcome>>
calls == <<sending, loaded>>
vars == <<world, runs, pc, inputs, walk, calls, records, writer, result>>

Walk == INSTANCE DagTraversal WITH
            Start <- Roots, Graphs <- {Children}, graph <- answers

------------------------------------------------------------------------------
(* The log: records as lines                                               *)

Record(n) == [node |-> n, kids |-> Children[n]]

\* Mutant: the record leaves the files of a directory out.
RecordDirsOnly(n) ==
    [node |-> n, kids |-> SelectSeq(Children[n], LAMBDA m : m \in Dir)]

\* A record as Record.String formats it: node names separated by spaces, and
\* the newline of verifyImpl.
RecordOf(n) == Record(n)
Line(r, end) == [node |-> r.node, kids |-> r.kids, end |-> end, stale |-> FALSE]

\* What can be left of the line of r: cut inside a name; cut before the
\* newline; or cut right after the space that ends the k-th child's name.
Cut(r) ==
    (IF "torn" \in CutPoints THEN {Line(r, "torn")} ELSE {})
    \cup (IF "unterminated" \in CutPoints THEN {Line(r, "unterminated")} ELSE {})
    \cup (IF "space" \in CutPoints
          THEN {Line([node |-> r.node, kids |-> SubSeq(r.kids, 1, k)], "space") :
                   k \in 0..(Len(r.kids) - 1)}
          ELSE {})

Front(s) == SubSeq(s, 1, Len(s) - 1)
Last(s) == s[Len(s)]

\* The file is opened for appending: what follows a line that has no newline
\* becomes part of it, and the time of the new record is no node's name.
AppendLine(line) ==
    IF log # <<>> /\ Last(log).end = "space"
    THEN Append(Front(log), [Last(log) EXCEPT !.end = "torn"])
    ELSE Append(log, line)

\* parseVerifyOutput takes one byte off every line.  The one it takes off a
\* line without a newline is part of a name, or a space.
Readable(l) == l.end \in {"newline", "space"}

\* parseKnownStructure: the last fresh record of a node counts.
Fresh(n) == {k \in DOMAIN log : log[k].node = n /\ ~log[k].stale}
KnownStructure ==
    LET nodes == {n \in Node : Fresh(n) # {}} IN
    [n \in nodes |-> log[CHOOSE k \in Fresh(n) : \A j \in Fresh(n) : j <= k].kids]

NoKnown == [n \in {} |-> <<>>]

------------------------------------------------------------------------------
IsLine(l) ==
    /\ l.node \in Node /\ l.kids \in Seq(Node) /\ l.stale \in BOOLEAN
    /\ l.end \in {"newline", "torn", "unterminated", "space"}

TypeOK ==
    /\ bucket \subseteq Node /\ \A k \in DOMAIN log : IsLine(log[k])
    /\ \A k \in DOMAIN log : k < Len(log) => log[k].end = "newline"
    /\ runs \in 0..MaxRuns
    /\ pc \in {"idle", "open", "list", "walking", "closed"}
    /\ DOMAIN known \subseteq Node /\ listing \subseteq Node
    /\ phase \in [Node -> Walk!Phases] /\ outcome \in Walk!Outcomes
    /\ sending \subseteq loaded /\ loaded \subseteq Node
    /\ Len(records) <= Capacity
    /\ writer \in {"writing", "failed", "done"}
    /\ result \in {"none", "ok", "error", "badLog"}

Init ==
    /\ bucket = Node /\ log = <<>> /\ runs = 0
    /\ pc = "idle" /\ result = "none"
    /\ readFiles = FALSE /\ known = NoKnown /\ listing = {}
    /\ answers = Children
    /\ phase = [n \in Node |-> "idle"] /\ outcome = "running"
    /\ sending = {} /\ loaded = {} /\ records = <<>> /\ writer = "writing"

------------------------------------------------------------------------------
(* runVerify up to the walk                                                *)

Start ==
    /\ pc = "idle" /\ runs < MaxRuns
    /\ runs' = runs + 1 /\ pc' = "open" /\ result' = "none"
    /\ readFiles' \in BOOLEAN
    /\ UNCHANGED <<world, known, listing, answers, walk, calls, records, writer>>

\* How a run ends, in an order that resets what the process held.
End(how) ==
    /\ pc' = "idle" /\ result' = how
    /\ known' = NoKnown /\ answers' = Children
    /\ phase' = [n \in Node |-> "idle"] /\ outcome' = "running"
    /\ sending' = {} /\ records' = <<>> /\ writer' = "writing"

\* openVerifyLog: one line it cannot parse, and the run is over.
OpenLog ==
    /\ pc = "open"
    /\ IF \A k \in DOMAIN log : Readable(log[k])
       THEN /\ known' = KnownStructure /\ pc' = "list"
            /\ UNCHANGED <<answers, walk, sending, records, writer, result>>
       ELSE End("badLog")
    /\ UNCHANGED <<world, runs, readFiles, listing, loaded>>

\* listAllScores, then Verify and its dag.Visit begin.  What a node's
\* dependencies will be is settled here: blobs do not change.
ListScores ==
    /\ pc = "list" /\ pc' = "walking"
    /\ listing' = bucket /\ loaded' = {}
    /\ answers' = [n \in Node |-> IF n \in DOMAIN known /\ n \in Dir THEN known[n]
                                  ELSE Children[n]]
    /\ UNCHANGED <<world, runs, readFiles, known, walk, sending, records,
                   writer, result>>

ListScoresFails ==
    /\ pc = "list" /\ End("error")
    /\ UNCHANGED <<world, runs, readFiles, listing, loaded>>

------------------------------------------------------------------------------
(* The calls of the walk                                                   *)

\* The contexts of all calls are cancelled: the errgroup of verifyImpl saw
\* the writer fail, or the walk's own errgroup saw a call fail.
Cancelled == writer = "failed" \/ Walk!SomeFailed

Begin(n) ==
    /\ pc = "walking" /\ (Walk!StartFind(n) \/ Walk!StartVisit(n))
    /\ UNCHANGED <<world, runs, pc, readFiles, known, listing, calls, records,
                   writer, result>>

\* Calls that read a blob: an unknown directory, and every file unless --fast.
MustLoad(n) ==
    \/ phase[n] = "finding" /\ n \in listing /\ n \in Dir /\ n \notin DOMAIN known
    \/ phase[n] = "visiting" /\ n \notin Dir /\ readFiles

\* Mutant: what is known is not looked for in the bucket's listing.
TrivialUnlisted(n) ==
    \/ phase[n] = "finding" /\ (n \in DOMAIN known \/ n \notin Dir)
    \/ phase[n] = "visiting" /\ (n \in Dir \/ ~readFiles)

\* Calls that read none and succeed.
Trivial(n) ==
    \/ phase[n] = "finding" /\ n \in listing /\ (n \in DOMAIN known \/ n \notin Dir)
    \/ phase[n] = "visiting" /\ (n \in Dir \/ ~readFiles)

EndCall(n) == Walk!EndFind(n) \/ Walk!EndVisit(n)

Return(n) ==
    /\ pc = "walking" /\ Trivial(n) /\ EndCall(n)
    /\ UNCHANGED <<world, runs, pc, readFiles, known, listing, calls, records,
                   writer, result>>

\* The score was not listed.
UnknownScore(n) ==
    /\ pc = "walking" /\ phase[n] = "finding" /\ n \notin listing
    /\ Walk!FailCall(n)
    /\ UNCHANGED <<world, runs, pc, readFiles, known, listing, calls, records,
                   writer, result>>

\* Load checks the contents against the score; the listing is parsed.
Load(n) ==
    /\ pc = "walking" /\ MustLoad(n) /\ n \notin sending /\ n \in bucket
    /\ sending' = sending \cup {n} /\ loaded' = loaded \cup {n}
    /\ UNCHANGED <<world, runs, pc, inputs, walk, records, writer, result>>

LoadFails(n) ==
    /\ pc = "walking" /\ MustLoad(n) /\ n \notin sending
    /\ Walk!FailCall(n)
    /\ UNCHANGED <<world, runs, pc, readFiles, known, listing, calls, records,
                   writer, result>>

\* The select: the record goes into the channel,
Send(n) ==
    /\ n \in sending /\ Len(records) < Capacity
    /\ records' = Append(records, RecordOf(n))
    /\ sending' = sending \ {n}
    /\ EndCall(n)
    /\ UNCHANGED <<world, runs, pc, readFiles, known, listing, loaded, writer, result>>

\* Mutant: the record is sent without an eye on the context.
SendBlocks(n) == FALSE /\ n \in Node /\ UNCHANGED vars

\* or the call gives up.
SendCancelled(n) ==
    /\ n \in sending /\ Cancelled
    /\ sending' = sending \ {n}
    /\ Walk!FailCall(n)
    /\ UNCHANGED <<world, runs, pc, readFiles, known, listing, loaded, records,
                   writer, result>>

\* dag.Visit and Verify return; the deferred close of the channel.
WalkReturns ==
    /\ pc = "walking" /\ pc' = "closed" /\ Walk!Finish
    /\ UNCHANGED <<world, runs, readFiles, known, listing, calls, records,
                   writer, result>>

------------------------------------------------------------------------------
(* verifyImpl's second goroutine, and the end of the run                   *)

WriteRecord ==
    /\ writer = "writing" /\ records # <<>>
    /\ log' = AppendLine(Line(Head(records), "newline"))
    /\ records' = Tail(records)
    /\ UNCHANGED <<bucket, runs, pc, inputs, walk, calls, writer, result>>

\* Standard output is gone after the log was written, or the disk is full.
WriteFails ==
    /\ writer = "writing" /\ records # <<>>
    /\ \/ log' = AppendLine(Line(Head(records), "newline"))
       \/ \E line \in Cut(Head(records)) : log' = AppendLine(line)
       \/ UNCHANGED log
    /\ records' = Tail(records) /\ writer' = "failed"
    /\ UNCHANGED <<bucket, runs, pc, inputs, walk, calls, result>>

WriterDone ==
    /\ writer = "writing" /\ pc = "closed" /\ records = <<>>
    /\ writer' = "done"
    /\ UNCHANGED <<world, runs, pc, inputs, walk, calls, records, result>>

\* Mutant: only the error of the walk is returned.
FinishRunWalkOnly ==
    /\ pc = "closed" /\ writer # "writing"
    /\ End(IF outcome = "ok" THEN "ok" ELSE "error")
    /\ UNCHANGED <<world, runs, readFiles, listing, loaded>>

FinishRun ==
    /\ pc = "closed" /\ writer # "writing"
    /\ End(IF outcome = "ok" /\ writer = "done" THEN "ok" ELSE "error")
    /\ UNCHANGED <<world, runs, readFiles, listing, loaded>>

------------------------------------------------------------------------------
(* The surroundings                                                        *)

\* The process is killed, or the machine loses power: then the last line of
\* the log may be lost or cut.
Crash ==
    /\ pc # "idle" /\ End("none")
    /\ \/ UNCHANGED log
       \/ /\ log # <<>> /\ Last(log).end = "newline"
          /\ \/ log' = Front(log)
             \/ \E line \in Cut(Last(log)) : log' = Append(Front(log), line)
    /\ UNCHANGED <<bucket, runs, readFiles, listing, loaded>>

LoseBlob(n) ==
    /\ n \in bucket /\ Cardinality(Node \ bucket) < MaxLost
    /\ bucket' = bucket \ {n}
    /\ UNCHANGED <<log, runs, pc, inputs, walk, calls, records, writer, result>>

\* Ninety days pass between two runs.
LogGetsStale ==
    /\ pc = "idle" /\ \E k \in DOMAIN log : ~log[k].stale
    /\ log' = [k \in DOMAIN log |-> [log[k] EXCEPT !.stale = TRUE]]
    /\ result' = "none"
    /\ UNCHANGED <<bucket, runs, pc, inputs, walk, calls, records, writer>>

\* The user removes a log that verify cannot read.
RemoveLog ==
    /\ pc = "idle" /\ result = "badLog"
    /\ log' = <<>> /\ result' = "none"
    /\ UNCHANGED <<bucket, runs, pc, inputs, walk, calls, records, writer>>

Stopped == pc = "idle" /\ runs = MaxRuns /\ UNCHANGED vars

Progress ==
    \/ OpenLog \/ ListScores \/ ListScoresFails
    \/ \E n \in Node : \/ Begin(n) \/ Return(n) \/ UnknownScore(n)
                       \/ Load(n) \/ LoadFails(n)
                       \/ Send(n) \/ SendCancelled(n)
    \/ WalkReturns \/ WriteRecord \/ WriteFails \/ WriterDone \/ FinishRun

Next ==
    \/ Start \/ Progress \/ Crash \/ LogGetsStale \/ RemoveLog \/ Stopped
    \/ \E n \in Node : LoseBlob(n)

Spec == Init /\ [][Next]_vars

\* The goroutines of the command are scheduled, and every load and write
\* ends one way or the other.
FairSpec == Spec /\ WF_vars(Progress)

------------------------------------------------------------------------------
(* Properties                                                              *)

InBackups == Walk!Reachable(Children)

\* A run that reports success has found every blob of every recorded backup
\* in the bucket, whatever earlier runs wrote to the log and however they
\* ended, and has read each file unless told not to ("ensuring that the
\* entire directory structure is intact", verify.Verify).
SuccessMeansIntact ==
    result = "ok" =>
        /\ InBackups \subseteq listing
        /\ readFiles => InBackups \ Dir \subseteq loaded

\* A line of the log that a later run will believe gives all the children of
\* its node (Record: "referred to the given scores for its direct children"),
\* and only the last line can be cut (TypeOK).
LogIsTruthful ==
    /\ TypeOK
    /\ \A k \in DOMAIN log : Readable(log[k]) => log[k].kids = Children[log[k].node]

Mentioned ==
    {log[k].node : k \in DOMAIN log}
    \cup UNION {{log[k].kids[j] : j \in DOMAIN log[k].kids} : k \in DOMAIN log}

\* After a successful run the log, as gc reads it, mentions every blob of
\* every recorded backup (parseGCInput; Backups takes this from here).
LogCoversBackups ==
    result = "ok" /\ (\A k \in DOMAIN log : Readable(log[k]))
        => InBackups \subseteq Mentioned

\* A run comes to its end although the goroutine that takes the records may
\* have failed, with the channel full and calls waiting to send.
VerifyReturns == pc = "walking" ~> pc = "idle"
=============================================================================
