---------------------------- MODULE VerifyProofs ----------------------------
(***************************************************************************)
(* Proofs about Verify, for every set of backups, any number of runs, and  *)
(* any loss of blobs: what the log says is true, and a run that reports    *)
(* success has found everything.  Two of the theorems need that a line of  *)
(* the log is not cut right after a space; the run with such cuts shows    *)
(* that they do.                                                           *)
(***************************************************************************)
EXTENDS Verify, SequenceTheorems, WellFoundedInduction, TLAPS

------------------------------------------------------------------------------
(* The invariant                                                           *)

NoSpace == "space" \notin CutPoints

Records == {Record(n) : n \in Node}
Lines == [node : Node, kids : Seq(Node),
          end : {"newline", "torn", "unterminated", "space"}, stale : BOOLEAN]

\* TypeOK in two parts: what only the log is about, and the rest.
LogType ==
    /\ log \in Seq(Lines)
    /\ \A k \in DOMAIN log : k < Len(log) => log[k].end = "newline"
TypeRest ==
    /\ bucket \subseteq Node /\ runs \in 0..MaxRuns
    /\ pc \in {"idle", "open", "list", "walking", "closed"}
    /\ DOMAIN known \subseteq Node /\ listing \subseteq Node
    /\ phase \in [Node -> Walk!Phases] /\ outcome \in Walk!Outcomes
    /\ sending \subseteq loaded /\ loaded \subseteq Node
    /\ records \in Seq(Records) /\ Len(records) <= Capacity
    /\ writer \in {"writing", "failed", "done"}
    /\ result \in {"none", "ok", "error", "badLog"}
TypeInv == LogType /\ TypeRest

Busy == pc \in {"list", "walking", "closed"}

\* What a process holds is gone when its run has ended.
RestInv ==
    /\ ~Busy => known = NoKnown
    /\ pc \notin {"walking", "closed"} =>
          /\ records = <<>> /\ sending = {} /\ writer = "writing"
          /\ phase = [n \in Node |-> "idle"] /\ outcome = "running"
    /\ pc = "walking" => outcome = "running"
    /\ pc = "closed" => sending = {}
    /\ pc # "idle" => result = "none"
    /\ writer = "done" => pc = "closed" /\ records = <<>>

\* A whole line is a true record; while a run writes, all lines are whole.
LogInv ==
    /\ \A k \in DOMAIN log :
          /\ log[k].end # "space"
          /\ log[k].end = "newline" => log[k].kids = Children[log[k].node]
    /\ Busy /\ writer = "writing" => \A k \in DOMAIN log : log[k].end = "newline"

\* The log has the record of n.
Logged(n) == \E k \in DOMAIN log : log[k].node = n /\ log[k].kids = Children[n]

\* What is known from the log is there, and so the walk is that of the backups.
KnownInv ==
    /\ \A n \in DOMAIN known : known[n] = Children[n] /\ Logged(n)
    /\ answers = Children

\* A record is sent for what was loaded.
SendInv ==
    \A n \in sending : n \in loaded /\ MustLoad(n)

\* What the walk has come past was listed, was read if it had to be, and is on
\* its way to the log or in it.
Noted(n) == Logged(n) \/ \E k \in DOMAIN records : records[k].node = n
WalkInv ==
    /\ \A n \in Node : phase[n] \in {"found", "visiting", "visited"} =>
          n \in listing /\ (n \in Dir /\ writer # "failed" => Noted(n))
    /\ \A n \in Node \ Dir : phase[n] = "visited" /\ readFiles => n \in loaded
    /\ outcome = "ok" => \A n \in InBackups : phase[n] = "visited"

\* What a successful run leaves.
ResultInv ==
    result = "ok" =>
        /\ InBackups \subseteq listing
        /\ readFiles => InBackups \ Dir \subseteq loaded
        /\ \A n \in InBackups \cap Dir : Logged(n)

IInv ==
    /\ TypeInv /\ RestInv /\ LogInv /\ KnownInv /\ SendInv /\ WalkInv /\ ResultInv

------------------------------------------------------------------------------
(* Facts about the walk, records and lines                                 *)

LEMMA WalkIs ==
    /\ \A g, n : Walk!Deps(g, n) = {g[n][i] : i \in DOMAIN g[n]}
    /\ Children \in [Node -> Seq(Node)]
    /\ \A n \in Node : Walk!Deps(Children, n) \subseteq Node
<1>1. \A g, n : Walk!Deps(g, n) = {g[n][i] : i \in DOMAIN g[n]}
  BY DEF Walk!Deps
<1>2. Children \in [Node -> Seq(Node)]
  BY VerifyAssumption
<1>3. ASSUME NEW n \in Node PROVE Walk!Deps(Children, n) \subseteq Node
  <2>1. Children[n] \in Seq(Node)
    BY <1>2
  <2> QED BY <1>1, <2>1
<1> QED BY <1>1, <1>2, <1>3

\* What holds of the roots and goes from a listing to all it refers to, holds
\* of all that is in the backups.
LEMMA BackupsLeast ==
    ASSUME NEW S \in SUBSET Node, Roots \subseteq S,
           \A n \in S : Walk!Deps(Children, n) \subseteq S
    PROVE  InBackups \subseteq S
  BY DEF InBackups, Walk!Reachable, Walk!Closed

LEMMA BackupsClosed ==
    /\ Roots \subseteq InBackups /\ InBackups \subseteq Node
    /\ \A n \in InBackups : Walk!Deps(Children, n) \subseteq InBackups
<1>1. Roots \subseteq InBackups /\ InBackups \subseteq Node
  BY VerifyAssumption DEF InBackups, Walk!Reachable
<1>2. ASSUME NEW n \in InBackups, NEW d \in Walk!Deps(Children, n)
      PROVE  d \in InBackups
  <2>1. d \in Node
    BY <1>1, WalkIs
  <2>2. ASSUME NEW S \in SUBSET Node, Roots \subseteq S, Walk!Closed(Children, S)
        PROVE  d \in S
    <3>1. n \in S
      BY <2>2 DEF InBackups, Walk!Reachable
    <3> QED BY <2>2, <3>1 DEF Walk!Closed
  <2> QED BY <2>1, <2>2 DEF InBackups, Walk!Reachable
<1> QED BY <1>1, <1>2

\* A record is of a node and all its children.
LEMMA RecordIs ==
    ASSUME NEW n \in Node
    PROVE  /\ Record(n) \in Records /\ RecordOf(n) = Record(n)
           /\ Record(n).node = n /\ Record(n).kids = Children[n]
  BY DEF Record, RecordOf, Records

LEMMA RecordFields ==
    ASSUME NEW r \in Records
    PROVE  r.node \in Node /\ r.kids = Children[r.node] /\ r.kids \in Seq(Node)
<1>1. PICK n \in Node : r = Record(n)
  BY DEF Records
<1> QED BY <1>1, RecordIs, VerifyAssumption

LEMMA LineIs ==
    ASSUME NEW r, r.node \in Node, r.kids \in Seq(Node),
           NEW end \in {"newline", "torn", "unterminated", "space"}
    PROVE  /\ Line(r, end) \in Lines
           /\ Line(r, end).node = r.node /\ Line(r, end).kids = r.kids
           /\ Line(r, end).end = end
  BY DEF Line, Lines

\* Without cuts after a space, a cut line is one no run will believe.
LEMMA CutIs ==
    ASSUME NoSpace, NEW r, r.node \in Node, r.kids \in Seq(Node), NEW l \in Cut(r)
    PROVE  l \in Lines /\ l.end \in {"torn", "unterminated"}
<1>1. l \in {Line(r, "torn"), Line(r, "unterminated")}
  BY DEF NoSpace, Cut
<1> QED BY <1>1, LineIs

LEMMA AppendIs ==
    ASSUME LogInv, log \in Seq(Lines), NEW l
    PROVE  AppendLine(l) = Append(log, l)
<1>1. CASE log = <<>>
  BY <1>1 DEF AppendLine
<1>2. CASE log # <<>>
  <2>1. Len(log) \in DOMAIN log
    BY <1>2
  <2> QED BY <2>1 DEF AppendLine, LogInv, Last
<1> QED BY <1>1, <1>2

LEMMA AppendElements ==
    ASSUME NEW s \in Seq(Lines), NEW l \in Lines
    PROVE  /\ Append(s, l) \in Seq(Lines) /\ Len(Append(s, l)) = Len(s) + 1
           /\ \A k \in DOMAIN s : k \in DOMAIN Append(s, l) /\ Append(s, l)[k] = s[k]
           /\ \A k \in DOMAIN Append(s, l) : k \in DOMAIN s \/ k = Len(s) + 1
           /\ Append(s, l)[Len(s) + 1] = l
  OBVIOUS

LEMMA StaleIs ==
    ASSUME NEW l \in Lines
    PROVE  /\ [l EXCEPT !.stale = TRUE] \in Lines
           /\ [l EXCEPT !.stale = TRUE].end = l.end
           /\ [l EXCEPT !.stale = TRUE].kids = l.kids
           /\ [l EXCEPT !.stale = TRUE].node = l.node
  BY DEF Lines

LEMMA FunctionIsSeq ==
    ASSUME NEW n \in Nat, NEW f \in [1..n -> Lines]
    PROVE  f \in Seq(Lines) /\ Len(f) = n
<1>1. f \in Seq(Lines)
  BY SeqDef
<1>2. DOMAIN f = 1..Len(f) /\ Len(f) \in Nat /\ DOMAIN f = 1..n
  BY <1>1, LenProperties
<1> QED BY <1>1, <1>2

LEMMA FrontIs ==
    ASSUME NEW s \in Seq(Lines), s # <<>>
    PROVE  /\ Front(s) \in Seq(Lines) /\ Len(Front(s)) = Len(s) - 1
           /\ \A k \in DOMAIN Front(s) : k \in DOMAIN s /\ Front(s)[k] = s[k] /\ k < Len(s)
           /\ Len(s) \in DOMAIN s /\ Last(s) = s[Len(s)] /\ Last(s) \in Lines
<1>1. PICK m \in Nat : Len(s) = m + 1
  <2>1. Len(s) \in Nat /\ Len(s) # 0
    BY EmptySeq
  <2> QED BY <2>1
<1>2. \A k \in 1..m : k \in DOMAIN s /\ s[k] \in Lines /\ k < Len(s)
  BY <1>1
<1>3. /\ SubSeq(s, 1, m) \in Seq(Lines)
      /\ Len(SubSeq(s, 1, m)) = IF 1 <= m THEN m - 1 + 1 ELSE 0
      /\ \A k \in 1..(m - 1 + 1) : SubSeq(s, 1, m)[k] = s[1 + k - 1]
  BY <1>2, SubSeqProperties
<1>4. Len(SubSeq(s, 1, m)) = m /\ \A k \in 1..m : SubSeq(s, 1, m)[k] = s[k]
  BY <1>3
<1>5. Len(s) - 1 = m /\ Len(s) \in DOMAIN s
  BY <1>1
<1>6. DOMAIN SubSeq(s, 1, m) = 1..m
  BY <1>3, <1>4
<1> QED BY <1>2, <1>3, <1>4, <1>5, <1>6 DEF Front, Last

------------------------------------------------------------------------------
(* Types, and how a step changes the log                                   *)

LEMMA TypeIs == TypeInv => TypeOK
<1> SUFFICES ASSUME TypeInv PROVE TypeOK
  OBVIOUS
<1>1. \A k \in DOMAIN log : IsLine(log[k])
  <2>1. \A k \in DOMAIN log : log[k] \in Lines
    BY DEF TypeInv, LogType
  <2> QED BY <2>1 DEF Lines, IsLine
<1> QED BY <1>1 DEF TypeInv, LogType, TypeRest, TypeOK

\* How the log may change: a whole line at its end, written by a run that
\* wrote only whole lines so far; or part of a line, after which no more is
\* written; or else no run is left after the step.
Truthful(l) == l.end = "newline" => l.kids = Children[l.node]
LogMove ==
    \/ log' = log
    \/ /\ Busy /\ writer = "writing"
       /\ \E l \in Lines : /\ log' = Append(log, l) /\ l.end # "space" /\ Truthful(l)
                           /\ l.end # "newline" => writer' = "failed"
    \/ /\ pc' = "idle" /\ log # <<>>
       /\ \/ log' = Front(log)
          \/ \E l \in Lines : /\ log' = Append(Front(log), l)
                              /\ l.end \in {"torn", "unterminated"}
    \/ /\ pc' = "idle"
       /\ \/ log' = <<>>
          \/ log' = [k \in DOMAIN log |-> [log[k] EXCEPT !.stale = TRUE]]

LEMMA NextLogMove ==
    ASSUME NoSpace, TypeInv, RestInv, LogInv, [Next]_vars
    PROVE  LogMove
<1> USE DEF world, inputs, walk, calls
<1>1. ASSUME records # <<>>
      PROVE  /\ Busy /\ Head(records) \in Records
             /\ LET r == Head(records) IN
                  /\ Line(r, "newline") \in Lines /\ Line(r, "newline").end = "newline"
                  /\ Truthful(Line(r, "newline"))
                  /\ \A l \in Cut(r) : l \in Lines /\ l.end \in {"torn", "unterminated"}
  <2>1. Busy /\ Head(records) \in Records
    BY <1>1 DEF TypeInv, TypeRest, RestInv, Busy
  <2>2. /\ Head(records).node \in Node /\ Head(records).kids \in Seq(Node)
        /\ Head(records).kids = Children[Head(records).node]
    BY <2>1, RecordFields
  <2>3. /\ Line(Head(records), "newline") \in Lines
        /\ Line(Head(records), "newline").end = "newline"
        /\ Truthful(Line(Head(records), "newline"))
    BY <2>2, LineIs DEF Truthful
  <2>4. \A l \in Cut(Head(records)) : l \in Lines /\ l.end \in {"torn", "unterminated"}
    BY <2>2, CutIs
  <2> QED BY <2>1, <2>3, <2>4
<1>2. \A l : AppendLine(l) = Append(log, l)
  BY AppendIs DEF TypeInv, LogType
<1>3. CASE WriteRecord
  BY <1>1, <1>2, <1>3 DEF WriteRecord, LogMove
<1>4. CASE WriteFails
  <2>1. CASE log' = AppendLine(Line(Head(records), "newline"))
    BY <1>1, <1>2, <1>4, <2>1 DEF WriteFails, LogMove
  <2>2. CASE \E l \in Cut(Head(records)) : log' = AppendLine(l)
    <3>1. PICK l \in Cut(Head(records)) : log' = Append(log, l)
      BY <1>2, <2>2
    <3>2. l \in Lines /\ l.end \in {"torn", "unterminated"}
      BY <1>1, <1>4 DEF WriteFails
    <3>3. l.end # "space" /\ Truthful(l)
      BY <3>2 DEF Truthful
    <3> QED BY <1>1, <1>4, <3>1, <3>2, <3>3 DEF WriteFails, LogMove
  <2>3. CASE log' = log
    BY <2>3 DEF LogMove
  <2> QED BY <1>4, <2>1, <2>2, <2>3 DEF WriteFails
<1>5. CASE Crash
  <2>1. CASE log' = log
    BY <2>1 DEF LogMove
  <2>2. CASE log # <<>> /\ log' = Front(log)
    BY <1>5, <2>2 DEF Crash, End, LogMove
  <2>3. CASE log # <<>> /\ \E l \in Cut(Last(log)) : log' = Append(Front(log), l)
    <3>1. PICK l \in Cut(Last(log)) : log' = Append(Front(log), l)
      BY <2>3
    <3>2. Last(log) \in Lines
      BY <2>3, FrontIs DEF TypeInv, LogType
    <3>3. l \in Lines /\ l.end \in {"torn", "unterminated"}
      BY <3>2, CutIs DEF Lines
    <3> QED BY <1>5, <2>3, <3>1, <3>3 DEF Crash, End, LogMove
  <2> QED BY <1>5, <2>1, <2>2, <2>3 DEF Crash
<1>6. CASE LogGetsStale \/ RemoveLog
  BY <1>6 DEF LogGetsStale, RemoveLog, LogMove
<1>7. CASE UNCHANGED log
  BY <1>7 DEF LogMove
<1>8. CASE \E n \in Node : \/ Begin(n) \/ Return(n) \/ UnknownScore(n) \/ Load(n)
                           \/ LoadFails(n) \/ Send(n) \/ SendCancelled(n)
  BY <1>7, <1>8 DEF Begin, Return, UnknownScore, Load, LoadFails, Send, SendCancelled
<1>9. CASE \/ Start \/ OpenLog \/ ListScores \/ ListScoresFails \/ WalkReturns
           \/ WriterDone \/ FinishRun
  BY <1>7, <1>9 DEF Start, OpenLog, ListScores, ListScoresFails, WalkReturns,
     WriterDone, FinishRun
<1>10. CASE Stopped \/ UNCHANGED vars \/ \E n \in Node : LoseBlob(n)
  BY <1>7, <1>10 DEF Stopped, vars, LoseBlob
<1> QED BY <1>3, <1>4, <1>5, <1>6, <1>8, <1>9, <1>10 DEF Next, Progress

\* What was whole stays whole, and only the last line can be cut.
LEMMA LogKept ==
    ASSUME NoSpace, TypeInv, LogInv, LogMove
    PROVE  /\ LogType'
           /\ \A k \in DOMAIN log' : log'[k].end # "space" /\ Truthful(log'[k])
<1>0. /\ log \in Seq(Lines)
      /\ \A k \in DOMAIN log : k < Len(log) => log[k].end = "newline"
      /\ \A k \in DOMAIN log : log[k].end # "space" /\ Truthful(log[k])
  BY DEF TypeInv, LogType, LogInv, Truthful
<1>1. CASE log' = log
  BY <1>0, <1>1 DEF LogType
<1>2. CASE Busy /\ writer = "writing"
           /\ \E l \in Lines : log' = Append(log, l) /\ l.end # "space" /\ Truthful(l)
  <2>1. PICK l \in Lines : log' = Append(log, l) /\ l.end # "space" /\ Truthful(l)
    BY <1>2
  <2>2. \A k \in DOMAIN log : log[k].end = "newline"
    BY <1>2 DEF LogInv
  <2>3. /\ log' \in Seq(Lines) /\ Len(log') = Len(log) + 1 /\ log'[Len(log) + 1] = l
        /\ \A k \in DOMAIN log : log'[k] = log[k]
        /\ \A k \in DOMAIN log' : k \in DOMAIN log \/ k = Len(log) + 1
    BY <1>0, <2>1, AppendElements
  <2>4. \A k \in DOMAIN log' : k < Len(log') => log'[k].end = "newline"
    BY <2>2, <2>3
  <2>5. \A k \in DOMAIN log' : log'[k].end # "space" /\ Truthful(log'[k])
    BY <1>0, <2>1, <2>3
  <2> QED BY <2>3, <2>4, <2>5 DEF LogType
<1>3. CASE log # <<>> /\ log' = Front(log)
  <2>1. /\ log' \in Seq(Lines) /\ Len(log') = Len(log) - 1
        /\ \A k \in DOMAIN log' : k \in DOMAIN log /\ log'[k] = log[k] /\ k < Len(log)
    BY <1>0, <1>3, FrontIs
  <2> QED BY <1>0, <2>1 DEF LogType
<1>4. CASE log # <<>> /\ \E l \in Lines : /\ log' = Append(Front(log), l)
                                          /\ l.end \in {"torn", "unterminated"}
  <2>1. PICK l \in Lines : log' = Append(Front(log), l) /\ l.end \in {"torn", "unterminated"}
    BY <1>4
  <2>2. /\ Front(log) \in Seq(Lines) /\ Len(Front(log)) = Len(log) - 1
        /\ \A k \in DOMAIN Front(log) :
              k \in DOMAIN log /\ Front(log)[k] = log[k] /\ k < Len(log)
    BY <1>0, <1>4, FrontIs
  <2>3. /\ log' \in Seq(Lines) /\ Len(log') = Len(Front(log)) + 1
        /\ log'[Len(Front(log)) + 1] = l
        /\ \A k \in DOMAIN Front(log) : log'[k] = Front(log)[k]
        /\ \A k \in DOMAIN log' : k \in DOMAIN Front(log) \/ k = Len(Front(log)) + 1
    BY <2>1, <2>2, AppendElements
  <2>4. \A k \in DOMAIN log' : k < Len(log') => log'[k].end = "newline"
    BY <1>0, <2>2, <2>3
  <2>5. Truthful(l) /\ l.end # "space"
    BY <2>1 DEF Truthful
  <2>6. \A k \in DOMAIN log' : log'[k].end # "space" /\ Truthful(log'[k])
    BY <1>0, <2>2, <2>3, <2>5
  <2> QED BY <2>3, <2>4, <2>6 DEF LogType
<1>5. CASE log' = <<>>
  BY <1>5 DEF LogType
<1>6. CASE log' = [k \in DOMAIN log |-> [log[k] EXCEPT !.stale = TRUE]]
  <2>1. \A k \in DOMAIN log :
           /\ [log[k] EXCEPT !.stale = TRUE] \in Lines
           /\ [log[k] EXCEPT !.stale = TRUE].end = log[k].end
           /\ [log[k] EXCEPT !.stale = TRUE].kids = log[k].kids
           /\ [log[k] EXCEPT !.stale = TRUE].node = log[k].node
    <3> TAKE k \in DOMAIN log
    <3>1. log[k] \in Lines
      BY <1>0
    <3> QED BY <3>1, StaleIs
  <2>2. DOMAIN log = 1..Len(log) /\ Len(log) \in Nat
    BY <1>0
  <2>3. /\ log' \in Seq(Lines) /\ DOMAIN log' = DOMAIN log /\ Len(log') = Len(log)
        /\ \A k \in DOMAIN log : /\ log'[k].end = log[k].end /\ log'[k].kids = log[k].kids
                                 /\ log'[k].node = log[k].node
    <3>1. PICK m \in Nat : m = Len(log) /\ DOMAIN log = 1..m
      BY <2>2
    <3>2. PICK f : f = log'
      OBVIOUS
    <3>3. f \in [1..m -> Lines]
      BY <1>6, <2>1, <3>1, <3>2
    <3>4. f \in Seq(Lines) /\ Len(f) = m
      BY <3>3, FunctionIsSeq
    <3> QED BY <1>6, <2>1, <3>1, <3>2, <3>4
  <2>4. \A k \in DOMAIN log' : log'[k].end # "space" /\ Truthful(log'[k])
    BY <1>0, <2>3 DEF Truthful
  <2>5. \A k \in DOMAIN log' : k < Len(log') => log'[k].end = "newline"
    BY <1>0, <2>3
  <2> QED BY <2>3, <2>4, <2>5 DEF LogType
<1> QED BY <1>1, <1>2, <1>3, <1>4, <1>5, <1>6 DEF LogMove

\* A call of the walk that begins or ends changes one phase, and nothing else
\* of the walk.
LEMMA CallMoves ==
    ASSUME TypeInv, NEW n \in Node,
           \/ Walk!StartFind(n) \/ Walk!StartVisit(n) \/ Walk!EndFind(n)
           \/ Walk!EndVisit(n) \/ Walk!FailCall(n)
    PROVE  /\ phase' \in [Node -> Walk!Phases] /\ outcome = "running" /\ outcome' = outcome
           /\ answers' = answers
           /\ \A m \in Node : m # n => phase'[m] = phase[m]
           /\ <<phase[n], phase'[n]>> \in
                 {<<"idle", "finding">>, <<"finding", "found">>, <<"found", "visiting">>,
                  <<"visiting", "visited">>, <<"finding", "failed">>, <<"visiting", "failed">>}
  BY DEF TypeInv, TypeRest, Walk!StartFind, Walk!StartVisit, Walk!EndFind,
         Walk!EndVisit, Walk!FailCall, Walk!Advance, Walk!Phases

LEMMA NextTypeRest ==
    ASSUME TypeInv, RestInv, [Next]_vars
    PROVE  TypeRest'
<1> USE VerifyAssumption DEF world, inputs, walk, calls, TypeInv, TypeRest
<1>1. ASSUME NEW how \in {"none", "ok", "error", "badLog"}, End(how), UNCHANGED bucket,
             runs' = runs, listing' = listing, loaded' = loaded
      PROVE  TypeRest'
  BY <1>1 DEF End, NoKnown, Walk!Phases, Walk!Outcomes
<1>2. CASE Start
  BY <1>2 DEF Start
<1>3. CASE OpenLog
  <2>1. DOMAIN KnownStructure \subseteq Node
    BY DEF KnownStructure
  <2>2. CASE End("badLog")
    BY <1>1, <1>3, <2>2 DEF OpenLog
  <2>3. CASE ~End("badLog")
    BY <1>3, <2>1, <2>3 DEF OpenLog
  <2> QED BY <2>2, <2>3
<1>4. CASE ListScores
  <2>1. sending' \subseteq loaded'
    BY <1>4 DEF ListScores, RestInv
  <2> QED BY <1>4, <2>1 DEF ListScores
<1>5. CASE ListScoresFails \/ Crash
  BY <1>1, <1>5 DEF ListScoresFails, Crash
<1>6. CASE FinishRun
  BY <1>1, <1>6 DEF FinishRun
<1>7. ASSUME NEW n \in Node,
             \/ Begin(n) \/ Return(n) \/ UnknownScore(n) \/ LoadFails(n) \/ SendCancelled(n)
      PROVE  TypeRest'
  <2>1. phase' \in [Node -> Walk!Phases] /\ outcome' = outcome
    BY <1>7, CallMoves DEF Begin, Return, EndCall, UnknownScore, LoadFails, SendCancelled
  <2> QED BY <1>7, <2>1 DEF Begin, Return, UnknownScore, LoadFails, SendCancelled
<1>8. ASSUME NEW n \in Node, Load(n) PROVE TypeRest'
  BY <1>8 DEF Load
<1>9. ASSUME NEW n \in Node, Send(n) PROVE TypeRest'
  <2>1. phase' \in [Node -> Walk!Phases] /\ outcome' = outcome
    BY <1>9, CallMoves DEF Send, EndCall
  <2>2. records' \in Seq(Records) /\ Len(records') = Len(records) + 1
    BY <1>9, RecordIs DEF Send
  <2>3. Len(records') <= Capacity
    BY <1>9, <2>2 DEF Send
  <2> QED BY <1>9, <2>1, <2>2, <2>3 DEF Send
<1>10. CASE WalkReturns
  BY <1>10 DEF WalkReturns, Walk!Finish, Walk!Outcomes
<1>11. CASE WriteRecord \/ WriteFails
  <2>1. records # <<>> /\ records' = Tail(records)
    BY <1>11 DEF WriteRecord, WriteFails
  <2>2. records' \in Seq(Records) /\ Len(records') = Len(records) - 1
    BY <2>1, HeadTailProperties
  <2>3. records' \in Seq(Records) /\ Len(records') <= Capacity
    BY <2>2
  <2> QED BY <1>11, <2>3 DEF WriteRecord, WriteFails
<1>12. CASE WriterDone \/ LogGetsStale \/ RemoveLog
  BY <1>12 DEF WriterDone, LogGetsStale, RemoveLog
<1>13. CASE Stopped \/ UNCHANGED vars
  BY <1>13 DEF Stopped, vars
<1>14. CASE \E n \in Node : LoseBlob(n)
  BY <1>14 DEF LoseBlob
<1> QED BY <1>2, <1>3, <1>4, <1>5, <1>6, <1>7, <1>8, <1>9, <1>10, <1>11, <1>12,
           <1>13, <1>14 DEF Next, Progress

LEMMA NextRest ==
    ASSUME TypeInv, RestInv, SendInv, [Next]_vars
    PROVE  RestInv'
<1> USE DEF world, inputs, walk, calls, TypeInv, TypeRest, RestInv, Busy
<1>1. ASSUME NEW how, End(how) PROVE RestInv'
  BY <1>1 DEF End
<1>2. CASE Start
  BY <1>2 DEF Start
<1>3. CASE OpenLog
  BY <1>1, <1>3 DEF OpenLog
<1>4. CASE ListScores
  BY <1>4 DEF ListScores
<1>5. CASE ListScoresFails \/ Crash \/ FinishRun
  BY <1>1, <1>5 DEF ListScoresFails, Crash, FinishRun
<1>7. ASSUME NEW n \in Node,
             \/ Begin(n) \/ Return(n) \/ UnknownScore(n) \/ LoadFails(n) \/ SendCancelled(n)
      PROVE  RestInv'
  <2>1. outcome = "running" /\ outcome' = outcome /\ pc = "walking"
    BY <1>7, CallMoves
       DEF Begin, Return, EndCall, UnknownScore, LoadFails, SendCancelled
  <2> QED BY <1>7, <2>1 DEF Begin, Return, UnknownScore, LoadFails, SendCancelled
<1>8. ASSUME NEW n \in Node, Load(n) PROVE RestInv'
  BY <1>8 DEF Load
<1>9. ASSUME NEW n \in Node, Send(n) PROVE RestInv'
  <2>1. outcome = "running" /\ outcome' = outcome /\ pc = "walking"
    BY <1>9, CallMoves DEF Send, EndCall
  <2> QED BY <1>9, <2>1 DEF Send
<1>10. CASE WalkReturns
  <2>1. \A n \in Node : ~Walk!InCall(n)
    BY <1>10 DEF WalkReturns, Walk!Finish
  <2>2. sending = {}
    BY <2>1 DEF SendInv, MustLoad, Walk!InCall
  <2> QED BY <1>10, <2>2 DEF WalkReturns
<1>11. CASE WriteRecord \/ WriteFails
  BY <1>11 DEF WriteRecord, WriteFails
<1>12. CASE WriterDone \/ LogGetsStale \/ RemoveLog
  BY <1>12 DEF WriterDone, LogGetsStale, RemoveLog
<1>13. CASE Stopped \/ UNCHANGED vars
  BY <1>13 DEF Stopped, vars
<1>14. CASE \E n \in Node : LoseBlob(n)
  BY <1>14 DEF LoseBlob
<1> QED BY <1>2, <1>3, <1>4, <1>5, <1>7, <1>8, <1>9, <1>10, <1>11, <1>12,
           <1>13, <1>14 DEF Next, Progress

LEMMA NextLog ==
    ASSUME NoSpace, TypeInv, RestInv, LogInv, [Next]_vars
    PROVE  LogInv'
<1> USE DEF world, inputs, walk, calls, Busy
<1>1. LogMove
  BY NextLogMove
<1>2. LogType' /\ \A k \in DOMAIN log' : log'[k].end # "space" /\ Truthful(log'[k])
  BY <1>1, LogKept
<1>3. ASSUME Busy', writer' = "writing"
      PROVE  \/ Busy /\ writer = "writing"
             \/ log' = log /\ \A k \in DOMAIN log : log[k].end = "newline"
  <2>1. CASE Start
    BY <1>3, <2>1 DEF Start
  <2>2. CASE OpenLog
    <3>1. log' = log /\ \A k \in DOMAIN log : Readable(log[k])
      BY <1>3, <2>2 DEF OpenLog, End
    <3> QED BY <3>1 DEF Readable, LogInv
  <2>3. CASE ListScores \/ WalkReturns \/ WriteRecord \/ WriteFails \/ WriterDone
    BY <1>3, <2>3 DEF ListScores, WalkReturns, WriteRecord, WriteFails, WriterDone, RestInv
  <2>4. CASE ListScoresFails \/ Crash \/ FinishRun
    BY <1>3, <2>4 DEF ListScoresFails, Crash, FinishRun, End
  <2>5. CASE \E n \in Node : \/ Begin(n) \/ Return(n) \/ UnknownScore(n) \/ Load(n)
                             \/ LoadFails(n) \/ Send(n) \/ SendCancelled(n)
    BY <1>3, <2>5
       DEF Begin, Return, UnknownScore, Load, LoadFails, Send, SendCancelled
  <2>6. CASE LogGetsStale \/ RemoveLog \/ Stopped \/ UNCHANGED vars
             \/ \E n \in Node : LoseBlob(n)
    BY <1>3, <2>6 DEF LogGetsStale, RemoveLog, Stopped, vars, LoseBlob
  <2> QED BY <2>1, <2>2, <2>3, <2>4, <2>5, <2>6 DEF Next, Progress
<1>4. ASSUME Busy', writer' = "writing"
      PROVE  \A k \in DOMAIN log' : log'[k].end = "newline"
  <2>1. \A k \in DOMAIN log : log[k].end = "newline"
    BY <1>3, <1>4 DEF LogInv
  <2>2. CASE log' = log
    BY <2>1, <2>2
  <2>3. CASE \E l \in Lines : log' = Append(log, l)
                              /\ (l.end # "newline" => writer' = "failed")
    <3>1. PICK l \in Lines : log' = Append(log, l) /\ (l.end # "newline" => writer' = "failed")
      BY <2>3
    <3>2. /\ log'[Len(log) + 1] = l /\ \A k \in DOMAIN log : log'[k] = log[k]
          /\ \A k \in DOMAIN log' : k \in DOMAIN log \/ k = Len(log) + 1
      BY <3>1, AppendElements DEF TypeInv, LogType
    <3>3. l.end = "newline"
      BY <1>4, <3>1
    <3> QED BY <2>1, <3>2, <3>3
  <2> QED BY <1>1, <1>4, <2>2, <2>3 DEF LogMove
<1> QED BY <1>2, <1>4 DEF LogInv, Truthful

\* As long as a run goes on, the log loses nothing.
LEMMA LoggedStays ==
    ASSUME TypeInv, LogMove, pc' # "idle", NEW n, Logged(n)
    PROVE  Logged(n)'
<1>1. PICK k \in DOMAIN log : log[k].node = n /\ log[k].kids = Children[n]
  BY DEF Logged
<1>2. CASE log' = log
  BY <1>2 DEF Logged
<1>3. CASE \E l \in Lines : log' = Append(log, l)
  <2>1. k \in DOMAIN log' /\ log'[k] = log[k]
    BY <1>3, AppendElements DEF TypeInv, LogType
  <2> QED BY <1>1, <2>1 DEF Logged
<1> QED BY <1>2, <1>3 DEF LogMove

\* There is a last fresh record, if there is a fresh one.
LEMMA LastFresh ==
    ASSUME TypeInv, NEW n, Fresh(n) # {}
    PROVE  \E k \in Fresh(n) : \A j \in Fresh(n) : j <= k
<1> DEFINE T == {Len(log) - k : k \in Fresh(n)}
<1>1. Len(log) \in Nat /\ Fresh(n) \subseteq 1..Len(log)
  BY DEF TypeInv, LogType, Fresh
<1>2. T \subseteq Nat /\ T # {}
  BY <1>1
<1>3. PICK x \in T : \A y \in T : ~(<<y, x>> \in OpToRel(<, Nat))
  BY <1>2, WFMin, NatLessThanWellFounded
<1>4. PICK k \in Fresh(n) : x = Len(log) - k
  OBVIOUS
<1>5. ASSUME NEW j \in Fresh(n) PROVE j <= k
  <2>1. Len(log) - j \in T /\ Len(log) - j \in Nat /\ x \in Nat
    BY <1>2
  <2>2. ~(Len(log) - j < x)
    BY <1>3, <2>1 DEF OpToRel
  <2> QED BY <1>1, <1>4, <2>1, <2>2
<1> QED BY <1>5

LEMMA NextKnown ==
    ASSUME NoSpace, TypeInv, RestInv, RestInv', LogInv, KnownInv, [Next]_vars
    PROVE  KnownInv'
<1> USE DEF world, inputs, walk, calls
<1>1. LogMove
  BY NextLogMove
<1>2. ASSUME OpenLog, ~End("badLog") PROVE KnownInv'
  <2>1. /\ known' = KnownStructure /\ log' = log /\ answers' = answers
        /\ \A k \in DOMAIN log : Readable(log[k])
    BY <1>2 DEF OpenLog
  <2>2. ASSUME NEW n \in DOMAIN KnownStructure
        PROVE  KnownStructure[n] = Children[n] /\ Logged(n)
    <3>1. n \in Node /\ Fresh(n) # {}
      BY <2>2 DEF KnownStructure
    <3> DEFINE k == CHOOSE k \in Fresh(n) : \A j \in Fresh(n) : j <= k
    <3>2. k \in Fresh(n)
      BY <3>1, LastFresh
    <3>3. KnownStructure[n] = log[k].kids
      BY <3>1 DEF KnownStructure
    <3>4. k \in DOMAIN log /\ log[k].node = n
      BY <3>2 DEF Fresh
    <3> HIDE DEF k
    <3>5. log[k].kids = Children[n]
      BY <2>1, <3>4 DEF Readable, LogInv
    <3> QED BY <3>3, <3>4, <3>5 DEF Logged
  <2>3. \A n \in DOMAIN known' : known'[n] = Children[n] /\ Logged(n)'
    BY <2>1, <2>2 DEF Logged
  <2> QED BY <2>1, <2>3 DEF KnownInv
<1>3. ASSUME pc' # "idle", known' = known PROVE
      \A n \in DOMAIN known' : known'[n] = Children[n] /\ Logged(n)'
  BY <1>1, <1>3, LoggedStays DEF KnownInv
<1>4. ASSUME known' = NoKnown
      PROVE  \A n \in DOMAIN known' : known'[n] = Children[n] /\ Logged(n)'
  BY <1>4 DEF NoKnown
<1>5. ASSUME NEW how, End(how) PROVE KnownInv'
  BY <1>4, <1>5 DEF End, KnownInv
<1>6. CASE OpenLog
  BY <1>2, <1>5, <1>6
<1>7. CASE ListScores
  <2>1. answers' = [n \in Node |-> IF n \in DOMAIN known /\ n \in Dir THEN known[n]
                                   ELSE Children[n]]
    BY <1>7 DEF ListScores
  <2>2. answers' = [n \in Node |-> Children[n]]
    BY <2>1 DEF KnownInv
  <2>3. answers' = Children
    BY <2>2, VerifyAssumption
  <2> QED BY <1>3, <1>7, <2>3 DEF ListScores, KnownInv
<1>8. CASE ListScoresFails \/ Crash \/ FinishRun
  BY <1>5, <1>8 DEF ListScoresFails, Crash, FinishRun
<1>9. ASSUME known' = known, answers' = answers PROVE KnownInv'
  <2>1. CASE pc' # "idle"
    BY <1>3, <1>9, <2>1 DEF KnownInv
  <2>2. CASE pc' = "idle"
    BY <1>4, <1>9, <2>2 DEF KnownInv, RestInv, Busy
  <2> QED BY <2>1, <2>2
<1>10. CASE Start \/ WalkReturns \/ WriteRecord \/ WriteFails \/ WriterDone
            \/ LogGetsStale \/ RemoveLog \/ Stopped \/ UNCHANGED vars
            \/ \E n \in Node : LoseBlob(n)
  BY <1>9, <1>10 DEF Start, WalkReturns, Walk!Finish, WriteRecord, WriteFails, WriterDone,
     LogGetsStale, RemoveLog, Stopped, vars, LoseBlob
<1>11. ASSUME NEW n \in Node, \/ Begin(n) \/ Return(n) \/ UnknownScore(n) \/ Load(n)
                              \/ LoadFails(n) \/ Send(n) \/ SendCancelled(n)
       PROVE  KnownInv'
  <2>1. answers' = answers
    BY <1>11, CallMoves
       DEF Begin, Return, EndCall, UnknownScore, Load, LoadFails, Send, SendCancelled
  <2> QED BY <1>9, <1>11, <2>1
        DEF Begin, Return, UnknownScore, Load, LoadFails, Send, SendCancelled
<1> QED BY <1>6, <1>7, <1>8, <1>10, <1>11 DEF Next, Progress

LEMMA NextSend ==
    ASSUME TypeInv, RestInv, RestInv', SendInv, [Next]_vars
    PROVE  SendInv'
<1> USE DEF world, inputs, walk, calls
<1>1. CASE sending' = {}
  BY <1>1 DEF SendInv
<1>2. CASE pc' # "walking"
  BY <1>1, <1>2 DEF RestInv
<1>3. ASSUME /\ phase' = phase /\ listing' = listing /\ known' = known
             /\ readFiles' = readFiles /\ sending' = sending /\ loaded' = loaded
      PROVE  SendInv'
  BY <1>3 DEF SendInv, MustLoad
<1>4. CASE ListScores
  BY <1>1, <1>4 DEF ListScores, RestInv
<1>5. CASE Start \/ OpenLog \/ ListScoresFails \/ FinishRun \/ Crash \/ WalkReturns
  BY <1>2, <1>5 DEF Start, OpenLog, ListScoresFails, FinishRun, Crash, End, WalkReturns
<1>6. CASE \/ WriteRecord \/ WriteFails \/ WriterDone \/ LogGetsStale \/ RemoveLog \/ Stopped
           \/ UNCHANGED vars \/ \E n \in Node : LoseBlob(n)
  BY <1>3, <1>6 DEF WriteRecord, WriteFails, WriterDone, LogGetsStale, RemoveLog,
     Stopped, vars, LoseBlob
<1>7. ASSUME NEW n \in Node, \/ Begin(n) \/ Return(n) \/ UnknownScore(n) \/ LoadFails(n)
                             \/ Send(n) \/ SendCancelled(n)
      PROVE  SendInv'
  <2>1. /\ listing' = listing /\ known' = known /\ readFiles' = readFiles
        /\ loaded' = loaded /\ sending' \subseteq sending
    BY <1>7 DEF Begin, Return, UnknownScore, LoadFails, Send, SendCancelled
  <2>2. \A m \in Node : m # n => phase'[m] = phase[m]
    BY <1>7, CallMoves
       DEF Begin, Return, EndCall, UnknownScore, LoadFails, Send, SendCancelled
  <2>3. n \notin sending'
    <3>1. CASE Send(n) \/ SendCancelled(n) \/ LoadFails(n)
      BY <3>1 DEF Send, SendCancelled, LoadFails
    <3>2. CASE Begin(n) \/ Return(n) \/ UnknownScore(n)
      <4>1. ~MustLoad(n)
        BY <3>2 DEF Begin, Return, UnknownScore, Trivial, MustLoad, Walk!StartFind,
           Walk!StartVisit, Walk!Advance
      <4> QED BY <2>1, <4>1 DEF SendInv
    <3> QED BY <1>7, <3>1, <3>2
  <2>4. sending \subseteq Node
    BY DEF TypeInv, TypeRest
  <2>5. ASSUME NEW m \in sending' PROVE m \in loaded' /\ MustLoad(m)'
    <3>1. m \in sending /\ m \in Node /\ phase'[m] = phase[m]
      BY <2>1, <2>2, <2>3, <2>4
    <3> QED BY <2>1, <3>1 DEF SendInv, MustLoad
  <2> QED BY <2>5 DEF SendInv
<1>8. ASSUME NEW n \in Node, Load(n) PROVE SendInv'
  BY <1>8 DEF Load, SendInv, MustLoad
<1> QED BY <1>4, <1>5, <1>6, <1>7, <1>8 DEF Next, Progress

\* What was noted stays so while the walk goes on and its writer has not failed.
LEMMA NotedStays ==
    ASSUME TypeInv, RestInv, LogInv, LogMove, [Next]_vars,
           pc' \in {"walking", "closed"}, writer' # "failed", NEW n, Noted(n)
    PROVE  Noted(n)'
<1> USE DEF world, inputs, walk, calls
<1>1. CASE Logged(n)
  BY <1>1, LoggedStays DEF Noted
<1>2. CASE \E k \in DOMAIN records : records[k].node = n
  <2>1. PICK k \in DOMAIN records : records[k].node = n
    BY <1>2
  <2>2. records \in Seq(Records) /\ records # <<>>
    BY <2>1 DEF TypeInv, TypeRest
  <2>3. CASE WriteRecord
    <3>1. CASE k = 1
      <4>1. Head(records) = records[k] /\ Head(records) \in Records
        BY <2>2, <3>1
      <4>2. Head(records).node = n /\ Head(records).kids = Children[n]
            /\ Head(records).node \in Node /\ Head(records).kids \in Seq(Node)
        BY <2>1, <4>1, RecordFields
      <4> DEFINE l == Line(Head(records), "newline")
      <4>3. l \in Lines /\ l.node = n /\ l.kids = Children[n]
        BY <4>2, LineIs
      <4> HIDE DEF l
      <4>4. log' = Append(log, l)
        BY <2>3, AppendIs DEF WriteRecord, l, TypeInv, LogType
      <4>5. log'[Len(log) + 1] = l /\ Len(log) + 1 \in DOMAIN log'
        BY <4>3, <4>4, AppendElements DEF TypeInv, LogType
      <4> QED BY <4>3, <4>5 DEF Noted, Logged
    <3>2. CASE k # 1
      <4>1. records' = Tail(records)
        BY <2>3 DEF WriteRecord
      <4>2. k - 1 \in DOMAIN records' /\ records'[k - 1] = records[k]
        BY <2>1, <2>2, <3>2, <4>1
      <4> QED BY <2>1, <4>2 DEF Noted
    <3> QED BY <3>1, <3>2
  <2>4. CASE records' = records
    BY <2>1, <2>4 DEF Noted
  <2>5. ASSUME NEW m \in Node, Send(m) PROVE Noted(n)'
    <3>1. records' = Append(records, RecordOf(m))
      BY <2>5 DEF Send
    <3>2. k \in DOMAIN records' /\ records'[k] = records[k]
      BY <2>1, <2>2, <3>1, RecordIs
    <3> QED BY <2>1, <3>2 DEF Noted
  <2>6. \/ records' = records \/ WriteRecord \/ \E m \in Node : Send(m)
    <3>1. CASE Start \/ OpenLog \/ ListScoresFails \/ FinishRun \/ Crash
      BY <3>1 DEF Start, OpenLog, ListScoresFails, FinishRun, Crash, End
    <3>2. CASE WriteFails
      BY <3>2 DEF WriteFails
    <3>3. CASE ListScores \/ WalkReturns \/ WriterDone \/ LogGetsStale \/ RemoveLog
               \/ Stopped \/ UNCHANGED vars \/ \E m \in Node : LoseBlob(m)
      BY <3>3 DEF ListScores, WalkReturns, WriterDone, LogGetsStale, RemoveLog, Stopped,
         vars, LoseBlob
    <3>4. CASE \E m \in Node : \/ Begin(m) \/ Return(m) \/ UnknownScore(m) \/ Load(m)
                               \/ LoadFails(m) \/ SendCancelled(m)
      BY <3>4 DEF Begin, Return, UnknownScore, Load, LoadFails, SendCancelled
    <3> QED BY <3>1, <3>2, <3>3, <3>4 DEF Next, Progress
  <2> QED BY <2>3, <2>4, <2>5, <2>6
<1> QED BY <1>1, <1>2 DEF Noted

LEMMA NextWalk ==
    ASSUME NoSpace, TypeInv, RestInv, RestInv', LogInv, KnownInv, SendInv, WalkInv,
           [Next]_vars
    PROVE  WalkInv'
<1> USE DEF world, inputs, walk, calls
<1>0. LogMove
  BY NextLogMove
<1>1. CASE phase' = [n \in Node |-> "idle"] /\ outcome' = "running"
  BY <1>1 DEF WalkInv
<1>2. CASE pc' \notin {"walking", "closed"}
  BY <1>1, <1>2 DEF RestInv
<1>3. CASE Start \/ OpenLog \/ ListScoresFails \/ FinishRun \/ Crash \/ LogGetsStale
           \/ RemoveLog \/ Stopped
  BY <1>2, <1>3 DEF Start, OpenLog, ListScoresFails, FinishRun, Crash, End, LogGetsStale,
     RemoveLog, Stopped, vars
<1>4. CASE ListScores
  BY <1>1, <1>4 DEF ListScores, RestInv
\* The listing and the flag stay, what is read stays read, a failed writer
\* stays failed.
<1>5. ASSUME pc' \in {"walking", "closed"}, ~ListScores
      PROVE  /\ listing' = listing /\ readFiles' = readFiles /\ loaded \subseteq loaded'
             /\ writer = "failed" => writer' = "failed"
  <2>1. CASE Start \/ OpenLog \/ ListScoresFails \/ FinishRun \/ Crash
    BY <1>5, <2>1 DEF Start, OpenLog, ListScoresFails, FinishRun, Crash, End
  <2>2. CASE WalkReturns \/ WriteRecord \/ WriteFails \/ WriterDone \/ LogGetsStale
             \/ RemoveLog \/ Stopped \/ UNCHANGED vars \/ \E n \in Node : LoseBlob(n)
    BY <2>2 DEF WalkReturns, WriteRecord, WriteFails, WriterDone, LogGetsStale, RemoveLog,
       Stopped, vars, LoseBlob
  <2>3. CASE \E n \in Node : \/ Begin(n) \/ Return(n) \/ UnknownScore(n) \/ Load(n)
                             \/ LoadFails(n) \/ Send(n) \/ SendCancelled(n)
    BY <2>3 DEF Begin, Return, UnknownScore, Load, LoadFails, Send, SendCancelled
  <2> QED BY <1>5, <2>1, <2>2, <2>3 DEF Next, Progress
<1> DEFINE Passed == {"found", "visiting", "visited"}
<1>6. ASSUME pc' \in {"walking", "closed"}, ~ListScores, NEW n \in Node,
             phase'[n] \in Passed, phase[n] \in Passed
      PROVE  n \in listing' /\ (n \in Dir /\ writer' # "failed" => Noted(n)')
  BY <1>0, <1>5, <1>6, NotedStays DEF WalkInv
<1>7. CASE \/ WriteRecord \/ WriteFails \/ WriterDone \/ UNCHANGED vars
           \/ \E n \in Node : LoseBlob(n) \/ Load(n)
  <2>1. phase' = phase /\ outcome' = outcome /\ ~ListScores
    BY <1>7 DEF WriteRecord, WriteFails, WriterDone, vars, LoseBlob, Load, ListScores
  <2> QED BY <1>2, <1>5, <1>6, <2>1 DEF WalkInv
<1>8. CASE WalkReturns
  <2>1. /\ phase' = phase /\ ~ListScores
        /\ outcome' = "ok" => \A n \in Walk!Reachable(answers) : phase[n] = "visited"
    BY <1>8 DEF WalkReturns, Walk!Finish, ListScores
  <2>2. Walk!Reachable(answers) = InBackups
    BY DEF KnownInv, InBackups
  <2> QED BY <1>2, <1>5, <1>6, <2>1, <2>2 DEF WalkInv
<1>9. ASSUME NEW n \in Node,
             \/ Begin(n) \/ Return(n) \/ UnknownScore(n) \/ LoadFails(n) \/ Send(n)
             \/ SendCancelled(n)
      PROVE  WalkInv'
  <2>1. /\ outcome' = "running" /\ \A m \in Node : m # n => phase'[m] = phase[m]
        /\ <<phase[n], phase'[n]>> \in
                 {<<"idle", "finding">>, <<"finding", "found">>, <<"found", "visiting">>,
                  <<"visiting", "visited">>, <<"finding", "failed">>, <<"visiting", "failed">>}
    BY <1>9, CallMoves
       DEF Begin, Return, EndCall, UnknownScore, LoadFails, Send, SendCancelled
  <2>2. pc = "walking" /\ pc' = "walking" /\ ~ListScores
    BY <1>9
       DEF Begin, Return, UnknownScore, LoadFails, Send, SendCancelled, ListScores, RestInv
  <2>3. CASE phase[n] # "finding" \/ phase'[n] # "found"
    <3>1. ASSUME NEW m \in Node, phase'[m] \in Passed PROVE phase[m] \in Passed
      BY <2>1, <2>3, <3>1
    <3>2. ASSUME phase[n] = "visiting", phase'[n] = "visited", n \notin Dir, readFiles
          PROVE  n \in loaded
      <4>1. CASE Return(n)
        BY <3>2, <4>1 DEF Return, Trivial
      <4>2. CASE Send(n)
        BY <4>2 DEF Send, SendInv
      <4>3. CASE Begin(n) \/ UnknownScore(n) \/ LoadFails(n) \/ SendCancelled(n)
        <5>1. phase'[n] \in {"finding", "visiting", "failed"}
          BY <4>3 DEF Begin, UnknownScore, LoadFails, SendCancelled, Walk!StartFind,
             Walk!StartVisit, Walk!FailCall, Walk!Advance, TypeInv, TypeRest
        <5> QED BY <3>2, <5>1
      <4> QED BY <1>9, <4>1, <4>2, <4>3
    <3>3. \A m \in Node \ Dir : phase'[m] = "visited" /\ readFiles' => m \in loaded'
      BY <1>5, <2>1, <2>2, <3>2 DEF WalkInv
    <3> QED BY <1>6, <2>1, <2>2, <3>1, <3>3 DEF WalkInv
  <2>4. CASE phase[n] = "finding" /\ phase'[n] = "found"
    <3>1. Return(n) \/ Send(n)
      <4>1. CASE Begin(n) \/ UnknownScore(n) \/ LoadFails(n) \/ SendCancelled(n)
        <5>1. phase'[n] \in {"finding", "visiting", "failed"}
          BY <4>1 DEF Begin, UnknownScore, LoadFails, SendCancelled, Walk!StartFind,
             Walk!StartVisit, Walk!FailCall, Walk!Advance, TypeInv, TypeRest
        <5> QED BY <2>4, <5>1
      <4> QED BY <1>9, <4>1
    <3>2. n \in listing /\ (n \in Dir /\ writer' # "failed" => Noted(n)')
      <4>1. CASE Return(n)
        <5>1. n \in listing /\ (n \in DOMAIN known \/ n \notin Dir)
          BY <2>4, <4>1 DEF Return, Trivial
        <5>2. n \in Dir => Noted(n)
          BY <5>1 DEF KnownInv, Noted
        <5> QED BY <1>0, <2>2, <5>1, <5>2, NotedStays
      <4>2. CASE Send(n)
        <5>1. n \in listing
          BY <2>4, <4>2 DEF Send, SendInv, MustLoad
        <5>2. records' = Append(records, Record(n)) /\ records \in Seq(Records)
          BY <4>2, RecordIs DEF Send, TypeInv, TypeRest
        <5>3. Len(records) + 1 \in DOMAIN records' /\ records'[Len(records) + 1] = Record(n)
          BY <5>2, RecordIs
        <5> QED BY <5>1, <5>3, RecordIs DEF Noted
      <4> QED BY <3>1, <4>1, <4>2
    <3>3. \A m \in Node \ Dir : phase'[m] = "visited" /\ readFiles' => m \in loaded'
      BY <1>5, <2>1, <2>2, <2>4 DEF WalkInv
    <3>4. ASSUME NEW m \in Node, phase'[m] \in Passed
          PROVE  m \in listing' /\ (m \in Dir /\ writer' # "failed" => Noted(m)')
      <4>1. CASE m = n
        BY <1>5, <2>2, <3>2, <4>1
      <4>2. CASE m # n
        BY <1>6, <2>1, <2>2, <3>4, <4>2
      <4> QED BY <4>1, <4>2
    <3> QED BY <2>1, <3>3, <3>4 DEF WalkInv
  <2> QED BY <2>3, <2>4
<1> QED BY <1>3, <1>4, <1>7, <1>8, <1>9 DEF Next, Progress

LEMMA NextResult ==
    ASSUME TypeInv, RestInv, WalkInv, ResultInv, [Next]_vars
    PROVE  ResultInv'
<1> USE DEF world, inputs, walk, calls
<1>1. CASE result' # "ok"
  BY <1>1 DEF ResultInv
<1>2. CASE Start \/ ListScoresFails \/ Crash \/ LogGetsStale \/ RemoveLog
  BY <1>1, <1>2 DEF Start, ListScoresFails, Crash, End, LogGetsStale, RemoveLog
<1>3. CASE FinishRun
  <2>1. SUFFICES ASSUME result' = "ok" PROVE ResultInv'
    BY <1>1
  <2>2. /\ outcome = "ok" /\ writer = "done" /\ log' = log /\ listing' = listing
        /\ readFiles' = readFiles /\ loaded' = loaded
    BY <1>3, <2>1 DEF FinishRun, End
  <2>3. records = <<>>
    BY <2>2 DEF RestInv
  <2>4. \A n : Noted(n) => Logged(n)
    BY <2>3 DEF Noted
  <2>5. InBackups \subseteq Node
    BY BackupsClosed
  <2>6. \A n \in InBackups : /\ n \in listing
                             /\ n \in Dir => Logged(n)
                             /\ n \notin Dir /\ readFiles => n \in loaded
    BY <2>2, <2>4, <2>5 DEF WalkInv
  <2>7. \A n : Logged(n) => Logged(n)'
    BY <2>2 DEF Logged
  <2> QED BY <2>2, <2>6, <2>7 DEF ResultInv
\* No other step sets the result, and none is taken while it is "ok".
<1>4. CASE OpenLog \/ ListScores \/ WalkReturns \/ WriteRecord \/ WriteFails \/ WriterDone
  BY <1>1, <1>4 DEF OpenLog, End, ListScores, WalkReturns, WriteRecord, WriteFails,
     WriterDone, RestInv
<1>5. CASE \E n \in Node : \/ Begin(n) \/ Return(n) \/ UnknownScore(n) \/ Load(n)
                           \/ LoadFails(n) \/ Send(n) \/ SendCancelled(n)
  BY <1>1, <1>5
     DEF Begin, Return, UnknownScore, Load, LoadFails, Send, SendCancelled, RestInv
<1>6. CASE Stopped \/ UNCHANGED vars \/ \E n \in Node : LoseBlob(n)
  <2>1. /\ log' = log /\ listing' = listing /\ readFiles' = readFiles
        /\ loaded' = loaded /\ result' = result
    BY <1>6 DEF Stopped, vars, LoseBlob
  <2> QED BY <2>1 DEF ResultInv, Logged
<1> QED BY <1>2, <1>3, <1>4, <1>5, <1>6 DEF Next, Progress

------------------------------------------------------------------------------
(* The theorems                                                            *)

LEMMA InitInv == Init => IInv
<1> SUFFICES ASSUME Init PROVE IInv
  OBVIOUS
<1> USE VerifyAssumption DEF Init
<1>1. TypeInv
  BY DEF TypeInv, LogType, TypeRest, NoKnown, Walk!Phases, Walk!Outcomes
<1>2. RestInv /\ LogInv /\ SendInv /\ ResultInv
  BY DEF RestInv, Busy, LogInv, SendInv, ResultInv
<1>3. KnownInv /\ WalkInv
  BY DEF KnownInv, NoKnown, WalkInv
<1> QED BY <1>1, <1>2, <1>3 DEF IInv

LEMMA NextInv == NoSpace /\ IInv /\ [Next]_vars => IInv'
<1> SUFFICES ASSUME NoSpace, IInv, [Next]_vars PROVE IInv'
  OBVIOUS
<1>1. /\ TypeInv /\ RestInv /\ LogInv /\ KnownInv /\ SendInv /\ WalkInv /\ ResultInv
  BY DEF IInv
<1>2. LogType'
  BY <1>1, NextLogMove, LogKept
<1>3. TypeInv'
  BY <1>1, <1>2, NextTypeRest DEF TypeInv
<1>4. RestInv'
  BY <1>1, NextRest
<1>5. LogInv'
  BY <1>1, NextLog
<1>6. KnownInv'
  BY <1>1, <1>4, NextKnown
<1>7. SendInv'
  BY <1>1, <1>4, NextSend
<1>8. WalkInv'
  BY <1>1, <1>4, NextWalk
<1>9. ResultInv'
  BY <1>1, NextResult
<1> QED BY <1>3, <1>4, <1>5, <1>6, <1>7, <1>8, <1>9 DEF IInv

\* Unless a line is cut after a space, every state of every run keeps the
\* invariant.
THEOREM Invariance ==
    ASSUME NoSpace
    PROVE  Spec => []IInv
<1>1. IInv /\ [Next]_vars => IInv'
  BY NextInv
<1> QED BY <1>1, InitInv, PTL DEF Spec

\* A line that a later run will believe gives all the children of its node,
\* whenever runs were killed and wherever else lines were cut (Record in
\* internal/verify/visitor.go).
THEOREM TheLogIsTrue ==
    ASSUME NoSpace
    PROVE  Spec => []LogIsTruthful
<1>1. IInv => LogIsTruthful
  <2> SUFFICES ASSUME IInv PROVE LogIsTruthful
    OBVIOUS
  <2>1. TypeOK
    BY TypeIs DEF IInv
  <2> QED BY <2>1 DEF IInv, LogInv, Readable, LogIsTruthful
<1> QED BY <1>1, Invariance, PTL

\* A run that reports success has found every blob of every recorded backup,
\* and read each file unless told not to (verify.Verify).
THEOREM SuccessIsIntact ==
    ASSUME NoSpace
    PROVE  Spec => []SuccessMeansIntact
<1>1. IInv => SuccessMeansIntact
  BY DEF IInv, ResultInv, SuccessMeansIntact
<1> QED BY <1>1, Invariance, PTL

\* After a successful run gc finds every blob of every recorded backup in the
\* log (parseGCInput in gc.go): the listings have records, and the files are
\* named in them.
THEOREM TheLogIsComplete ==
    ASSUME NoSpace
    PROVE  Spec => []LogCoversBackups
<1>1. IInv => LogCoversBackups
  <2> SUFFICES ASSUME IInv, result = "ok" PROVE InBackups \subseteq Mentioned
    BY DEF LogCoversBackups
  <2>1. \A n \in InBackups \cap Dir : Logged(n)
    BY DEF IInv, ResultInv
  <2>2. ASSUME NEW n, Logged(n)
        PROVE  n \in Mentioned /\ \A i \in DOMAIN Children[n] : Children[n][i] \in Mentioned
    BY <2>2 DEF Logged, Mentioned
  <2> DEFINE S == InBackups \cap Mentioned
  <2>3. Roots \subseteq S /\ S \subseteq Node
    BY <2>1, <2>2, BackupsClosed, VerifyAssumption
  <2>4. ASSUME NEW n \in S, NEW d \in Walk!Deps(Children, n) PROVE d \in S
    <3>1. d \in InBackups
      BY <2>4, BackupsClosed
    <3>2. PICK i \in DOMAIN Children[n] : d = Children[n][i]
      BY <2>4, WalkIs
    <3>3. n \in Dir
      BY <2>3, <3>2, VerifyAssumption
    <3> QED BY <2>1, <2>2, <3>1, <3>2, <3>3
  <2>5. InBackups \subseteq S
    <3> HIDE DEF S
    <3> QED BY <2>3, <2>4, BackupsLeast
  <2> QED BY <2>5
<1> QED BY <1>1, Invariance, PTL
=============================================================================
