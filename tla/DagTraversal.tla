---------------------------- MODULE DagTraversal ----------------------------
(***************************************************************************)
(* What internal/dag.Visit promises its callers (the comment on Visit in   *)
(* visit.go), with no workers, queues or locks: calls of FindDependencies  *)
(* and Visit start and end one node at a time, and Visit reports how the   *)
(* walk ended.  DagVisit implements this specification; save, verify and   *)
(* restore rely on nothing else.                                           *)
(***************************************************************************)
EXTENDS Dag

VARIABLES
    graph,     \* the dependency lists, fixed for the whole walk
    phase,     \* how far each node has come
    outcome    \* what Visit returned, or "running"

vars == <<graph, phase, outcome>>

Phases == {"idle", "finding", "found", "visiting", "visited", "failed"}
Outcomes == {"running", "ok", "cycle", "error"}

TypeOK ==
    /\ graph \in Graphs
    /\ phase \in [Node -> Phases]
    /\ outcome \in Outcomes

Init ==
    /\ graph \in Graphs
    /\ phase = [n \in Node |-> "idle"]
    /\ outcome = "running"

SomeFailed == \E n \in Node : phase[n] = "failed"
InCall(n) == phase[n] \in {"finding", "visiting"}

\* A node is discovered as a start node or as a dependency of a node whose
\* own dependencies are known.
Discovered(n) ==
    \/ n \in Start
    \/ \E m \in Node : /\ phase[m] \in {"found", "visiting", "visited"}
                       /\ n \in Deps(graph, m)

Advance(n, from, to) ==
    /\ outcome = "running"
    /\ phase[n] = from
    /\ phase' = [phase EXCEPT ![n] = to]
    /\ UNCHANGED <<graph, outcome>>

\* No new call begins once a call has failed.
StartFind(n) == ~SomeFailed /\ Discovered(n) /\ Advance(n, "idle", "finding")
EndFind(n) == Advance(n, "finding", "found")

StartVisit(n) ==
    /\ ~SomeFailed
    /\ \A d \in Deps(graph, n) : phase[d] = "visited"
    /\ Advance(n, "found", "visiting")

EndVisit(n) == Advance(n, "visiting", "visited")
FailCall(n) == Advance(n, "finding", "failed") \/ Advance(n, "visiting", "failed")

Finish ==
    /\ outcome = "running"
    /\ \A n \in Node : ~InCall(n)
    /\ \/ SomeFailed /\ outcome' = "error"
       \/ /\ \A n \in Reachable(graph) : phase[n] = "visited"
          /\ ~HasCycle(graph, Reachable(graph))
          /\ outcome' = "ok"
       \/ /\ ~SomeFailed
          /\ HasCycle(graph, Reachable(graph))
          /\ outcome' = "cycle"
    /\ UNCHANGED <<graph, phase>>

Next ==
    \/ \E n \in Node : \/ StartFind(n) \/ EndFind(n)
                       \/ StartVisit(n) \/ EndVisit(n)
                       \/ FailCall(n)
    \/ Finish

Spec == Init /\ [][Next]_vars
=============================================================================
