------------------------------ MODULE DagVisit ------------------------------
(***************************************************************************)
(* internal/dag/visit.go: Visit walks a graph with a pool of resolver      *)
(* workers and a pool of visitor workers that share one mutex and sleep on *)
(* two condition variables.                                                *)
(*                                                                         *)
(* A worker that is not in "loop" does not hold the mutex; every step of a *)
(* worker that touches shared state begins by taking it.  The external     *)
(* calls (FindDependencies, Visit) run without the mutex and may fail.     *)
(*                                                                         *)
(* The slices toResolve, toVisit and nodeInfo.dependants are bags here     *)
(* (node -> number of entries): the order of their entries is left open,   *)
(* how often a node occurs in them is not.                                 *)
(***************************************************************************)
EXTENDS Dag, Integers, FiniteSets

CONSTANTS
    Resolvers,   \* the goroutines running resolveNodes
    Visitors     \* the goroutines running visitNodes

\* Every caller passes positive parallelism for both pools.
ASSUME WorkerAssumption ==
    /\ Resolvers \cap Visitors = {}
    /\ IsFiniteSet(Resolvers) /\ Resolvers # {}
    /\ IsFiniteSet(Visitors) /\ Visitors # {}

\* "none" marks a worker that has no node.
ASSUME NoneAssumption == "none" \notin Node

VARIABLES
    graph,             \* what FindDependencies answers (it is asked once per node)
    nodes,             \* the keys of visitState.nodes
    state,             \* nodeInfo.state
    depsUnsatisfied,   \* nodeInfo.depsUnsatisfied
    dependants,        \* nodeInfo.dependants: dependants[m][n] entries for n
    toResolve,         \* visitState.toResolve
    toVisit,           \* visitState.toVisit
    unsatisfied,       \* visitState.unsatisfied
    firstErr,          \* visitState.firstErr
    busyResolvers,     \* visitState.busyResolvers
    busyVisitors,      \* visitState.busyVisitors
    ctx,               \* the context of the errgroup: "live" or "cancelled"
    pc,                \* where each worker is
    cur,               \* the node of the worker's current or failed call
    result             \* what Visit returned, or "running"

nodeVars == <<nodes, state, depsUnsatisfied, dependants, unsatisfied>>
queueVars == <<toResolve, toVisit>>
busyVars == <<busyResolvers, busyVisitors>>
vars == <<graph, nodeVars, queueVars, busyVars, firstErr, ctx,
          pc, cur, result>>

Worker == Resolvers \cup Visitors

NodeStates == {"DependenciesUnresolved", "DependenciesUnsatisfied",
               "Unvisited", "Visited"}

\* "own": the call failed by itself (or the caller's context ended);
\* "followOn": it failed because the errgroup cancelled the shared context.
Errors == {"own", "followOn"}

PCs == {"start",     \* launched, about to lock the mutex
        "loop",      \* holds the mutex, at the top of the worker's loop
        "asleep",    \* in Cond.Wait, not yet notified
        "woken",     \* notified, about to lock the mutex again
        "calling",   \* in FindDependencies or Visit, mutex released
        "failing",   \* the worker function has returned an error
        "failed",    \* the errgroup has seen that error
        "done"}      \* the worker function has returned nil

\* What a walk can look like before any call was made: Visit's own
\* addNodes(startNodes) has run, the workers have just been launched.
Init ==
    /\ graph \in Graphs
    /\ nodes = Start
    /\ state = [n \in Node |-> "DependenciesUnresolved"]
    /\ depsUnsatisfied = [n \in Node |-> 0]
    /\ dependants = [m \in Node |-> [n \in Node |-> 0]]
    /\ toResolve = [n \in Node |-> IF n \in Start THEN 1 ELSE 0]
    /\ toVisit = [n \in Node |-> 0]
    /\ unsatisfied = {}
    /\ firstErr = "none"
    /\ busyResolvers = 0
    /\ busyVisitors = 0
    /\ ctx = "live"
    /\ pc = [w \in Worker |-> "start"]
    /\ cur = [w \in Worker |-> "none"]
    /\ result = "running"

------------------------------------------------------------------------------
(* The conditions workers sleep on                                         *)

Empty(queue) == \A n \in Node : queue[n] = 0

resolversShouldExit ==
    firstErr # "none" \/ (Empty(toResolve) /\ busyResolvers = 0)

\* Mutant: visitors forget that resolvers may still produce work.
visitorsExitEarly ==
    firstErr # "none" \/ (Empty(toVisit) /\ busyVisitors = 0)

visitorsShouldExit ==
    \/ firstErr # "none"
    \/ Empty(toVisit) /\ busyVisitors = 0 /\ resolversShouldExit

resolversShouldWake == ~Empty(toResolve) \/ resolversShouldExit
visitorsShouldWake == ~Empty(toVisit) \/ visitorsShouldExit

ShouldExit(w) ==
    IF w \in Resolvers THEN resolversShouldExit ELSE visitorsShouldExit
ShouldWake(w) ==
    IF w \in Resolvers THEN resolversShouldWake ELSE visitorsShouldWake

\* Mutant: update looks at the queues only, not at the reasons to exit.
updateQueuesOnly(moved) ==
    pc' = [w \in Worker |->
              IF /\ pc[w] = "asleep"
                 /\ IF w \in Resolvers THEN Empty(toResolve) /\ ~Empty(toResolve')
                                        ELSE Empty(toVisit) /\ ~Empty(toVisit')
              THEN "woken" ELSE moved[w]]

\* The broadcasts of update: sleepers whose condition this step makes true
\* are notified; the workers otherwise move as moved says.
update(moved) ==
    pc' = [w \in Worker |->
              IF pc[w] = "asleep" /\ ~ShouldWake(w) /\ ShouldWake(w)'
              THEN "woken" ELSE moved[w]]

\* No worker holds the mutex.
MuFree == \A w \in Worker : pc[w] # "loop"

------------------------------------------------------------------------------
(* The worker loop: resolveNodes and visitNodes                            *)

\* Lock the mutex, on entry to the worker function or on return from Wait.
Lock(w) ==
    /\ pc[w] \in {"start", "woken"} /\ MuFree
    /\ pc' = [pc EXCEPT ![w] = "loop"]
    /\ UNCHANGED <<graph, nodeVars, queueVars, busyVars, firstErr, ctx,
                   cur, result>>

\* waitForResolverWork, waitForVisitorWork: nothing to do, so sleep.
Sleep(w) ==
    /\ pc[w] = "loop" /\ ~ShouldWake(w)
    /\ pc' = [pc EXCEPT ![w] = "asleep"]
    /\ UNCHANGED <<graph, nodeVars, queueVars, busyVars, firstErr, ctx,
                   cur, result>>

\* The worker function returns nil and unlocks.
Exit(w) ==
    /\ pc[w] = "loop" /\ ShouldExit(w)
    /\ pc' = [pc EXCEPT ![w] = "done"]
    /\ UNCHANGED <<graph, nodeVars, queueVars, busyVars, firstErr, ctx,
                   cur, result>>

\* The first half of resolveOne: become busy, take a node, unlock, call
\* FindDependencies.  Taking a node makes no condition true, so this update
\* notifies nobody.
TakeToResolve(w, n) ==
    /\ w \in Resolvers /\ pc[w] = "loop" /\ ~resolversShouldExit
    /\ toResolve[n] > 0
    /\ toResolve' = [toResolve EXCEPT ![n] = @ - 1]
    /\ busyResolvers' = busyResolvers + 1
    /\ pc' = [pc EXCEPT ![w] = "calling"]
    /\ cur' = [cur EXCEPT ![w] = n]
    /\ UNCHANGED <<graph, nodeVars, toVisit, busyVisitors, firstErr, ctx,
                   result>>

\* Mutant: the cases of the switch swapped, so that work goes before exit.
TakeBeforeExit(w, n) ==
    /\ w \in Visitors /\ pc[w] = "loop"
    /\ toVisit[n] > 0
    /\ toVisit' = [toVisit EXCEPT ![n] = @ - 1]
    /\ busyVisitors' = busyVisitors + 1
    /\ pc' = [pc EXCEPT ![w] = "calling"]
    /\ cur' = [cur EXCEPT ![w] = n]
    /\ UNCHANGED <<graph, nodeVars, toResolve, busyResolvers, firstErr, ctx,
                   result>>

\* The first half of visitOne.
TakeToVisit(w, n) ==
    /\ w \in Visitors /\ pc[w] = "loop" /\ ~visitorsShouldExit
    /\ toVisit[n] > 0
    /\ toVisit' = [toVisit EXCEPT ![n] = @ - 1]
    /\ busyVisitors' = busyVisitors + 1
    /\ pc' = [pc EXCEPT ![w] = "calling"]
    /\ cur' = [cur EXCEPT ![w] = n]
    /\ UNCHANGED <<graph, nodeVars, toResolve, busyResolvers, firstErr, ctx,
                   result>>

------------------------------------------------------------------------------
(* The end of a call                                                       *)

\* The positions of n's dependency list that name m.
Occurrences(n, m) == {i \in DOMAIN graph[n] : graph[n][i] = m}

\* The positions of n's dependency list that name a node not yet visited.
Missing(n) == {i \in DOMAIN graph[n] : state[graph[n][i]] # "Visited"}

\* addNodes: the members of S not seen before enter nodes and toResolve.
addNodes(S) ==
    /\ nodes' = nodes \cup S
    /\ toResolve' = [n \in Node |->
                        IF n \in S \ nodes THEN toResolve[n] + 1 ELSE toResolve[n]]

\* The second half of resolveOne, FindDependencies having returned
\* graph[n]: count the dependencies not yet visited, entry by entry, and
\* enlist with each of them.  The worker keeps the mutex and loops.
Resolved(w) ==
    LET n == cur[w]
        count == depsUnsatisfied[n] + Cardinality(Missing(n))
    IN  /\ w \in Resolvers /\ pc[w] = "calling" /\ MuFree
        /\ addNodes(Deps(graph, n))
        /\ depsUnsatisfied' = [depsUnsatisfied EXCEPT ![n] = count]
        /\ dependants' =
              [m \in Node |->
                  IF state[m] = "Visited" THEN dependants[m]
                  ELSE [dependants[m] EXCEPT
                           ![n] = @ + Cardinality(Occurrences(n, m))]]
        /\ IF count > 0
           THEN /\ state' = [state EXCEPT ![n] = "DependenciesUnsatisfied"]
                /\ unsatisfied' = unsatisfied \cup {n}
                /\ UNCHANGED toVisit
           ELSE /\ state' = [state EXCEPT ![n] = "Unvisited"]
                /\ toVisit' = [toVisit EXCEPT ![n] = @ + 1]
                /\ UNCHANGED unsatisfied
        /\ busyResolvers' = busyResolvers - 1
        /\ cur' = [cur EXCEPT ![w] = "none"]
        /\ UNCHANGED <<graph, busyVisitors, firstErr, ctx, result>>
        /\ update([pc EXCEPT ![w] = "loop"])

\* Mutant: any visited dependency satisfies a node.
SatisfiedByAny(m) == {n \in Node : dependants[m][n] > 0}

\* The nodes whose last missing dependency is m: one of m's entries brings
\* their counter to zero.
Satisfied(m) == {n \in Node : depsUnsatisfied[n] \in 1..dependants[m][n]}

\* The second half of visitOne, Visit having returned nil: each entry of
\* dependants takes one off its node's counter.
Visited(w) ==
    LET m == cur[w]
    IN  /\ w \in Visitors /\ pc[w] = "calling" /\ MuFree
        /\ depsUnsatisfied' =
              [n \in Node |-> depsUnsatisfied[n] - dependants[m][n]]
        /\ toVisit' = [n \in Node |->
              IF n \in Satisfied(m) THEN toVisit[n] + 1 ELSE toVisit[n]]
        /\ unsatisfied' = unsatisfied \ Satisfied(m)
        /\ dependants' = [dependants EXCEPT ![m] = [n \in Node |-> 0]]
        /\ state' = [n \in Node |->
              IF n = m THEN "Visited"
              ELSE IF n \in Satisfied(m) THEN "Unvisited" ELSE state[n]]
        /\ busyVisitors' = busyVisitors - 1
        /\ cur' = [cur EXCEPT ![w] = "none"]
        /\ UNCHANGED <<graph, nodes, toResolve, busyResolvers, firstErr, ctx,
                       result>>
        /\ update([pc EXCEPT ![w] = "loop"])

\* Mutant: the latest error is kept.
recordLastError(err) == firstErr' = err

\* runAction: only the first error is kept.
recordError(err) == firstErr' = IF firstErr = "none" THEN err ELSE firstErr

\* FindDependencies or Visit has returned an error: the node goes nowhere,
\* the worker is no longer busy, records the error and returns it.
Failed(w, err) ==
    /\ pc[w] = "calling" /\ MuFree
    /\ err = "followOn" => ctx = "cancelled"
    /\ busyResolvers' = IF w \in Resolvers THEN busyResolvers - 1 ELSE busyResolvers
    /\ busyVisitors' = IF w \in Visitors THEN busyVisitors - 1 ELSE busyVisitors
    /\ recordError(err)
    /\ UNCHANGED <<graph, nodeVars, queueVars, ctx, cur, result>>
    /\ update([pc EXCEPT ![w] = "failing"])

\* The errgroup's wrapper sees the worker's error and cancels the context.
Cancel(w) ==
    /\ pc[w] = "failing"
    /\ pc' = [pc EXCEPT ![w] = "failed"]
    /\ ctx' = "cancelled"
    /\ UNCHANGED <<graph, nodeVars, queueVars, busyVars, firstErr, cur, result>>

\* The end of Visit: eg.Wait has returned; firstErr goes before the cycle
\* check.
Return ==
    /\ result = "running"
    /\ \A w \in Worker : pc[w] \in {"done", "failed"}
    /\ result' = IF firstErr # "none" THEN "error"
                 ELSE IF unsatisfied # {} THEN "cycle" ELSE "ok"
    /\ UNCHANGED <<graph, nodeVars, queueVars, busyVars, firstErr, ctx,
                   pc, cur>>

WorkerStep(w) ==
    \/ Lock(w) \/ Sleep(w) \/ Exit(w)
    \/ \E n \in Node : TakeToResolve(w, n) \/ TakeToVisit(w, n)
    \/ Resolved(w) \/ Visited(w)
    \/ \E err \in Errors : Failed(w, err)
    \/ Cancel(w)

\* Visit has returned.
Terminated == result # "running" /\ UNCHANGED vars

Next == (\E w \in Worker : WorkerStep(w)) \/ Return \/ Terminated

Spec == Init /\ [][Next]_vars

\* Goroutines that can run do run (the runtime's mutex admits each waiter in
\* turn), and every FindDependencies and Visit call returns.
Fairness == WF_vars(Return) /\ \A w \in Worker : WF_vars(WorkerStep(w))

FairSpec == Spec /\ Fairness

------------------------------------------------------------------------------
(* Properties                                                              *)

Bag == [Node -> Nat]

\* Every variable has the type its Go declaration gives it; a counter that
\* may only be found non-negative by argument is an integer here.
TypeOK ==
    /\ graph \in Graphs
    /\ nodes \subseteq Node
    /\ state \in [Node -> NodeStates]
    /\ depsUnsatisfied \in [Node -> Int]
    /\ dependants \in [Node -> Bag]
    /\ toResolve \in Bag
    /\ toVisit \in Bag
    /\ unsatisfied \subseteq Node
    /\ firstErr \in Errors \cup {"none"}
    /\ busyResolvers \in Int
    /\ busyVisitors \in Int
    /\ ctx \in {"live", "cancelled"}
    /\ pc \in [Worker -> PCs]
    /\ cur \in [Worker -> Node \cup {"none"}]
    /\ result \in {"running", "ok", "cycle", "error"}

\* w has taken n off its queue and has not put it back.
Holds(w, n) == cur[w] = n /\ pc[w] \in {"calling", "failing", "failed"}

\* visitState.checkInvariants and nodeInfo.checkInvariants, which the code
\* runs whenever the mutex is taken or released: none of them ever panics.
CheckInvariants ==
    /\ busyResolvers >= 0 /\ busyVisitors >= 0
    /\ unsatisfied = {n \in nodes : state[n] = "DependenciesUnsatisfied"}
    /\ \A n \in Node :
          /\ depsUnsatisfied[n] >= 0
          /\ depsUnsatisfied[n] > 0 <=> state[n] = "DependenciesUnsatisfied"
          /\ toResolve[n] > 0 =>
                n \in nodes /\ state[n] = "DependenciesUnresolved"
          /\ toVisit[n] > 0 => n \in nodes /\ state[n] = "Unvisited"
          /\ \A m \in Node : dependants[m][n] > 0 =>
                /\ state[m] # "Visited"
                /\ state[n] = "DependenciesUnsatisfied"

\* A node that still needs a worker is in exactly one place: queued once, or
\* held by one worker.  A node dropped from both, or queued twice, would be
\* skipped or handed to FindDependencies or Visit a second time.
OnePlace ==
    \A n \in Node :
      /\ toResolve[n] + Cardinality({w \in Resolvers : Holds(w, n)}) =
            IF n \in nodes /\ state[n] = "DependenciesUnresolved" THEN 1 ELSE 0
      /\ toVisit[n] + Cardinality({w \in Visitors : Holds(w, n)}) =
            IF state[n] = "Unvisited" THEN 1 ELSE 0

\* No worker sleeps on a condition that is true: update broadcasts at every
\* step that makes resolversShouldWake or visitorsShouldWake true, whichever
\* pool takes it.
NoLostWakeup == \A w \in Worker : pc[w] = "asleep" => ~ShouldWake(w)

\* Visit(N) is called only when Visit has returned successfully for every
\* dependency of N.
DependenciesFirst ==
    \A w \in Visitors : pc[w] = "calling" =>
        \A d \in Deps(graph, cur[w]) : state[d] = "Visited"

\* The error Visit returns is never the echo of an earlier one: a call that
\* fails because the errgroup cancelled the context finds firstErr set.
NoFollowOnError == firstErr # "followOn"

\* What Visit's return value tells the caller: nil means that everything
\* reachable was visited, which is impossible in a graph with a cycle; the
\* cycle error means there is one; and any other error is that of a call which
\* failed by itself, not one that was cancelled because another had failed.
ResultIsRight ==
    /\ result = "error" => firstErr # "none" /\ NoFollowOnError
    /\ result = "ok" => /\ \A n \in Reachable(graph) : state[n] = "Visited"
                        /\ ~HasCycle(graph, Reachable(graph))
    /\ result = "cycle" => HasCycle(graph, Reachable(graph))

\* Every walk ends, whatever fails and however the workers interleave.
Termination == <>(result # "running")

Calling(w, n) == cur[w] = n /\ pc[w] = "calling"
FailedOn(w, n) == cur[w] = n /\ pc[w] \in {"failing", "failed"}

\* The phase of a node in DagTraversal.
AbsPhase ==
    [n \in Node |->
        IF \E w \in Worker : FailedOn(w, n) THEN "failed"
        ELSE IF \E w \in Resolvers : Calling(w, n) THEN "finding"
        ELSE IF \E w \in Visitors : Calling(w, n) THEN "visiting"
        ELSE IF state[n] = "Visited" THEN "visited"
        ELSE IF state[n] = "DependenciesUnresolved" THEN "idle" ELSE "found"]

Abs == INSTANCE DagTraversal WITH phase <- AbsPhase, outcome <- result

\* Visit keeps the promises of its comment: each call at most once per node,
\* in dependency order, none begun after a failure, all over on return.
Contract == Abs!Spec
=============================================================================
