--------------------------- MODULE DagVisitProofs ---------------------------
(***************************************************************************)
(* Proofs about DagVisit, for every set of nodes and graphs and every size *)
(* of the two worker pools.  The inductive invariants are layered: each    *)
(* layer is proved with the earlier ones as hypotheses.                    *)
(***************************************************************************)
EXTENDS DagVisit, FiniteSetTheorems, TLAPS

\* A worker has a node exactly while its call runs or after it failed.
CurInv ==
    \A w \in Worker :
        cur[w] \in Node <=> pc[w] \in {"calling", "failing", "failed"}

\* The busy counters count the calls in progress.
BusyInv ==
    /\ busyResolvers = Cardinality({w \in Resolvers : pc[w] = "calling"})
    /\ busyVisitors = Cardinality({w \in Visitors : pc[w] = "calling"})

------------------------------------------------------------------------------
(* Facts about the graph's dependency lists                                *)

\* The positions of a list that name an unvisited node, and those that name
\* a given node, are finite sets.
LEMMA PositionsFinite ==
    ASSUME graph \in Graphs, NEW n \in Node
    PROVE  /\ IsFiniteSet(DOMAIN graph[n])
           /\ IsFiniteSet(Missing(n)) /\ Cardinality(Missing(n)) \in Nat
           /\ \A m : /\ IsFiniteSet(Occurrences(n, m))
                     /\ Cardinality(Occurrences(n, m)) \in Nat
<1>1. graph[n] \in Seq(Node)
  BY GraphsAssumption
<1>2. IsFiniteSet(DOMAIN graph[n])
  <2>1. DOMAIN graph[n] = 1..Len(graph[n]) /\ Len(graph[n]) \in Nat
    BY <1>1
  <2>2. IsFiniteSet(1..Len(graph[n]))
    BY <2>1, FS_Interval
  <2> QED BY <2>1, <2>2
<1>3. Missing(n) \subseteq DOMAIN graph[n]
  BY DEF Missing
<1>4. \A m : Occurrences(n, m) \subseteq DOMAIN graph[n]
  BY DEF Occurrences
<1> QED BY <1>2, <1>3, <1>4, FS_Subset, FS_CardinalityType

\* Dependencies are nodes.
LEMMA DepsAreNodes ==
    ASSUME graph \in Graphs, NEW n \in Node
    PROVE  /\ Deps(graph, n) \subseteq Node
           /\ \A i \in DOMAIN graph[n] : graph[n][i] \in Node
<1>1. graph[n] \in Seq(Node)
  BY GraphsAssumption
<1>2. \A i \in DOMAIN graph[n] : graph[n][i] \in Node
  BY <1>1
<1> QED BY <1>2 DEF Deps

------------------------------------------------------------------------------
(* Type correctness                                                        *)

TypeInv == TypeOK /\ CurInv

\* What update does to the workers, whatever it notifies: w moves to where,
\* sleepers may be woken, nothing else moves.
LEMMA UpdateMoves ==
    ASSUME pc \in [Worker -> PCs], NEW w \in Worker, NEW where \in PCs,
           pc[w] # "asleep", update([pc EXCEPT ![w] = where])
    PROVE  /\ pc' \in [Worker -> PCs]
           /\ pc'[w] = where
           /\ \A x \in Worker \ {w} :
                 \/ pc'[x] = pc[x]
                 \/ /\ pc[x] = "asleep" /\ pc'[x] = "woken"
                    /\ ~ShouldWake(x) /\ ShouldWake(x)'
           /\ \A x \in Worker :
                 pc[x] = "asleep" /\ ~ShouldWake(x) /\ ShouldWake(x)' => pc'[x] = "woken"
  BY DEF update, PCs

THEOREM InitType == Init => TypeInv
  BY StartAssumption, NoneAssumption DEF Init, TypeInv, TypeOK, CurInv, Bag, NodeStates, PCs, Errors

THEOREM NextType == TypeInv /\ [Next]_vars => TypeInv'
<1> SUFFICES ASSUME TypeInv, [Next]_vars PROVE TypeInv'
  OBVIOUS
<1> USE DEF TypeInv, Bag, nodeVars, queueVars, busyVars
<1>1. ASSUME NEW w \in Worker, Lock(w) PROVE TypeInv'
  BY <1>1 DEF Lock, TypeOK, CurInv, PCs
<1>2. ASSUME NEW w \in Worker, Sleep(w) PROVE TypeInv'
  BY <1>2 DEF Sleep, TypeOK, CurInv, PCs
<1>3. ASSUME NEW w \in Worker, Exit(w) PROVE TypeInv'
  BY <1>3 DEF Exit, TypeOK, CurInv, PCs
<1>4. ASSUME NEW w \in Worker, NEW n \in Node, TakeToResolve(w, n) PROVE TypeInv'
  BY <1>4 DEF TakeToResolve, TypeOK, CurInv, PCs
<1>5. ASSUME NEW w \in Worker, NEW n \in Node, TakeToVisit(w, n) PROVE TypeInv'
  BY <1>5 DEF TakeToVisit, TypeOK, CurInv, PCs
<1>6. ASSUME NEW w \in Worker, Resolved(w) PROVE TypeInv'
  <2> DEFINE n == cur[w]
             count == depsUnsatisfied[n] + Cardinality(Missing(n))
  <2>1. n \in Node /\ w \in Resolvers /\ pc[w] = "calling"
    BY <1>6 DEF Resolved, CurInv
  <2>2. /\ count \in Int
        /\ \A m \in Node : Cardinality(Occurrences(n, m)) \in Nat
    BY <2>1, PositionsFinite DEF TypeOK
  <2>3. Deps(graph, n) \subseteq Node
    BY <2>1, DepsAreNodes DEF TypeOK
  <2>4. depsUnsatisfied' \in [Node -> Int]
    BY <1>6, <2>1, <2>2 DEF Resolved, TypeOK
  <2>5. dependants' \in [Node -> Bag]
    BY <1>6, <2>1, <2>2 DEF Resolved, TypeOK
  <2>6. nodes' \subseteq Node /\ toResolve' \in Bag
    BY <1>6, <2>1, <2>3 DEF Resolved, addNodes, TypeOK
  <2>7. /\ state' \in [Node -> NodeStates] /\ unsatisfied' \subseteq Node
        /\ toVisit' \in Bag
    <3>1. CASE count > 0
      <4>1. /\ state' = [state EXCEPT ![n] = "DependenciesUnsatisfied"]
            /\ unsatisfied' = unsatisfied \cup {n}
            /\ toVisit' = toVisit
        BY <1>6, <3>1 DEF Resolved
      <4> QED BY <4>1, <2>1 DEF TypeOK, NodeStates
    <3>2. CASE ~(count > 0)
      <4>1. /\ state' = [state EXCEPT ![n] = "Unvisited"]
            /\ unsatisfied' = unsatisfied
            /\ toVisit' = [toVisit EXCEPT ![n] = @ + 1]
        BY <1>6, <3>2 DEF Resolved
      <4> QED BY <4>1, <2>1 DEF TypeOK, NodeStates
    <3> QED BY <3>1, <3>2
  <2>8. pc' \in [Worker -> PCs] /\ CurInv'
    <3>1. update([pc EXCEPT ![w] = "loop"]) /\ cur' = [cur EXCEPT ![w] = "none"]
      BY <1>6 DEF Resolved
    <3>2. cur'[w] \notin Node
      BY <1>6, <3>1, NoneAssumption DEF TypeOK
    <3>3. /\ pc' \in [Worker -> PCs] /\ pc'[w] = "loop"
          /\ \A x \in Worker \ {w} :
                pc'[x] = pc[x] \/ (pc[x] = "asleep" /\ pc'[x] = "woken")
      <4>1. pc[w] # "asleep" /\ "loop" \in PCs /\ pc \in [Worker -> PCs]
        BY <2>1 DEF PCs, TypeOK
      <4> QED BY <3>1, <4>1, UpdateMoves
    <3> QED BY <3>1, <3>2, <3>3 DEF TypeOK, CurInv
  <2>9. /\ UNCHANGED <<graph, busyVisitors, firstErr, ctx, result>>
        /\ busyResolvers' = busyResolvers - 1
        /\ cur' = [cur EXCEPT ![w] = "none"]
    BY <1>6 DEF Resolved
  <2> QED BY <2>4, <2>5, <2>6, <2>7, <2>8, <2>9 DEF TypeOK
<1>7. ASSUME NEW w \in Worker, Visited(w) PROVE TypeInv'
  <2> DEFINE m == cur[w]
  <2>1. m \in Node /\ w \in Visitors /\ pc[w] = "calling"
    BY <1>7 DEF Visited, CurInv
  <2>2. depsUnsatisfied' \in [Node -> Int]
    BY <1>7, <2>1 DEF Visited, TypeOK
  <2>3. dependants' \in [Node -> Bag] /\ toVisit' \in Bag
    BY <1>7, <2>1 DEF Visited, TypeOK
  <2>4. state' \in [Node -> NodeStates] /\ unsatisfied' \subseteq Node
    BY <1>7, <2>1 DEF Visited, TypeOK, NodeStates
  <2>5. pc' \in [Worker -> PCs] /\ CurInv'
    <3>1. update([pc EXCEPT ![w] = "loop"]) /\ cur' = [cur EXCEPT ![w] = "none"]
      BY <1>7 DEF Visited
    <3>2. cur'[w] \notin Node
      BY <1>7, <3>1, NoneAssumption DEF TypeOK
    <3>3. /\ pc' \in [Worker -> PCs] /\ pc'[w] = "loop"
          /\ \A x \in Worker \ {w} :
                pc'[x] = pc[x] \/ (pc[x] = "asleep" /\ pc'[x] = "woken")
      <4>1. pc[w] # "asleep" /\ "loop" \in PCs /\ pc \in [Worker -> PCs]
        BY <2>1 DEF PCs, TypeOK
      <4> QED BY <3>1, <4>1, UpdateMoves
    <3> QED BY <3>1, <3>2, <3>3 DEF TypeOK, CurInv
  <2>6. /\ UNCHANGED <<graph, nodes, toResolve, busyResolvers, firstErr, ctx, result>>
        /\ busyVisitors' = busyVisitors - 1
        /\ cur' = [cur EXCEPT ![w] = "none"]
    BY <1>7 DEF Visited
  <2> QED BY <2>2, <2>3, <2>4, <2>5, <2>6 DEF TypeOK
<1>8. ASSUME NEW w \in Worker, NEW err \in Errors, Failed(w, err) PROVE TypeInv'
  <2>1. update([pc EXCEPT ![w] = "failing"]) /\ pc[w] = "calling"
    BY <1>8 DEF Failed
  <2>2. pc' \in [Worker -> PCs] /\ CurInv'
    BY <1>8, <2>1, UpdateMoves DEF Failed, TypeOK, CurInv, PCs
  <2>3. firstErr' \in Errors \cup {"none"}
    BY <1>8 DEF Failed, recordError, TypeOK
  <2> QED BY <1>8, <2>2, <2>3 DEF Failed, TypeOK
<1>9. ASSUME NEW w \in Worker, Cancel(w) PROVE TypeInv'
  BY <1>9 DEF Cancel, TypeOK, CurInv, PCs
<1>10. CASE Return
  BY <1>10 DEF Return, TypeOK, CurInv
<1>11. CASE UNCHANGED vars
  BY <1>11 DEF vars, TypeOK, CurInv
<1> QED BY <1>1, <1>2, <1>3, <1>4, <1>5, <1>6, <1>7, <1>8, <1>9, <1>10, <1>11
        DEF Next, WorkerStep, Terminated

\* TypeOK holds in every reachable state.
THEOREM TypeCorrect == Spec => []TypeOK
<1>1. Spec => []TypeInv
  BY InitType, NextType, PTL DEF Spec
<1> QED BY <1>1, PTL DEF TypeInv
------------------------------------------------------------------------------
(* The busy counters                                                       *)

CallingIn(W) == {w \in W : pc[w] = "calling"}

\* The calls in progress form finite sets.
LEMMA CallingFinite ==
    /\ IsFiniteSet(CallingIn(Resolvers)) /\ Cardinality(CallingIn(Resolvers)) \in Nat
    /\ IsFiniteSet(CallingIn(Visitors)) /\ Cardinality(CallingIn(Visitors)) \in Nat
<1>1. CallingIn(Resolvers) \subseteq Resolvers /\ CallingIn(Visitors) \subseteq Visitors
  BY DEF CallingIn
<1> QED BY <1>1, WorkerAssumption, FS_Subset, FS_CardinalityType

\* A worker begins a call: its pool has one call more.
LEMMA CallBegins ==
    ASSUME NEW W, NEW w \in W, IsFiniteSet(CallingIn(W)),
           pc[w] # "calling", pc'[w] = "calling",
           \A x \in W \ {w} : pc'[x] = "calling" <=> pc[x] = "calling"
    PROVE  Cardinality(CallingIn(W)') = Cardinality(CallingIn(W)) + 1
<1>1. CallingIn(W)' = CallingIn(W) \cup {w} /\ w \notin CallingIn(W)
  BY DEF CallingIn
<1> QED BY <1>1, FS_AddElement

\* A worker ends a call: its pool has one call less.
LEMMA CallEnds ==
    ASSUME NEW W, NEW w \in W, IsFiniteSet(CallingIn(W)),
           pc[w] = "calling", pc'[w] # "calling",
           \A x \in W \ {w} : pc'[x] = "calling" <=> pc[x] = "calling"
    PROVE  Cardinality(CallingIn(W)') = Cardinality(CallingIn(W)) - 1
<1>1. CallingIn(W)' = CallingIn(W) \ {w} /\ w \in CallingIn(W)
  BY DEF CallingIn
<1> QED BY <1>1, FS_RemoveElement

\* The calls of a pool none of whose workers begins or ends one.
LEMMA CallsStay ==
    ASSUME NEW W, \A x \in W : pc'[x] = "calling" <=> pc[x] = "calling"
    PROVE  CallingIn(W)' = CallingIn(W)
  BY DEF CallingIn

\* How the calls in progress change when worker w moves by update.
LEMMA UpdateCalls ==
    ASSUME TypeOK, NEW w \in Worker, NEW where \in PCs, pc[w] = "calling",
           where # "calling", update([pc EXCEPT ![w] = where])
    PROVE  /\ pc'[w] # "calling"
           /\ \A x \in Worker \ {w} : pc'[x] = "calling" <=> pc[x] = "calling"
<1>1. pc[w] # "asleep" /\ pc \in [Worker -> PCs]
  BY DEF TypeOK
<1> QED BY <1>1, UpdateMoves

LEMMA InitBusy == Init => BusyInv
<1> SUFFICES ASSUME Init PROVE BusyInv
  OBVIOUS
<1>1. {w \in Resolvers : pc[w] = "calling"} = {} /\ {w \in Visitors : pc[w] = "calling"} = {}
  BY DEF Init, Worker
<1> QED BY <1>1, FS_EmptySet DEF Init, BusyInv

LEMMA NextBusy == TypeInv /\ BusyInv /\ [Next]_vars => BusyInv'
<1> SUFFICES ASSUME TypeOK, BusyInv, [Next]_vars PROVE BusyInv'
  BY DEF TypeInv
<1> USE DEF BusyInv, Worker, busyVars
<1>a. /\ busyResolvers = Cardinality(CallingIn(Resolvers))
      /\ busyVisitors = Cardinality(CallingIn(Visitors))
  BY DEF CallingIn
<1>b. SUFFICES /\ busyResolvers' = Cardinality(CallingIn(Resolvers)')
               /\ busyVisitors' = Cardinality(CallingIn(Visitors)')
  BY DEF CallingIn
<1>c. ASSUME busyVars' = busyVars,
             \A x \in Worker : pc'[x] = "calling" <=> pc[x] = "calling"
      PROVE  /\ busyResolvers' = Cardinality(CallingIn(Resolvers)')
             /\ busyVisitors' = Cardinality(CallingIn(Visitors)')
  BY <1>a, <1>c, CallsStay
<1>1. ASSUME NEW w \in Worker, Lock(w) \/ Sleep(w) \/ Exit(w) \/ Cancel(w)
      PROVE  /\ busyResolvers' = Cardinality(CallingIn(Resolvers)')
             /\ busyVisitors' = Cardinality(CallingIn(Visitors)')
  BY <1>1, <1>c DEF Lock, Sleep, Exit, Cancel, TypeOK
<1>2. ASSUME NEW w \in Worker, NEW n \in Node, TakeToResolve(w, n)
      PROVE  /\ busyResolvers' = Cardinality(CallingIn(Resolvers)')
             /\ busyVisitors' = Cardinality(CallingIn(Visitors)')
  <2>1. /\ w \in Resolvers /\ pc[w] # "calling" /\ pc'[w] = "calling"
        /\ \A x \in Worker \ {w} : pc'[x] = pc[x]
        /\ busyResolvers' = busyResolvers + 1 /\ busyVisitors' = busyVisitors
    BY <1>2 DEF TakeToResolve, TypeOK
  <2>2. w \notin Visitors
    BY <2>1, WorkerAssumption
  <2> QED BY <1>a, <2>1, <2>2, CallBegins, CallsStay, CallingFinite
<1>3. ASSUME NEW w \in Worker, NEW n \in Node, TakeToVisit(w, n)
      PROVE  /\ busyResolvers' = Cardinality(CallingIn(Resolvers)')
             /\ busyVisitors' = Cardinality(CallingIn(Visitors)')
  <2>1. /\ w \in Visitors /\ pc[w] # "calling" /\ pc'[w] = "calling"
        /\ \A x \in Worker \ {w} : pc'[x] = pc[x]
        /\ busyVisitors' = busyVisitors + 1 /\ busyResolvers' = busyResolvers
    BY <1>3 DEF TakeToVisit, TypeOK
  <2>2. w \notin Resolvers
    BY <2>1, WorkerAssumption
  <2> QED BY <1>a, <2>1, <2>2, CallBegins, CallsStay, CallingFinite
<1>4. ASSUME NEW w \in Worker,
             Resolved(w) \/ Visited(w) \/ \E err \in Errors : Failed(w, err)
      PROVE  /\ busyResolvers' = Cardinality(CallingIn(Resolvers)')
             /\ busyVisitors' = Cardinality(CallingIn(Visitors)')
  <2>1. PICK where \in {"loop", "failing"} :
             pc[w] = "calling" /\ update([pc EXCEPT ![w] = where])
    BY <1>4 DEF Resolved, Visited, Failed
  <2>2. where \in PCs /\ where # "calling"
    BY <2>1 DEF PCs
  <2>3. /\ pc'[w] # "calling"
        /\ \A x \in Worker \ {w} : pc'[x] = "calling" <=> pc[x] = "calling"
    BY <2>1, <2>2, UpdateCalls
  <2>4. CASE w \in Resolvers
    <3>1. w \notin Visitors
      BY <2>4, WorkerAssumption
    <3>2. busyResolvers' = busyResolvers - 1 /\ busyVisitors' = busyVisitors
      BY <1>4, <2>4, <3>1 DEF Resolved, Visited, Failed
    <3> QED BY <1>a, <2>1, <2>3, <2>4, <3>1, <3>2, CallEnds, CallsStay, CallingFinite
  <2>5. CASE w \in Visitors
    <3>1. w \notin Resolvers
      BY <2>5, WorkerAssumption
    <3>2. busyVisitors' = busyVisitors - 1 /\ busyResolvers' = busyResolvers
      BY <1>4, <2>5, <3>1 DEF Resolved, Visited, Failed
    <3> QED BY <1>a, <2>1, <2>3, <2>5, <3>1, <3>2, CallEnds, CallsStay, CallingFinite
  <2> QED BY <2>4, <2>5
<1>5. CASE Return
  BY <1>5, <1>c DEF Return
<1>6. CASE UNCHANGED vars
  BY <1>6, <1>c DEF vars
<1> QED BY <1>1, <1>2, <1>3, <1>4, <1>5, <1>6 DEF Next, WorkerStep, Terminated

------------------------------------------------------------------------------
(* No lost wakeup                                                          *)

\* A worker's step that changes neither queues, counters nor error changes
\* no condition.
LEMMA ConditionsStay ==
    ASSUME UNCHANGED <<queueVars, busyVars, firstErr>>, NEW x
    PROVE  ShouldWake(x)' = ShouldWake(x)
  BY DEF queueVars, busyVars, ShouldWake, resolversShouldWake, visitorsShouldWake,
         resolversShouldExit, visitorsShouldExit, Empty

LEMMA NextWakeup ==
    TypeInv /\ BusyInv /\ NoLostWakeup /\ [Next]_vars => NoLostWakeup'
<1> SUFFICES ASSUME TypeOK, BusyInv, NoLostWakeup, [Next]_vars PROVE NoLostWakeup'
  BY DEF TypeInv
<1>1. ASSUME NEW w \in Worker, Lock(w) \/ Sleep(w) \/ Exit(w) \/ Cancel(w)
      PROVE  NoLostWakeup'
  BY <1>1, ConditionsStay DEF Lock, Sleep, Exit, Cancel, NoLostWakeup, TypeOK
<1>2. ASSUME NEW w \in Worker, NEW n \in Node, TakeToResolve(w, n)
      PROVE  NoLostWakeup'
  <2>1. busyResolvers \in Nat
    BY CallingFinite DEF BusyInv, CallingIn
  <2>2. busyResolvers' # 0 /\ firstErr' = "none" /\ firstErr = "none"
    BY <1>2, <2>1 DEF TakeToResolve, resolversShouldExit
  <2>3. ASSUME NEW x \in Worker, pc'[x] = "asleep" PROVE ~ShouldWake(x)'
    <3>1. pc[x] = "asleep"
      BY <1>2, <2>3 DEF TakeToResolve, TypeOK
    <3>2. ~ShouldWake(x)
      BY <3>1 DEF NoLostWakeup
    <3>3. ~Empty(toResolve)
      BY <1>2 DEF TakeToResolve, Empty, TypeOK, Bag
    <3>4. x \notin Resolvers
      BY <3>2, <3>3 DEF ShouldWake, resolversShouldWake
    <3>5. Empty(toVisit)
      BY <3>2, <3>4 DEF ShouldWake, visitorsShouldWake
    <3> QED BY <1>2, <2>2, <3>4, <3>5 DEF TakeToResolve, ShouldWake,
              visitorsShouldWake, visitorsShouldExit, resolversShouldExit, Empty
  <2> QED BY <2>3 DEF NoLostWakeup
<1>3. ASSUME NEW w \in Worker, NEW n \in Node, TakeToVisit(w, n)
      PROVE  NoLostWakeup'
  <2>3. ASSUME NEW x \in Worker, pc'[x] = "asleep" PROVE ~ShouldWake(x)'
    <3>1. pc[x] = "asleep"
      BY <1>3, <2>3 DEF TakeToVisit, TypeOK
    <3>2. ~ShouldWake(x)
      BY <3>1 DEF NoLostWakeup
    <3>3. ~Empty(toVisit)
      BY <1>3 DEF TakeToVisit, Empty, TypeOK, Bag
    <3>4. x \in Resolvers
      BY <3>2, <3>3 DEF ShouldWake, visitorsShouldWake
    <3> QED BY <1>3, <3>2, <3>4 DEF TakeToVisit, ShouldWake,
              resolversShouldWake, resolversShouldExit, Empty
  <2> QED BY <2>3 DEF NoLostWakeup
<1>4. ASSUME NEW w \in Worker,
             Resolved(w) \/ Visited(w) \/ \E err \in Errors : Failed(w, err)
      PROVE  NoLostWakeup'
  <2>1. PICK where \in {"loop", "failing"} :
             pc[w] = "calling" /\ update([pc EXCEPT ![w] = where])
    BY <1>4 DEF Resolved, Visited, Failed
  <2>2. where \in PCs /\ pc[w] # "asleep" /\ pc \in [Worker -> PCs]
    BY <2>1 DEF PCs, TypeOK
  <2>3. /\ pc'[w] = where
        /\ \A x \in Worker \ {w} :
              pc'[x] = pc[x] \/ (pc[x] = "asleep" /\ pc'[x] = "woken")
        /\ \A x \in Worker :
              pc[x] = "asleep" /\ ~ShouldWake(x) /\ ShouldWake(x)' => pc'[x] = "woken"
    BY <2>1, <2>2, UpdateMoves
  <2> QED BY <2>1, <2>3 DEF NoLostWakeup
<1>5. CASE Return
  BY <1>5, ConditionsStay DEF Return, NoLostWakeup
<1>6. CASE UNCHANGED vars
  BY <1>6, ConditionsStay DEF vars, NoLostWakeup
<1> QED BY <1>1, <1>2, <1>3, <1>4, <1>5, <1>6 DEF Next, WorkerStep, Terminated

\* No worker ever sleeps on a condition that is true, for any number of
\* resolvers and visitors: the broadcasts in update suffice.
THEOREM NoWakeupIsLost == Spec => []NoLostWakeup
<1>1. Init => TypeInv /\ BusyInv /\ NoLostWakeup
  <2>1. Init => NoLostWakeup
    BY DEF Init, NoLostWakeup
  <2> QED BY <2>1, InitType, InitBusy
<1>2. TypeInv /\ BusyInv /\ NoLostWakeup /\ [Next]_vars => (TypeInv /\ BusyInv /\ NoLostWakeup)'
  BY NextType, NextBusy, NextWakeup
<1> QED BY <1>1, <1>2, PTL DEF Spec
------------------------------------------------------------------------------
(* Errors                                                                  *)

\* Whoever has failed has recorded it first, so the context is cancelled
\* only when firstErr is set.
ErrInv ==
    /\ firstErr # "followOn"
    /\ ctx = "cancelled" => firstErr # "none"
    /\ firstErr # "none" <=> \E w \in Worker : pc[w] \in {"failing", "failed"}

LEMMA NextErr == TypeInv /\ ErrInv /\ [Next]_vars => ErrInv'
<1> SUFFICES ASSUME TypeOK, ErrInv, [Next]_vars PROVE ErrInv'
  BY DEF TypeInv
<1>1. ASSUME NEW w \in Worker, Lock(w) \/ Sleep(w) \/ Exit(w) \/ Cancel(w)
      PROVE  ErrInv'
  BY <1>1 DEF Lock, Sleep, Exit, Cancel, ErrInv, TypeOK
<1>2. ASSUME NEW w \in Worker, NEW n \in Node, TakeToResolve(w, n) \/ TakeToVisit(w, n)
      PROVE  ErrInv'
  BY <1>2 DEF TakeToResolve, TakeToVisit, ErrInv, TypeOK
<1>3. ASSUME NEW w \in Worker, Resolved(w) \/ Visited(w) PROVE ErrInv'
  <2>1. /\ pc[w] = "calling" /\ update([pc EXCEPT ![w] = "loop"])
        /\ firstErr' = firstErr /\ ctx' = ctx
    BY <1>3 DEF Resolved, Visited
  <2>2. pc[w] # "asleep" /\ "loop" \in PCs /\ pc \in [Worker -> PCs]
    BY <2>1 DEF PCs, TypeOK
  <2>3. /\ pc'[w] = "loop"
        /\ \A x \in Worker \ {w} :
              pc'[x] = pc[x] \/ (pc[x] = "asleep" /\ pc'[x] = "woken")
    BY <2>1, <2>2, UpdateMoves
  <2> QED BY <2>1, <2>3 DEF ErrInv
<1>4. ASSUME NEW w \in Worker, NEW err \in Errors, Failed(w, err) PROVE ErrInv'
  <2>1. /\ firstErr' # "none" /\ firstErr' # "followOn" /\ ctx' = ctx
    BY <1>4 DEF Failed, recordError, ErrInv, Errors
  <2>2. pc[w] = "calling" /\ update([pc EXCEPT ![w] = "failing"])
    BY <1>4 DEF Failed
  <2>3. pc[w] # "asleep" /\ "failing" \in PCs /\ pc \in [Worker -> PCs]
    BY <2>2 DEF PCs, TypeOK
  <2>4. pc'[w] = "failing"
    BY <2>2, <2>3, UpdateMoves
  <2> QED BY <2>1, <2>4 DEF ErrInv
<1>5. CASE Return
  BY <1>5 DEF Return, ErrInv
<1>6. CASE UNCHANGED vars
  BY <1>6 DEF vars, ErrInv
<1> QED BY <1>1, <1>2, <1>3, <1>4, <1>5, <1>6 DEF Next, WorkerStep, Terminated

\* Visit never returns the "cancelled" error of a call that another call's
\* failure aborted: that other failure is recorded first.
THEOREM ErrorIsNotFollowOn == Spec => []NoFollowOnError
<1>1. Init => TypeInv /\ ErrInv
  BY InitType DEF Init, ErrInv
<1>2. TypeInv /\ ErrInv /\ [Next]_vars => (TypeInv /\ ErrInv)'
  BY NextType, NextErr
<1>3. ErrInv => NoFollowOnError
  BY DEF ErrInv, NoFollowOnError
<1> QED BY <1>1, <1>2, <1>3, PTL DEF Spec

------------------------------------------------------------------------------
(* Where nodes are                                                         *)

\* Queues hold a node at most once and only in the matching state; a node
\* that needs a worker is queued or held, never both, and by one worker.
PlaceInv ==
    /\ Start \subseteq nodes
    /\ \A n \in Node :
          /\ n \notin nodes => state[n] = "DependenciesUnresolved"
          /\ toResolve[n] \in {0, 1}
          /\ toVisit[n] \in {0, 1}
          /\ toResolve[n] = 1 => n \in nodes /\ state[n] = "DependenciesUnresolved"
          /\ toVisit[n] = 1 => state[n] = "Unvisited"
          /\ n \in nodes /\ state[n] = "DependenciesUnresolved" /\ toResolve[n] = 0
                => \E w \in Resolvers : cur[w] = n
          /\ state[n] = "Unvisited" /\ toVisit[n] = 0
                => \E w \in Visitors : cur[w] = n
    /\ \A w \in Resolvers : cur[w] \in Node =>
          /\ cur[w] \in nodes /\ toResolve[cur[w]] = 0
          /\ state[cur[w]] = "DependenciesUnresolved"
    /\ \A w \in Visitors : cur[w] \in Node =>
          toVisit[cur[w]] = 0 /\ state[cur[w]] = "Unvisited"
    /\ \A v, w \in Worker : cur[v] \in Node /\ cur[v] = cur[w] => v = w

\* The counters and lists that tell when a node may be visited: a node that
\* waits counts the unvisited entries of its dependency list and is enlisted
\* with each of them as often as it names it.
CountInv ==
    /\ unsatisfied = {n \in Node : state[n] = "DependenciesUnsatisfied"}
    /\ \A n \in Node :
          /\ state[n] = "DependenciesUnsatisfied" =>
                /\ depsUnsatisfied[n] = Cardinality(Missing(n))
                /\ depsUnsatisfied[n] > 0
                /\ \A m \in Node : dependants[m][n] =
                      IF state[m] = "Visited" THEN 0 ELSE Cardinality(Occurrences(n, m))
          /\ state[n] # "DependenciesUnsatisfied" =>
                depsUnsatisfied[n] = 0 /\ \A m \in Node : dependants[m][n] = 0
          /\ state[n] \in {"Unvisited", "Visited"} => Missing(n) = {}
          /\ state[n] # "DependenciesUnresolved" => Deps(graph, n) \subseteq nodes

\* Steps that leave nodes and lists alone leave CountInv alone.
LEMMA CountStays ==
    ASSUME CountInv, UNCHANGED <<graph, nodeVars>> PROVE CountInv'
<1>1. /\ UNCHANGED <<graph, nodes, state, depsUnsatisfied, dependants, unsatisfied>>
      /\ \A n : Missing(n)' = Missing(n) /\ Deps(graph, n)' = Deps(graph, n)
      /\ \A n, m : Occurrences(n, m)' = Occurrences(n, m)
  BY DEF nodeVars, Missing, Occurrences, Deps
<1> QED BY <1>1 DEF CountInv

\* When m is visited, the entries naming it leave n's missing positions.
LEMMA MissingDrops ==
    ASSUME graph \in Graphs, NEW n \in Node, NEW m \in Node, state[m] # "Visited"
    PROVE  /\ Occurrences(n, m) \subseteq Missing(n)
           /\ Cardinality(Missing(n) \ Occurrences(n, m)) =
                 Cardinality(Missing(n)) - Cardinality(Occurrences(n, m))
           /\ Cardinality(Missing(n) \ Occurrences(n, m)) \in Nat
           /\ IsFiniteSet(Missing(n) \ Occurrences(n, m))
<1>1. Occurrences(n, m) \subseteq Missing(n)
  BY DEF Occurrences, Missing
<1>2. IsFiniteSet(Missing(n)) /\ IsFiniteSet(Occurrences(n, m))
  BY PositionsFinite
<1>3. Missing(n) \cap Occurrences(n, m) = Occurrences(n, m)
  BY <1>1
<1>4. /\ IsFiniteSet(Missing(n) \ Occurrences(n, m))
      /\ Cardinality(Missing(n) \ Occurrences(n, m)) =
            Cardinality(Missing(n)) - Cardinality(Missing(n) \cap Occurrences(n, m))
  BY <1>2, FS_Difference
<1> QED BY <1>1, <1>3, <1>4, FS_CardinalityType

\* What the end of a successful FindDependencies does, with the counter and
\* the lists in the form CountInv gives them.
LEMMA ResolvedEffect ==
    ASSUME TypeInv, PlaceInv, CountInv, NEW w \in Worker, Resolved(w)
    PROVE  LET n == cur[w] IN
           /\ w \in Resolvers /\ n \in Node /\ n \in nodes
           /\ state[n] = "DependenciesUnresolved" /\ toResolve[n] = 0
           /\ \A x \in Node : Missing(x)' = Missing(x)
           /\ \A x, m : Occurrences(x, m)' = Occurrences(x, m)
           /\ \A x \in Node : state'[x] = "Visited" <=> state[x] = "Visited"
           /\ \A x \in Node \ {n} : state'[x] = state[x]
           /\ depsUnsatisfied' = [depsUnsatisfied EXCEPT ![n] = Cardinality(Missing(n))]
           /\ \A x, m \in Node : dependants'[m][x] =
                 IF x = n /\ state[m] # "Visited" THEN Cardinality(Occurrences(n, m))
                 ELSE dependants[m][x]
           /\ \/ /\ Missing(n) # {} /\ Cardinality(Missing(n)) > 0
                 /\ state'[n] = "DependenciesUnsatisfied"
                 /\ unsatisfied' = unsatisfied \cup {n} /\ toVisit' = toVisit
              \/ /\ Missing(n) = {} /\ Cardinality(Missing(n)) = 0
                 /\ state'[n] = "Unvisited"
                 /\ unsatisfied' = unsatisfied
                 /\ toVisit' = [toVisit EXCEPT ![n] = @ + 1]
<1> DEFINE n == cur[w]
           count == depsUnsatisfied[n] + Cardinality(Missing(n))
<1>1. w \in Resolvers /\ n \in Node /\ pc[w] = "calling"
  BY DEF Resolved, TypeInv, CurInv
<1>2. n \in nodes /\ state[n] = "DependenciesUnresolved" /\ toResolve[n] = 0
  BY <1>1 DEF PlaceInv
<1>3. depsUnsatisfied[n] = 0 /\ \A m \in Node : dependants[m][n] = 0
  BY <1>1, <1>2 DEF CountInv
<1>4. /\ IsFiniteSet(Missing(n)) /\ Cardinality(Missing(n)) \in Nat
      /\ \A m \in Node : Cardinality(Occurrences(n, m)) \in Nat
  BY <1>1, PositionsFinite DEF TypeInv, TypeOK
<1>5. count = Cardinality(Missing(n))
  BY <1>3, <1>4
<1>6. \/ /\ count > 0 /\ state' = [state EXCEPT ![n] = "DependenciesUnsatisfied"]
         /\ unsatisfied' = unsatisfied \cup {n} /\ toVisit' = toVisit
      \/ /\ ~(count > 0) /\ state' = [state EXCEPT ![n] = "Unvisited"]
         /\ unsatisfied' = unsatisfied
         /\ toVisit' = [toVisit EXCEPT ![n] = @ + 1]
  BY DEF Resolved
<1>7. state'[n] # "Visited" /\ \A x \in Node \ {n} : state'[x] = state[x]
  BY <1>1, <1>6 DEF TypeInv, TypeOK
<1>8. \A x \in Node : state'[x] = "Visited" <=> state[x] = "Visited"
  BY <1>2, <1>7
<1>9. graph' = graph
  BY DEF Resolved
<1>11. ASSUME NEW x \in Node PROVE Missing(x)' = Missing(x)
  <2>1. \A i \in DOMAIN graph[x] : graph[x][i] \in Node
    BY DepsAreNodes DEF TypeInv, TypeOK
  <2> QED BY <1>8, <1>9, <2>1 DEF Missing
<1>12. \A x, m : Occurrences(x, m)' = Occurrences(x, m)
  BY <1>9 DEF Occurrences
<1>13. depsUnsatisfied' = [depsUnsatisfied EXCEPT ![n] = count]
  BY DEF Resolved
<1>14. dependants' = [m \in Node |->
                  IF state[m] = "Visited" THEN dependants[m]
                  ELSE [dependants[m] EXCEPT
                           ![n] = @ + Cardinality(Occurrences(n, m))]]
  BY DEF Resolved
<1>15. ASSUME NEW x \in Node, NEW m \in Node
       PROVE  dependants'[m][x] =
                 IF x = n /\ state[m] # "Visited" THEN Cardinality(Occurrences(n, m))
                 ELSE dependants[m][x]
  <2>1. dependants[m] \in Bag
    BY DEF TypeInv, TypeOK
  <2> QED BY <1>1, <1>3, <1>4, <1>14, <2>1 DEF Bag
<1>16. Missing(n) = {} <=> Cardinality(Missing(n)) = 0
  BY <1>4, FS_EmptySet
<1> QED
  <2>1. \/ /\ Missing(n) # {} /\ Cardinality(Missing(n)) > 0
           /\ state'[n] = "DependenciesUnsatisfied"
           /\ unsatisfied' = unsatisfied \cup {n} /\ toVisit' = toVisit
        \/ /\ Missing(n) = {} /\ Cardinality(Missing(n)) = 0
           /\ state'[n] = "Unvisited"
           /\ unsatisfied' = unsatisfied
           /\ toVisit' = [toVisit EXCEPT ![n] = @ + 1]
    BY <1>1, <1>4, <1>5, <1>6, <1>16 DEF TypeInv, TypeOK
  <2> QED BY <1>1, <1>2, <1>5, <1>7, <1>8, <1>11, <1>12, <1>13, <1>15, <2>1

\* What the end of a successful Visit does: exactly the nodes that missed
\* nothing but m become ready.
LEMMA VisitedEffect ==
    ASSUME TypeInv, PlaceInv, CountInv, NEW w \in Worker, Visited(w)
    PROVE  LET m == cur[w] IN
           /\ w \in Visitors /\ m \in Node /\ m \in nodes
           /\ state[m] = "Unvisited" /\ toVisit[m] = 0
           /\ m \notin Satisfied(m) /\ state'[m] = "Visited"
           /\ \A x \in Node : Missing(x)' = Missing(x) \ Occurrences(x, m)
           /\ \A x \in Node : x \in Satisfied(m) <=>
                 state[x] = "DependenciesUnsatisfied" /\ Missing(x)' = {}
           /\ \A x \in Node \ {m} : state'[x] =
                 IF x \in Satisfied(m) THEN "Unvisited" ELSE state[x]
           /\ \A x \in Node : state[x] = "DependenciesUnsatisfied" =>
                 depsUnsatisfied'[x] = Cardinality(Missing(x)')
           /\ \A x \in Node : state[x] # "DependenciesUnsatisfied" =>
                 depsUnsatisfied'[x] = 0
<1> DEFINE m == cur[w]
<1>1. w \in Visitors /\ m \in Node /\ pc[w] = "calling"
  BY DEF Visited, TypeInv, CurInv
<1>2. state[m] = "Unvisited" /\ toVisit[m] = 0
  BY <1>1 DEF PlaceInv
<1>3. m \in nodes
  BY <1>1, <1>2 DEF PlaceInv
<1>4. depsUnsatisfied[m] = 0
  BY <1>1, <1>2 DEF CountInv
<1>5. m \notin Satisfied(m)
  BY <1>1, <1>4 DEF Satisfied
<1>6. /\ state' = [x \in Node |->
                     IF x = m THEN "Visited"
                     ELSE IF x \in Satisfied(m) THEN "Unvisited" ELSE state[x]]
      /\ depsUnsatisfied' = [x \in Node |-> depsUnsatisfied[x] - dependants[m][x]]
      /\ graph' = graph
  BY DEF Visited
<1>7. ASSUME NEW x \in Node, state[x] # "DependenciesUnsatisfied"
      PROVE  x \notin Satisfied(m) /\ depsUnsatisfied'[x] = 0
  <2>1. depsUnsatisfied[x] = 0 /\ dependants[m][x] = 0
    BY <1>1, <1>7 DEF CountInv
  <2> QED BY <1>6, <2>1 DEF Satisfied
<1>8. ASSUME NEW x \in Node PROVE state'[x] = "Visited" <=> (state[x] = "Visited" \/ x = m)
  BY <1>1, <1>6, <1>7
<1>9. ASSUME NEW x \in Node PROVE Missing(x)' = Missing(x) \ Occurrences(x, m)
  <2>1. \A i \in DOMAIN graph[x] : graph[x][i] \in Node
    BY DepsAreNodes DEF TypeInv, TypeOK
  <2> QED BY <1>6, <1>8, <2>1 DEF Missing, Occurrences
<1>10. ASSUME NEW x \in Node, state[x] = "DependenciesUnsatisfied"
       PROVE  /\ depsUnsatisfied'[x] = Cardinality(Missing(x)')
              /\ x \in Satisfied(m) <=> Missing(x)' = {}
  <2> DEFINE gone == Occurrences(x, m)
             left == Missing(x) \ gone
  <2>1. /\ depsUnsatisfied[x] = Cardinality(Missing(x)) /\ depsUnsatisfied[x] > 0
        /\ dependants[m][x] = Cardinality(gone)
    BY <1>1, <1>2, <1>10 DEF CountInv
  <2>2. /\ Cardinality(left) = Cardinality(Missing(x)) - Cardinality(gone)
        /\ Cardinality(left) \in Nat /\ IsFiniteSet(left)
    BY <1>1, <1>2, MissingDrops DEF TypeInv, TypeOK
  <2>3. Cardinality(Missing(x)) \in Nat /\ Cardinality(gone) \in Nat
    BY PositionsFinite DEF TypeInv, TypeOK
  <2>4. left = {} <=> Cardinality(left) = 0
    BY <2>2, FS_EmptySet
  <2>5. x \in Satisfied(m) <=> depsUnsatisfied[x] \in 1..dependants[m][x]
    BY DEF Satisfied
  <2>6. x \in Satisfied(m) <=> Cardinality(left) = 0
    BY <2>1, <2>2, <2>3, <2>5
  <2>7. depsUnsatisfied'[x] = Cardinality(left)
    BY <1>6, <2>1, <2>2
  <2>8. Missing(x)' = left
    BY <1>9
  <2> QED BY <2>4, <2>6, <2>7, <2>8
<1>11. state'[m] = "Visited" /\ \A x \in Node \ {m} :
          state'[x] = IF x \in Satisfied(m) THEN "Unvisited" ELSE state[x]
  BY <1>1, <1>6
<1> QED BY <1>1, <1>2, <1>3, <1>5, <1>7, <1>9, <1>10, <1>11

LEMMA InitPlaceCount == Init => PlaceInv /\ CountInv
<1> SUFFICES ASSUME Init PROVE PlaceInv /\ CountInv
  OBVIOUS
<1>1. \A w \in Worker : cur[w] \notin Node
  BY NoneAssumption DEF Init
<1>2. PlaceInv
  BY <1>1 DEF Init, PlaceInv, Worker
<1>3. CountInv
  BY DEF Init, CountInv
<1> QED BY <1>2, <1>3

LEMMA NextCount == TypeInv /\ PlaceInv /\ CountInv /\ [Next]_vars => CountInv'
<1> SUFFICES ASSUME TypeInv, PlaceInv, CountInv, [Next]_vars PROVE CountInv'
  OBVIOUS
<1>1. ASSUME NEW w \in Worker, Resolved(w) PROVE CountInv'
  <2>a. PICK n \in Node : n = cur[w]
    BY <1>1, ResolvedEffect
  <2>1. n \in Node /\ graph' = graph
    BY <1>1 DEF Resolved
  <2>2. nodes' = nodes \cup Deps(graph, n)
    BY <1>1, <2>a DEF Resolved, addNodes
  <2>3. unsatisfied' = {x \in Node : state'[x] = "DependenciesUnsatisfied"}
    <3>1. unsatisfied = {x \in Node : state[x] = "DependenciesUnsatisfied"}
      BY DEF CountInv
    <3>2. \A x \in Node \ {n} : state'[x] = state[x]
      BY <1>1, <2>a, ResolvedEffect
    <3>3. state[n] = "DependenciesUnresolved"
      BY <1>1, <2>a, ResolvedEffect
    <3>4. \/ state'[n] = "DependenciesUnsatisfied" /\ unsatisfied' = unsatisfied \cup {n}
          \/ state'[n] = "Unvisited" /\ unsatisfied' = unsatisfied
      BY <1>1, <2>a, ResolvedEffect
    <3> QED BY <2>1, <3>1, <3>2, <3>3, <3>4
  <2>4. ASSUME NEW x \in Node, x # n
        PROVE  /\ state'[x] = state[x] /\ depsUnsatisfied'[x] = depsUnsatisfied[x]
               /\ \A m \in Node : dependants'[m][x] = dependants[m][x]
               /\ Missing(x)' = Missing(x)
               /\ Deps(graph, x)' = Deps(graph, x)
               /\ \A m \in Node : state'[m] = "Visited" <=> state[m] = "Visited"
               /\ \A m \in Node : Occurrences(x, m)' = Occurrences(x, m)
    <3>1. /\ state'[x] = state[x]
          /\ depsUnsatisfied' = [depsUnsatisfied EXCEPT ![n] = Cardinality(Missing(n))]
          /\ \A m \in Node : dependants'[m][x] = dependants[m][x]
          /\ Missing(x)' = Missing(x)
          /\ \A m \in Node : state'[m] = "Visited" <=> state[m] = "Visited"
          /\ \A m \in Node : Occurrences(x, m)' = Occurrences(x, m)
      BY <1>1, <2>4, <2>a, ResolvedEffect
    <3>2. Deps(graph, x)' = Deps(graph, x)
      BY <2>1 DEF Deps
    <3> QED BY <2>4, <3>1, <3>2 DEF TypeInv, TypeOK
  <2>5. /\ state'[n] = "DependenciesUnsatisfied" =>
             /\ depsUnsatisfied'[n] = Cardinality(Missing(n)')
             /\ depsUnsatisfied'[n] > 0
             /\ \A m \in Node : dependants'[m][n] =
                   IF state'[m] = "Visited" THEN 0 ELSE Cardinality(Occurrences(n, m)')
        /\ state'[n] # "DependenciesUnsatisfied" =>
             depsUnsatisfied'[n] = 0 /\ \A m \in Node : dependants'[m][n] = 0
        /\ state'[n] \in {"Unvisited", "Visited"} => Missing(n)' = {}
        /\ Deps(graph, n)' \subseteq nodes'
    <3>1. /\ Missing(n)' = Missing(n)
          /\ depsUnsatisfied' = [depsUnsatisfied EXCEPT ![n] = Cardinality(Missing(n))]
          /\ state[n] = "DependenciesUnresolved"
          /\ \A m \in Node : state'[m] = "Visited" <=> state[m] = "Visited"
          /\ \A m \in Node : Occurrences(n, m)' = Occurrences(n, m)
      BY <1>1, <2>a, ResolvedEffect
    <3>7. \A m \in Node : dependants'[m][n] =
                 IF state[m] # "Visited" THEN Cardinality(Occurrences(n, m))
                 ELSE dependants[m][n]
      BY <1>1, <2>a, ResolvedEffect
    <3>2. \/ Cardinality(Missing(n)) > 0 /\ state'[n] = "DependenciesUnsatisfied"
          \/ Missing(n) = {} /\ Cardinality(Missing(n)) = 0 /\ state'[n] = "Unvisited"
      BY <1>1, <2>a, ResolvedEffect
    <3>3. depsUnsatisfied'[n] = Cardinality(Missing(n))
      BY <2>1, <3>1 DEF TypeInv, TypeOK
    <3>4. \A m \in Node : dependants[m][n] = 0
      BY <2>1, <3>1 DEF CountInv
    <3>5. Deps(graph, n)' \subseteq nodes'
      BY <2>1, <2>2 DEF Deps
    <3>6. ASSUME Missing(n) = {}, NEW m \in Node
          PROVE  dependants'[m][n] = 0
      <4>1. CASE state[m] = "Visited"
        BY <3>4, <3>7, <4>1
      <4>2. CASE state[m] # "Visited"
        <5>1. Occurrences(n, m) = {}
          BY <2>1, <3>6, <4>2, MissingDrops DEF TypeInv, TypeOK
        <5> QED BY <3>7, <4>2, <5>1, FS_EmptySet
      <4> QED BY <4>1, <4>2
    <3> QED BY <3>1, <3>2, <3>3, <3>4, <3>5, <3>6, <3>7
  <2>6. ASSUME NEW x \in Node, x # n
        PROVE  /\ state'[x] = "DependenciesUnsatisfied" =>
                    /\ depsUnsatisfied'[x] = Cardinality(Missing(x)')
                    /\ depsUnsatisfied'[x] > 0
                    /\ \A m \in Node : dependants'[m][x] =
                          IF state'[m] = "Visited" THEN 0 ELSE Cardinality(Occurrences(x, m)')
               /\ state'[x] # "DependenciesUnsatisfied" =>
                    depsUnsatisfied'[x] = 0 /\ \A m \in Node : dependants'[m][x] = 0
               /\ state'[x] \in {"Unvisited", "Visited"} => Missing(x)' = {}
               /\ state'[x] # "DependenciesUnresolved" => Deps(graph, x)' \subseteq nodes'
    BY <2>2, <2>4, <2>6 DEF CountInv
  <2> QED BY <2>3, <2>5, <2>6 DEF CountInv
<1>2. ASSUME NEW w \in Worker, Visited(w) PROVE CountInv'
  <2> DEFINE m == cur[w]
  <2>1. /\ m \in Node /\ graph' = graph /\ nodes' = nodes
        /\ unsatisfied' = unsatisfied \ Satisfied(m)
        /\ dependants' = [dependants EXCEPT ![m] = [x \in Node |-> 0]]
    BY <1>2, VisitedEffect DEF Visited
  <2>2. /\ state[m] = "Unvisited" /\ state'[m] = "Visited" /\ m \notin Satisfied(m)
        /\ \A x \in Node \ {m} : state'[x] =
                 IF x \in Satisfied(m) THEN "Unvisited" ELSE state[x]
    BY <1>2, VisitedEffect
  <2>3. ASSUME NEW x \in Node
        PROVE  /\ Missing(x)' = Missing(x) \ Occurrences(x, m)
               /\ x \in Satisfied(m) <=>
                    state[x] = "DependenciesUnsatisfied" /\ Missing(x)' = {}
               /\ state[x] = "DependenciesUnsatisfied" =>
                    depsUnsatisfied'[x] = Cardinality(Missing(x)')
               /\ state[x] # "DependenciesUnsatisfied" => depsUnsatisfied'[x] = 0
    BY <1>2, VisitedEffect
  <2>4. unsatisfied' = {x \in Node : state'[x] = "DependenciesUnsatisfied"}
    <3>1. unsatisfied = {x \in Node : state[x] = "DependenciesUnsatisfied"}
      BY DEF CountInv
    <3> QED BY <2>1, <2>2, <3>1
  <2>5. ASSUME NEW x \in Node
        PROVE  /\ Deps(graph, x)' = Deps(graph, x)
               /\ \A y \in Node : Occurrences(x, y)' = Occurrences(x, y)
               /\ \A y \in Node : dependants'[y][x] = IF y = m THEN 0 ELSE dependants[y][x]
    BY <2>1 DEF Deps, Occurrences, TypeInv, TypeOK, Bag
  <2>6. ASSUME NEW y \in Node PROVE state'[y] = "Visited" <=> state[y] = "Visited" \/ y = m
    BY <2>2, <2>3
  <2>7. ASSUME NEW x \in Node, state'[x] = "DependenciesUnsatisfied"
        PROVE  /\ depsUnsatisfied'[x] = Cardinality(Missing(x)')
               /\ depsUnsatisfied'[x] > 0
               /\ \A y \in Node : dependants'[y][x] =
                     IF state'[y] = "Visited" THEN 0 ELSE Cardinality(Occurrences(x, y)')
    <3>1. state[x] = "DependenciesUnsatisfied" /\ x # m /\ x \notin Satisfied(m)
      BY <2>2, <2>7
    <3>2. Missing(x)' # {} /\ depsUnsatisfied'[x] = Cardinality(Missing(x)')
      BY <2>3, <3>1
    <3>3. IsFiniteSet(Missing(x)') /\ Cardinality(Missing(x)') \in Nat
      BY <2>1, <2>2, <2>3, MissingDrops DEF TypeInv, TypeOK
    <3>4. depsUnsatisfied'[x] > 0
      BY <3>2, <3>3, FS_EmptySet
    <3>5. \A y \in Node : dependants[y][x] =
             IF state[y] = "Visited" THEN 0 ELSE Cardinality(Occurrences(x, y))
      BY <3>1 DEF CountInv
    <3> QED BY <2>5, <2>6, <3>2, <3>4, <3>5
  <2>8. ASSUME NEW x \in Node, state'[x] # "DependenciesUnsatisfied"
        PROVE  depsUnsatisfied'[x] = 0 /\ \A y \in Node : dependants'[y][x] = 0
    <3>1. CASE state[x] # "DependenciesUnsatisfied"
      <4>1. \A y \in Node : dependants[y][x] = 0
        BY <3>1 DEF CountInv
      <4> QED BY <2>3, <2>5, <3>1, <4>1
    <3>2. CASE state[x] = "DependenciesUnsatisfied"
      <4>1. x \in Satisfied(m) /\ Missing(x)' = {}
        BY <2>2, <2>3, <2>8, <3>2
      <4>2. depsUnsatisfied'[x] = 0
        BY <2>3, <3>2, <4>1, FS_EmptySet
      <4>3. ASSUME NEW y \in Node PROVE dependants'[y][x] = 0
        <5>1. CASE y = m \/ state[y] = "Visited"
          BY <2>5, <3>2, <5>1 DEF CountInv
        <5>2. CASE y # m /\ state[y] # "Visited"
          <6>1. Occurrences(x, y) \subseteq Missing(x)
            BY <5>2, MissingDrops DEF TypeInv, TypeOK
          <6>2. Occurrences(x, y) \cap Occurrences(x, m) = {}
            BY <5>2 DEF Occurrences
          <6>3. Occurrences(x, y) = {}
            BY <2>3, <4>1, <6>1, <6>2
          <6>4. dependants[y][x] = Cardinality(Occurrences(x, y))
            BY <3>2, <5>2 DEF CountInv
          <6> QED BY <2>5, <5>2, <6>3, <6>4, FS_EmptySet
        <5> QED BY <5>1, <5>2
      <4> QED BY <4>2, <4>3
    <3> QED BY <3>1, <3>2
  <2>9. ASSUME NEW x \in Node, state'[x] \in {"Unvisited", "Visited"}
        PROVE  Missing(x)' = {}
    <3>1. CASE x \in Satisfied(m)
      BY <2>3, <3>1
    <3>2. CASE x \notin Satisfied(m)
      <4>1. state[x] \in {"Unvisited", "Visited"}
        BY <2>2, <2>9, <3>2
      <4>2. Missing(x) = {}
        BY <4>1 DEF CountInv
      <4> QED BY <2>3, <4>2
    <3> QED BY <3>1, <3>2
  <2>10. ASSUME NEW x \in Node, state'[x] # "DependenciesUnresolved"
         PROVE  Deps(graph, x)' \subseteq nodes'
    <3>1. state[x] # "DependenciesUnresolved"
      BY <2>2, <2>3, <2>10
    <3> QED BY <2>1, <2>5, <3>1 DEF CountInv
  <2> QED BY <2>4, <2>7, <2>8, <2>9, <2>10 DEF CountInv
<1>3. ASSUME UNCHANGED <<graph, nodeVars>> PROVE CountInv'
  BY <1>3, CountStays
<1>4. ASSUME NEW w \in Worker, Lock(w) \/ Sleep(w) \/ Exit(w) \/ Cancel(w)
      PROVE  CountInv'
  BY <1>3, <1>4 DEF Lock, Sleep, Exit, Cancel
<1>5. ASSUME NEW w \in Worker, NEW n \in Node, TakeToResolve(w, n) \/ TakeToVisit(w, n)
      PROVE  CountInv'
  BY <1>3, <1>5 DEF TakeToResolve, TakeToVisit
<1>6. ASSUME NEW w \in Worker, NEW err \in Errors, Failed(w, err) PROVE CountInv'
  BY <1>3, <1>6 DEF Failed
<1>7. CASE Return
  BY <1>3, <1>7 DEF Return
<1>8. CASE UNCHANGED vars
  BY <1>3, <1>8 DEF vars
<1> QED BY <1>1, <1>2, <1>4, <1>5, <1>6, <1>7, <1>8 DEF Next, WorkerStep, Terminated

LEMMA NextPlace == TypeInv /\ PlaceInv /\ CountInv /\ [Next]_vars => PlaceInv'
<1> SUFFICES ASSUME TypeInv, PlaceInv, CountInv, [Next]_vars PROVE PlaceInv'
  OBVIOUS
<1>1. ASSUME UNCHANGED <<nodes, state, queueVars, cur>> PROVE PlaceInv'
  BY <1>1 DEF PlaceInv, queueVars
<1>2. ASSUME NEW w \in Worker, Lock(w) \/ Sleep(w) \/ Exit(w) \/ Cancel(w)
      PROVE  PlaceInv'
  BY <1>1, <1>2 DEF Lock, Sleep, Exit, Cancel, nodeVars
<1>3. ASSUME NEW w \in Worker, NEW err \in Errors, Failed(w, err) PROVE PlaceInv'
  BY <1>1, <1>3 DEF Failed, nodeVars
<1>4. CASE Return
  BY <1>1, <1>4 DEF Return, nodeVars
<1>5. CASE UNCHANGED vars
  BY <1>1, <1>5 DEF vars, nodeVars
<1>6. ASSUME NEW w \in Worker, NEW n \in Node, TakeToResolve(w, n) PROVE PlaceInv'
  <2>1. /\ w \in Resolvers /\ cur[w] \notin Node /\ toResolve[n] > 0
        /\ toResolve' = [toResolve EXCEPT ![n] = @ - 1]
        /\ cur' = [cur EXCEPT ![w] = n]
        /\ UNCHANGED <<nodes, state, toVisit>>
    BY <1>6 DEF TakeToResolve, TypeInv, CurInv, nodeVars
  <2>2. w \notin Visitors
    BY <2>1, WorkerAssumption
  <2>3. /\ toResolve[n] = 1 /\ toResolve'[n] = 0
        /\ \A x \in Node \ {n} : toResolve'[x] = toResolve[x]
        /\ n \in nodes /\ state[n] = "DependenciesUnresolved"
    BY <2>1 DEF PlaceInv, TypeInv, TypeOK, Bag
  <2>4. cur'[w] = n /\ \A v \in Worker \ {w} : cur'[v] = cur[v]
    BY <2>1 DEF TypeInv, TypeOK
  <2>5. \A v \in Worker : cur[v] # n
    <3>1. \A v \in Resolvers : cur[v] # n
      BY <2>3 DEF PlaceInv
    <3>2. \A v \in Visitors : cur[v] # n
      BY <2>3 DEF PlaceInv
    <3> QED BY <3>1, <3>2 DEF Worker
  <2> QED BY <2>1, <2>2, <2>3, <2>4, <2>5 DEF PlaceInv, Worker
<1>7. ASSUME NEW w \in Worker, NEW n \in Node, TakeToVisit(w, n) PROVE PlaceInv'
  <2>1. /\ w \in Visitors /\ cur[w] \notin Node /\ toVisit[n] > 0
        /\ toVisit' = [toVisit EXCEPT ![n] = @ - 1]
        /\ cur' = [cur EXCEPT ![w] = n]
        /\ UNCHANGED <<nodes, state, toResolve>>
    BY <1>7 DEF TakeToVisit, TypeInv, CurInv, nodeVars
  <2>2. w \notin Resolvers
    BY <2>1, WorkerAssumption
  <2>3. /\ toVisit[n] = 1 /\ toVisit'[n] = 0
        /\ \A x \in Node \ {n} : toVisit'[x] = toVisit[x]
        /\ state[n] = "Unvisited"
    BY <2>1 DEF PlaceInv, TypeInv, TypeOK, Bag
  <2>4. cur'[w] = n /\ \A v \in Worker \ {w} : cur'[v] = cur[v]
    BY <2>1 DEF TypeInv, TypeOK
  <2>5. \A v \in Worker : cur[v] # n
    <3>1. \A v \in Resolvers : cur[v] # n
      BY <2>3 DEF PlaceInv
    <3>2. \A v \in Visitors : cur[v] # n
      BY <2>3 DEF PlaceInv
    <3> QED BY <3>1, <3>2 DEF Worker
  <2> QED BY <2>1, <2>2, <2>3, <2>4, <2>5 DEF PlaceInv, Worker
<1>8. ASSUME NEW w \in Worker, Resolved(w) PROVE PlaceInv'
  <2>a. PICK n \in Node : n = cur[w]
    BY <1>8, ResolvedEffect
  <2>1. /\ w \in Resolvers /\ n \in nodes /\ toResolve[n] = 0
        /\ state[n] = "DependenciesUnresolved"
        /\ \A x \in Node \ {n} : state'[x] = state[x]
        /\ \/ state'[n] = "DependenciesUnsatisfied" /\ toVisit' = toVisit
           \/ state'[n] = "Unvisited" /\ toVisit' = [toVisit EXCEPT ![n] = @ + 1]
    BY <1>8, <2>a, ResolvedEffect
  <2>2. /\ nodes' = nodes \cup Deps(graph, n)
        /\ toResolve' = [x \in Node |-> IF x \in Deps(graph, n) \ nodes
                                        THEN toResolve[x] + 1 ELSE toResolve[x]]
        /\ cur' = [cur EXCEPT ![w] = "none"]
    BY <1>8, <2>a DEF Resolved, addNodes
  <2>3. w \notin Visitors
    BY <2>1, WorkerAssumption
  <2>4. cur'[w] \notin Node /\ \A v \in Worker \ {w} : cur'[v] = cur[v] /\ cur[v] # n
    BY <2>2, <2>a, NoneAssumption DEF TypeInv, TypeOK, PlaceInv
  <2>5. ASSUME NEW x \in Node PROVE x \notin nodes => toResolve[x] = 0
    BY DEF PlaceInv
  <2>6. ASSUME NEW x \in Node
        PROVE  toResolve'[x] = IF x \in nodes' \ nodes THEN 1 ELSE toResolve[x]
    BY <2>2, <2>5 DEF TypeInv, TypeOK, Bag
  <2>7. toVisit[n] = 0 /\ \A x \in Node \ {n} : toVisit'[x] = toVisit[x]
    BY <2>1 DEF PlaceInv, TypeInv, TypeOK, Bag
  <2>8. \/ state'[n] = "DependenciesUnsatisfied" /\ toVisit'[n] = 0
        \/ state'[n] = "Unvisited" /\ toVisit'[n] = 1
    BY <2>1, <2>7 DEF TypeInv, TypeOK, Bag
  <2>9. Start \subseteq nodes'
    BY <2>2 DEF PlaceInv
  <2>10. ASSUME NEW x \in Node
         PROVE  /\ x \notin nodes' => state'[x] = "DependenciesUnresolved"
                /\ toResolve'[x] \in {0, 1}
                /\ toVisit'[x] \in {0, 1}
                /\ toResolve'[x] = 1 => x \in nodes' /\ state'[x] = "DependenciesUnresolved"
                /\ toVisit'[x] = 1 => state'[x] = "Unvisited"
                /\ x \in nodes' /\ state'[x] = "DependenciesUnresolved" /\ toResolve'[x] = 0
                      => \E v \in Resolvers : cur'[v] = x
                /\ state'[x] = "Unvisited" /\ toVisit'[x] = 0
                      => \E v \in Visitors : cur'[v] = x
    <3>1. CASE x = n
      BY <2>1, <2>2, <2>6, <2>8, <3>1
    <3>2. CASE x # n
      <4>1. state'[x] = state[x] /\ toVisit'[x] = toVisit[x]
        BY <2>1, <2>7, <3>2
      <4>2. x \notin nodes => state[x] = "DependenciesUnresolved"
        BY DEF PlaceInv
      <4>3. /\ x \notin nodes' => state'[x] = "DependenciesUnresolved"
            /\ toResolve'[x] \in {0, 1}
            /\ toVisit'[x] \in {0, 1}
            /\ toResolve'[x] = 1 => x \in nodes' /\ state'[x] = "DependenciesUnresolved"
            /\ toVisit'[x] = 1 => state'[x] = "Unvisited"
        BY <2>2, <2>6, <4>1, <4>2 DEF PlaceInv
      <4>4. ASSUME x \in nodes', state'[x] = "DependenciesUnresolved", toResolve'[x] = 0
            PROVE  \E v \in Resolvers : cur'[v] = x
        <5>1. x \in nodes /\ toResolve[x] = 0 /\ state[x] = "DependenciesUnresolved"
          BY <2>6, <4>1, <4>4
        <5>2. PICK v \in Resolvers : cur[v] = x
          BY <5>1 DEF PlaceInv
        <5>3. v # w
          BY <2>a, <3>2, <5>2
        <5> QED BY <2>4, <5>2, <5>3 DEF Worker
      <4>5. ASSUME state'[x] = "Unvisited", toVisit'[x] = 0
            PROVE  \E v \in Visitors : cur'[v] = x
        <5>0. state[x] = "Unvisited" /\ toVisit[x] = 0
          BY <4>1, <4>5
        <5>1. PICK v \in Visitors : cur[v] = x
          BY <5>0 DEF PlaceInv
        <5> QED BY <2>3, <2>4, <5>1 DEF Worker
      <4> QED BY <4>3, <4>4, <4>5
    <3> QED BY <3>1, <3>2
  <2>11. ASSUME NEW v \in Resolvers, cur'[v] \in Node
         PROVE  /\ cur'[v] \in nodes' /\ toResolve'[cur'[v]] = 0
                /\ state'[cur'[v]] = "DependenciesUnresolved"
    <3>1. v # w /\ cur'[v] = cur[v] /\ cur[v] # n
      BY <2>4, <2>11 DEF Worker
    <3>2. /\ cur[v] \in Node /\ cur[v] \in nodes /\ toResolve[cur[v]] = 0
          /\ state[cur[v]] = "DependenciesUnresolved"
      BY <2>11, <3>1 DEF PlaceInv
    <3> QED BY <2>1, <2>2, <2>6, <3>1, <3>2
  <2>12. ASSUME NEW v \in Visitors, cur'[v] \in Node
         PROVE  toVisit'[cur'[v]] = 0 /\ state'[cur'[v]] = "Unvisited"
    <3>1. v # w /\ cur'[v] = cur[v] /\ cur[v] # n
      BY <2>4, <2>12 DEF Worker
    <3>2. cur[v] \in Node /\ toVisit[cur[v]] = 0 /\ state[cur[v]] = "Unvisited"
      BY <2>12, <3>1 DEF PlaceInv
    <3> QED BY <2>1, <2>7, <3>1, <3>2
  <2>13. \A u, v \in Worker : cur'[u] \in Node /\ cur'[u] = cur'[v] => u = v
    BY <2>4 DEF PlaceInv
  <2> QED BY <2>9, <2>10, <2>11, <2>12, <2>13 DEF PlaceInv
<1>9. ASSUME NEW w \in Worker, Visited(w) PROVE PlaceInv'
  <2>a. PICK m \in Node : m = cur[w]
    BY <1>9, VisitedEffect
  <2>1. /\ w \in Visitors /\ m \in nodes /\ toVisit[m] = 0 /\ m \notin Satisfied(m)
        /\ state[m] = "Unvisited" /\ state'[m] = "Visited"
        /\ \A x \in Node \ {m} : state'[x] =
                 IF x \in Satisfied(m) THEN "Unvisited" ELSE state[x]
        /\ \A x \in Satisfied(m) : x \in Node /\ state[x] = "DependenciesUnsatisfied"
    BY <1>9, <2>a, VisitedEffect DEF Satisfied
  <2>2. /\ toVisit' = [x \in Node |->
              IF x \in Satisfied(m) THEN toVisit[x] + 1 ELSE toVisit[x]]
        /\ UNCHANGED <<nodes, toResolve>>
        /\ cur' = [cur EXCEPT ![w] = "none"]
    BY <1>9, <2>a DEF Visited
  <2>3. w \notin Resolvers
    BY <2>1, WorkerAssumption
  <2>4. cur'[w] \notin Node /\ \A v \in Worker \ {w} : cur'[v] = cur[v] /\ cur[v] # m
    BY <2>2, <2>a, NoneAssumption DEF TypeInv, TypeOK, PlaceInv
  <2>5. ASSUME NEW x \in Node
        PROVE  /\ toVisit'[x] = IF x \in Satisfied(m) THEN 1 ELSE toVisit[x]
               /\ x \in Satisfied(m) => toVisit[x] = 0
    <3>1. x \in Satisfied(m) => toVisit[x] = 0
      BY <2>1 DEF PlaceInv
    <3> QED BY <2>2, <3>1 DEF TypeInv, TypeOK, Bag
  <2>6. ASSUME NEW x \in Node
        PROVE  /\ x \notin nodes => state'[x] = "DependenciesUnresolved"
               /\ toResolve[x] = 1 => x \in nodes /\ state'[x] = "DependenciesUnresolved"
               /\ state'[x] = "DependenciesUnresolved" => state[x] = "DependenciesUnresolved"
               /\ toVisit'[x] \in {0, 1}
               /\ toVisit'[x] = 1 => state'[x] = "Unvisited"
    BY <2>1, <2>5 DEF PlaceInv
  <2>7. ASSUME NEW x \in Node, x \in nodes, state'[x] = "DependenciesUnresolved",
               toResolve[x] = 0
        PROVE  \E v \in Resolvers : cur'[v] = x
    <3>1. PICK v \in Resolvers : cur[v] = x
      BY <2>6, <2>7 DEF PlaceInv
    <3> QED BY <2>3, <2>4, <3>1 DEF Worker
  <2>8. ASSUME NEW x \in Node, state'[x] = "Unvisited", toVisit'[x] = 0
        PROVE  \E v \in Visitors : cur'[v] = x
    <3>1. x # m /\ state[x] = "Unvisited" /\ toVisit[x] = 0
      BY <2>1, <2>5, <2>8
    <3>2. PICK v \in Visitors : cur[v] = x
      BY <3>1 DEF PlaceInv
    <3>3. v # w
      BY <2>a, <3>1, <3>2
    <3> QED BY <2>4, <3>2, <3>3 DEF Worker
  <2>9. ASSUME NEW v \in Resolvers, cur'[v] \in Node
        PROVE  /\ cur'[v] \in nodes' /\ toResolve'[cur'[v]] = 0
               /\ state'[cur'[v]] = "DependenciesUnresolved"
    <3>1. v # w /\ cur'[v] = cur[v] /\ cur[v] # m
      BY <2>4, <2>9 DEF Worker
    <3>2. /\ cur[v] \in Node /\ cur[v] \in nodes /\ toResolve[cur[v]] = 0
          /\ state[cur[v]] = "DependenciesUnresolved"
      BY <2>9, <3>1 DEF PlaceInv
    <3> QED BY <2>1, <2>2, <3>1, <3>2
  <2>10. ASSUME NEW v \in Visitors, cur'[v] \in Node
         PROVE  toVisit'[cur'[v]] = 0 /\ state'[cur'[v]] = "Unvisited"
    <3>1. v # w /\ cur'[v] = cur[v] /\ cur[v] # m
      BY <2>4, <2>10 DEF Worker
    <3>2. cur[v] \in Node /\ toVisit[cur[v]] = 0 /\ state[cur[v]] = "Unvisited"
      BY <2>10, <3>1 DEF PlaceInv
    <3> QED BY <2>1, <2>5, <3>1, <3>2
  <2>11. \A u, v \in Worker : cur'[u] \in Node /\ cur'[u] = cur'[v] => u = v
    BY <2>4 DEF PlaceInv
  <2>12. Start \subseteq nodes' /\ \A x \in Node : toResolve'[x] \in {0, 1}
    BY <2>2 DEF PlaceInv
  <2> QED BY <2>2, <2>6, <2>7, <2>8, <2>9, <2>10, <2>11, <2>12 DEF PlaceInv
<1> QED BY <1>2, <1>3, <1>4, <1>5, <1>6, <1>7, <1>8, <1>9
        DEF Next, WorkerStep, Terminated
------------------------------------------------------------------------------
(* The walk stays inside the reachable part and visits no cycle            *)

VisitedNodes == {n \in Node : state[n] = "Visited"}

ReachInv == nodes \subseteq Reachable(graph)
AcyclicInv == ~HasCycle(graph, VisitedNodes)

\* Start nodes are reachable, and so are the dependencies of reachable nodes.
LEMMA ReachClosed ==
    ASSUME NEW g \in Graphs
    PROVE  /\ Start \subseteq Reachable(g)
           /\ \A n \in Reachable(g) : Deps(g, n) \subseteq Reachable(g)
<1>1. Start \subseteq Reachable(g)
  BY StartAssumption DEF Reachable
<1>2. ASSUME NEW n \in Reachable(g), NEW d \in Deps(g, n) PROVE d \in Reachable(g)
  <2>1. n \in Node
    BY DEF Reachable
  <2>2. g[n] \in Seq(Node)
    BY <2>1, GraphsAssumption
  <2>3. d \in Node
    BY <2>2 DEF Deps
  <2>4. ASSUME NEW S \in SUBSET Node, Start \subseteq S, Closed(g, S) PROVE d \in S
    <3>1. n \in S
      BY <2>4 DEF Reachable
    <3> QED BY <2>4, <3>1 DEF Closed
  <2> QED BY <2>3, <2>4 DEF Reachable
<1> QED BY <1>1, <1>2

\* A set that contains the start nodes and is closed contains all reachable
\* nodes.
LEMMA ReachLeast ==
    ASSUME NEW g \in Graphs, NEW S \in SUBSET Node, Start \subseteq S, Closed(g, S)
    PROVE  Reachable(g) \subseteq S
  BY DEF Reachable

\* A node all of whose dependencies were visited before it closes no cycle.
LEMMA NoNewCycle ==
    ASSUME NEW g, NEW V, NEW m, m \notin V,
           \A n \in V \cup {m} : Deps(g, n) \subseteq V,
           ~HasCycle(g, V)
    PROVE  ~HasCycle(g, V \cup {m})
<1> SUFFICES ASSUME NEW K \in SUBSET (V \cup {m}), Knot(g, K) PROVE FALSE
  BY DEF HasCycle
<1> DEFINE L == K \ {m}
<1>1. L \in SUBSET V
  OBVIOUS
<1>2. \A n \in K : Deps(g, n) \cap L # {}
  <2> TAKE n \in K
  <2>1. Deps(g, n) \cap K # {} /\ Deps(g, n) \subseteq V
    BY DEF Knot
  <2> QED BY <2>1
<1>3. L # {}
  BY <1>2 DEF Knot
<1>4. Knot(g, L)
  BY <1>2, <1>3 DEF Knot
<1> QED BY <1>1, <1>4 DEF HasCycle

LEMMA MissingNone ==
    ASSUME graph \in Graphs, NEW n \in Node, Missing(n) = {}
    PROVE  Deps(graph, n) \subseteq VisitedNodes
<1>1. \A i \in DOMAIN graph[n] : graph[n][i] \in Node /\ state[graph[n][i]] = "Visited"
  BY DepsAreNodes DEF Missing
<1> QED BY <1>1 DEF Deps, VisitedNodes

LEMMA NextReach ==
    TypeInv /\ PlaceInv /\ CountInv /\ ReachInv /\ AcyclicInv /\ [Next]_vars
        => ReachInv' /\ AcyclicInv'
<1> SUFFICES ASSUME TypeInv, PlaceInv, CountInv, ReachInv, AcyclicInv, [Next]_vars
             PROVE  ReachInv' /\ AcyclicInv'
  OBVIOUS
<1>0. graph \in Graphs
  BY DEF TypeInv, TypeOK
<1>1. ASSUME UNCHANGED <<graph, nodeVars>> PROVE ReachInv' /\ AcyclicInv'
  <2>1. UNCHANGED <<graph, nodes, state>>
    BY <1>1 DEF nodeVars
  <2> QED BY <2>1 DEF ReachInv, AcyclicInv, VisitedNodes
<1>2. ASSUME NEW w \in Worker, Resolved(w) PROVE ReachInv' /\ AcyclicInv'
  <2>1. graph' = graph /\ nodes' = nodes \cup Deps(graph, cur[w])
    BY <1>2 DEF Resolved, addNodes
  <2>2. cur[w] \in nodes
    BY <1>2, ResolvedEffect
  <2>3. ReachInv'
    BY <1>0, <2>1, <2>2, ReachClosed DEF ReachInv
  <2>4. VisitedNodes' = VisitedNodes
    BY <1>2, ResolvedEffect DEF VisitedNodes
  <2> QED BY <2>1, <2>3, <2>4 DEF AcyclicInv
<1>3. ASSUME NEW w \in Worker, Visited(w) PROVE ReachInv' /\ AcyclicInv'
  <2>1. graph' = graph /\ nodes' = nodes
    BY <1>3 DEF Visited
  <2>2. PICK m \in Node : m = cur[w]
    BY <1>3, VisitedEffect
  <2>3. state[m] = "Unvisited"
    BY <1>3, <2>2, VisitedEffect
  <2>4. VisitedNodes' = VisitedNodes \cup {m}
    <3>1. /\ state'[m] = "Visited"
          /\ \A x \in Node \ {m} : state'[x] =
                 IF x \in Satisfied(m) THEN "Unvisited" ELSE state[x]
          /\ \A x \in Satisfied(m) : state[x] # "Visited"
      BY <1>3, <2>2, VisitedEffect DEF Satisfied
    <3> QED BY <3>1 DEF VisitedNodes
  <2>5. ASSUME NEW n \in VisitedNodes \cup {m} PROVE Deps(graph, n) \subseteq VisitedNodes
    <3>1. n \in Node /\ state[n] \in {"Unvisited", "Visited"}
      BY <2>3 DEF VisitedNodes
    <3>2. Missing(n) = {}
      BY <3>1 DEF CountInv
    <3> QED BY <1>0, <3>1, <3>2, MissingNone
  <2>6. m \notin VisitedNodes
    BY <2>3 DEF VisitedNodes
  <2>7. ~HasCycle(graph, VisitedNodes \cup {m})
    BY <2>5, <2>6, NoNewCycle DEF AcyclicInv
  <2> QED BY <2>1, <2>4, <2>7 DEF ReachInv, AcyclicInv
<1>4. ASSUME NEW w \in Worker, Lock(w) \/ Sleep(w) \/ Exit(w) \/ Cancel(w)
      PROVE  ReachInv' /\ AcyclicInv'
  BY <1>1, <1>4 DEF Lock, Sleep, Exit, Cancel
<1>5. ASSUME NEW w \in Worker, NEW n \in Node, TakeToResolve(w, n) \/ TakeToVisit(w, n)
      PROVE  ReachInv' /\ AcyclicInv'
  BY <1>1, <1>5 DEF TakeToResolve, TakeToVisit
<1>6. ASSUME NEW w \in Worker, NEW err \in Errors, Failed(w, err)
      PROVE  ReachInv' /\ AcyclicInv'
  BY <1>1, <1>6 DEF Failed
<1>7. CASE Return
  BY <1>1, <1>7 DEF Return
<1>8. CASE UNCHANGED vars
  BY <1>1, <1>8 DEF vars
<1> QED BY <1>2, <1>3, <1>4, <1>5, <1>6, <1>7, <1>8 DEF Next, WorkerStep, Terminated
------------------------------------------------------------------------------
(* Workers that returned, and what Visit returns                           *)

\* A worker that returned nil was right to: its reason to exit still stands.
DoneInv == \A w \in Worker : pc[w] = "done" => ShouldExit(w)

\* Visit returns when every worker has returned.
StopInv == result # "running" => \A w \in Worker : pc[w] \in {"done", "failed"}

\* A counter that is zero means that no call of its pool is in progress.
LEMMA BusyZero ==
    ASSUME BusyInv
    PROVE  /\ busyResolvers \in Nat /\ busyVisitors \in Nat
           /\ busyResolvers = 0 => \A w \in Resolvers : pc[w] # "calling"
           /\ busyVisitors = 0 => \A w \in Visitors : pc[w] # "calling"
<1>1. /\ busyResolvers = Cardinality(CallingIn(Resolvers))
      /\ busyVisitors = Cardinality(CallingIn(Visitors))
  BY DEF BusyInv, CallingIn
<1>2. /\ busyResolvers = 0 => CallingIn(Resolvers) = {}
      /\ busyVisitors = 0 => CallingIn(Visitors) = {}
  BY <1>1, CallingFinite, FS_EmptySet
<1> QED BY <1>1, <1>2, CallingFinite DEF CallingIn

\* The reasons to exit, once given, stay.
LEMMA ExitStays ==
    ASSUME TypeInv, BusyInv, Next
    PROVE  /\ resolversShouldExit => resolversShouldExit'
           /\ visitorsShouldExit => visitorsShouldExit'
<1> USE DEF resolversShouldExit, visitorsShouldExit
<1>1. ASSUME UNCHANGED <<queueVars, busyVars, firstErr>>
      PROVE  /\ resolversShouldExit => resolversShouldExit'
             /\ visitorsShouldExit => visitorsShouldExit'
  BY <1>1 DEF queueVars, busyVars, Empty
<1>2. ASSUME NEW w \in Worker, Lock(w) \/ Sleep(w) \/ Exit(w) \/ Cancel(w)
      PROVE  /\ resolversShouldExit => resolversShouldExit'
             /\ visitorsShouldExit => visitorsShouldExit'
  BY <1>1, <1>2 DEF Lock, Sleep, Exit, Cancel
<1>3. ASSUME NEW w \in Worker, NEW n \in Node, TakeToResolve(w, n)
      PROVE  /\ resolversShouldExit => resolversShouldExit'
             /\ visitorsShouldExit => visitorsShouldExit'
  BY <1>3 DEF TakeToResolve
<1>4. ASSUME NEW w \in Worker, NEW n \in Node, TakeToVisit(w, n)
      PROVE  /\ resolversShouldExit => resolversShouldExit'
             /\ visitorsShouldExit => visitorsShouldExit'
  BY <1>4 DEF TakeToVisit
<1>5. ASSUME NEW w \in Worker, Resolved(w)
      PROVE  /\ resolversShouldExit => resolversShouldExit'
             /\ visitorsShouldExit => visitorsShouldExit'
  <2>1. w \in Resolvers /\ pc[w] = "calling" /\ firstErr' = firstErr
    BY <1>5 DEF Resolved
  <2>2. busyResolvers # 0
    BY <2>1, BusyZero
  <2> QED BY <2>1, <2>2
<1>6. ASSUME NEW w \in Worker, Visited(w)
      PROVE  /\ resolversShouldExit => resolversShouldExit'
             /\ visitorsShouldExit => visitorsShouldExit'
  <2>1. /\ w \in Visitors /\ pc[w] = "calling" /\ firstErr' = firstErr
        /\ toResolve' = toResolve /\ busyResolvers' = busyResolvers
    BY <1>6 DEF Visited
  <2>2. busyVisitors # 0
    BY <2>1, BusyZero
  <2> QED BY <2>1, <2>2 DEF Empty
<1>7. ASSUME NEW w \in Worker, NEW err \in Errors, Failed(w, err)
      PROVE  /\ resolversShouldExit => resolversShouldExit'
             /\ visitorsShouldExit => visitorsShouldExit'
  <2>1. firstErr' # "none"
    BY <1>7 DEF Failed, recordError, Errors
  <2> QED BY <2>1
<1>8. CASE Return
  BY <1>1, <1>8 DEF Return
<1>9. CASE Terminated
  BY <1>1, <1>9 DEF Terminated, vars
<1> QED BY <1>2, <1>3, <1>4, <1>5, <1>6, <1>7, <1>8, <1>9 DEF Next, WorkerStep

\* A stopped worker takes no step; only Exit makes a worker done.
LEMMA NextDone ==
    TypeInv /\ BusyInv /\ DoneInv /\ StopInv /\ [Next]_vars => DoneInv' /\ StopInv'
<1> SUFFICES ASSUME TypeInv, BusyInv, DoneInv, StopInv, [Next]_vars
             PROVE  DoneInv' /\ StopInv'
  OBVIOUS
<1>0. CASE UNCHANGED vars
  BY <1>0 DEF vars, DoneInv, StopInv, ShouldExit, resolversShouldExit,
       visitorsShouldExit, Empty, queueVars, busyVars
<1>1. CASE Next
  <2>1. ASSUME NEW x \in Worker, ShouldExit(x) PROVE ShouldExit(x)'
    BY <1>1, <2>1, ExitStays DEF ShouldExit
  <2>2. ASSUME NEW w \in Worker, WorkerStep(w) PROVE result = "running" /\ result' = result
    <3>1. pc[w] \notin {"done", "failed"}
      BY <2>2 DEF WorkerStep, Lock, Sleep, Exit, TakeToResolve, TakeToVisit, Resolved,
           Visited, Failed, Cancel
    <3>2. result' = result
      BY <2>2 DEF WorkerStep, Lock, Sleep, Exit, TakeToResolve, TakeToVisit, Resolved,
           Visited, Failed, Cancel
    <3> QED BY <3>1, <3>2 DEF StopInv
  <2>3. ASSUME NEW w \in Worker, WorkerStep(w), NEW x \in Worker, pc'[x] = "done"
        PROVE  pc[x] = "done" \/ ShouldExit(x)
    <3>1. CASE Lock(w) \/ Sleep(w) \/ Cancel(w)
      BY <2>3, <3>1 DEF Lock, Sleep, Cancel, TypeInv, TypeOK
    <3>2. CASE Exit(w)
      BY <2>3, <3>2 DEF Exit, TypeInv, TypeOK
    <3>3. CASE \E n \in Node : TakeToResolve(w, n) \/ TakeToVisit(w, n)
      BY <2>3, <3>3 DEF TakeToResolve, TakeToVisit, TypeInv, TypeOK
    <3>4. CASE Resolved(w) \/ Visited(w) \/ \E err \in Errors : Failed(w, err)
      <4>1. PICK where \in {"loop", "failing"} :
                 pc[w] = "calling" /\ update([pc EXCEPT ![w] = where])
        BY <3>4 DEF Resolved, Visited, Failed
      <4>2. where \in PCs /\ pc[w] # "asleep" /\ pc \in [Worker -> PCs]
        BY <4>1 DEF PCs, TypeInv, TypeOK
      <4>3. /\ pc'[w] = where
            /\ \A y \in Worker \ {w} :
                  pc'[y] = pc[y] \/ (pc[y] = "asleep" /\ pc'[y] = "woken")
        BY <4>1, <4>2, UpdateMoves
      <4> QED BY <2>3, <4>1, <4>3
    <3> QED BY <2>3, <3>1, <3>2, <3>3, <3>4 DEF WorkerStep
  <2>4. CASE \E w \in Worker : WorkerStep(w)
    <3>1. DoneInv'
      BY <2>1, <2>3, <2>4 DEF DoneInv
    <3>2. StopInv'
      BY <2>2, <2>4 DEF StopInv
    <3> QED BY <3>1, <3>2
  <2>5. CASE Return
    <3>1. DoneInv'
      BY <2>1, <2>5 DEF Return, DoneInv
    <3>2. StopInv'
      BY <2>5 DEF Return, StopInv
    <3> QED BY <3>1, <3>2
  <2>6. CASE Terminated
    BY <1>0, <2>6 DEF Terminated
  <2> QED BY <1>1, <2>4, <2>5, <2>6 DEF Next
<1> QED BY <1>0, <1>1

\* At the end of a walk without errors, every known node has been visited or
\* waits for another node that waits.
LEMMA AtTheEnd ==
    ASSUME TypeInv, BusyInv, ErrInv, PlaceInv, DoneInv, firstErr = "none",
           \A w \in Worker : pc[w] \in {"done", "failed"}
    PROVE  \A n \in nodes : state[n] \in {"DependenciesUnsatisfied", "Visited"}
<1>1. \A w \in Worker : pc[w] = "done"
  BY DEF ErrInv
<1>2. \A w \in Worker : cur[w] \notin Node
  BY <1>1 DEF TypeInv, CurInv
<1>3. PICK v \in Visitors : TRUE
  BY WorkerAssumption
<1>4. visitorsShouldExit
  <2>1. v \in Worker /\ v \notin Resolvers
    BY WorkerAssumption DEF Worker
  <2> QED BY <1>1, <2>1 DEF DoneInv, ShouldExit
<1>5. Empty(toVisit) /\ Empty(toResolve)
  BY <1>4 DEF visitorsShouldExit, resolversShouldExit
<1>6. ASSUME NEW n \in nodes PROVE state[n] \in {"DependenciesUnsatisfied", "Visited"}
  <2>1. n \in Node /\ state[n] \in NodeStates
    BY DEF TypeInv, TypeOK
  <2>2. toVisit[n] = 0 /\ toResolve[n] = 0
    BY <1>5, <2>1 DEF Empty
  <2>3. state[n] # "DependenciesUnresolved" /\ state[n] # "Unvisited"
    BY <1>2, <2>1, <2>2 DEF PlaceInv, Worker
  <2> QED BY <2>1, <2>3 DEF NodeStates
<1> QED BY <1>6

LEMMA ReturnIsRight ==
    ASSUME TypeInv, BusyInv, ErrInv, PlaceInv, CountInv, ReachInv, AcyclicInv,
           DoneInv, Return
    PROVE  ResultIsRight'
<1>0. graph \in Graphs /\ nodes \subseteq Node
  BY DEF TypeInv, TypeOK
<1>1. /\ graph' = graph /\ state' = state
      /\ \A w \in Worker : pc[w] \in {"done", "failed"}
      /\ result' = IF firstErr # "none" THEN "error"
                   ELSE IF unsatisfied # {} THEN "cycle" ELSE "ok"
  BY DEF Return, nodeVars
<1>2. ASSUME firstErr = "none"
      PROVE  \A n \in nodes : state[n] \in {"DependenciesUnsatisfied", "Visited"}
  BY <1>1, <1>2, AtTheEnd
<1>3. ASSUME result' = "ok"
      PROVE  /\ \A n \in Reachable(graph) : state[n] = "Visited"
             /\ ~HasCycle(graph, Reachable(graph))
  <2>1. firstErr = "none" /\ unsatisfied = {}
    BY <1>1, <1>3
  <2>2. nodes \subseteq VisitedNodes
    BY <1>0, <1>2, <2>1 DEF CountInv, VisitedNodes
  <2>3. VisitedNodes \subseteq nodes
    BY DEF PlaceInv, VisitedNodes
  <2>4. Closed(graph, nodes)
    <3> SUFFICES ASSUME NEW n \in nodes PROVE Deps(graph, n) \subseteq nodes
      BY DEF Closed
    <3>1. n \in Node /\ state[n] = "Visited"
      BY <1>0, <2>2 DEF VisitedNodes
    <3> QED BY <3>1 DEF CountInv
  <2>5. Reachable(graph) = nodes
    BY <1>0, <2>4, ReachLeast DEF PlaceInv, ReachInv
  <2>6. VisitedNodes = nodes
    BY <2>2, <2>3
  <2> QED BY <2>5, <2>6 DEF AcyclicInv, VisitedNodes
<1>4. ASSUME result' = "cycle" PROVE HasCycle(graph, Reachable(graph))
  <2>1. firstErr = "none" /\ unsatisfied # {}
    BY <1>1, <1>4
  <2>2. ASSUME NEW n \in unsatisfied PROVE n \in nodes /\ Deps(graph, n) \cap unsatisfied # {}
    <3>1. n \in Node /\ state[n] = "DependenciesUnsatisfied"
      BY DEF CountInv
    <3>2. n \in nodes /\ Deps(graph, n) \subseteq nodes
      BY <3>1 DEF PlaceInv, CountInv
    <3>3. Cardinality(Missing(n)) > 0
      BY <3>1 DEF CountInv
    <3>4. Missing(n) # {}
      BY <3>3, FS_EmptySet
    <3>5. PICK i \in DOMAIN graph[n] : state[graph[n][i]] # "Visited"
      BY <3>4 DEF Missing
    <3>6. graph[n][i] \in Deps(graph, n)
      BY DEF Deps
    <3>7. graph[n][i] \in unsatisfied
      BY <1>0, <1>2, <2>1, <3>2, <3>5, <3>6 DEF CountInv
    <3> QED BY <3>2, <3>6, <3>7
  <2>3. Knot(graph, unsatisfied)
    BY <2>1, <2>2 DEF Knot
  <2>4. unsatisfied \subseteq Reachable(graph)
    BY <2>2 DEF ReachInv
  <2> QED BY <2>3, <2>4 DEF HasCycle
<1>5. firstErr' = firstErr /\ firstErr # "followOn"
  BY DEF Return, ErrInv
<1> QED BY <1>1, <1>3, <1>4, <1>5 DEF ResultIsRight, NoFollowOnError

------------------------------------------------------------------------------
(* The whole invariant                                                     *)

IInv ==
    /\ TypeInv /\ BusyInv /\ ErrInv /\ PlaceInv /\ CountInv
    /\ ReachInv /\ AcyclicInv /\ DoneInv /\ StopInv /\ ResultIsRight

LEMMA InitInvariant == Init => IInv
<1> SUFFICES ASSUME Init PROVE IInv
  OBVIOUS
<1>1. TypeInv /\ BusyInv /\ PlaceInv /\ CountInv
  BY InitType, InitBusy, InitPlaceCount
<1>2. ErrInv /\ DoneInv /\ StopInv /\ ResultIsRight
  BY DEF Init, ErrInv, DoneInv, StopInv, ResultIsRight
<1>3. ReachInv
  BY ReachClosed DEF Init, ReachInv
<1>4. AcyclicInv
  <2>1. VisitedNodes = {}
    BY DEF Init, VisitedNodes
  <2> QED BY <2>1 DEF AcyclicInv, HasCycle, Knot
<1> QED BY <1>1, <1>2, <1>3, <1>4 DEF IInv

LEMMA NextInvariant == IInv /\ [Next]_vars => IInv'
<1> SUFFICES ASSUME IInv, [Next]_vars PROVE IInv'
  OBVIOUS
<1>1. /\ TypeInv' /\ BusyInv' /\ ErrInv' /\ PlaceInv' /\ CountInv'
      /\ ReachInv' /\ AcyclicInv' /\ DoneInv' /\ StopInv'
  BY NextType, NextBusy, NextErr, NextPlace, NextCount, NextReach, NextDone DEF IInv
<1>2. ResultIsRight'
  <2>1. CASE Return
    BY <2>1, ReturnIsRight DEF IInv
  <2>2. CASE UNCHANGED vars
    BY <2>2 DEF vars, IInv, ResultIsRight, NoFollowOnError, nodeVars
  <2>3. CASE \E w \in Worker : WorkerStep(w)
    <3>1. PICK w \in Worker : WorkerStep(w)
      BY <2>3
    <3>2. pc[w] \notin {"done", "failed"} /\ result' = result
      BY <3>1 DEF WorkerStep, Lock, Sleep, Exit, TakeToResolve, TakeToVisit, Resolved,
           Visited, Failed, Cancel
    <3>3. result' = "running"
      BY <3>2 DEF IInv, StopInv
    <3> QED BY <3>3 DEF ResultIsRight
  <2> QED BY <2>1, <2>2, <2>3 DEF Next, Terminated
<1> QED BY <1>1, <1>2 DEF IInv

LEMMA Invariance == Spec => []IInv
  BY InitInvariant, NextInvariant, PTL DEF Spec

\* nil from Visit means that every reachable node was visited and that the
\* graph has no cycle; the cycle error means that it has one; any other is the
\* error of a call that was not cancelled.
THEOREM ReturnValueIsRight == Spec => []ResultIsRight
<1>1. IInv => ResultIsRight
  BY DEF IInv
<1> QED BY <1>1, Invariance, PTL

\* A node is visited only after all of its dependencies.
THEOREM VisitInOrder == Spec => []DependenciesFirst
<1>1. IInv => DependenciesFirst
  <2> SUFFICES ASSUME IInv, NEW w \in Visitors, pc[w] = "calling",
                      NEW d \in Deps(graph, cur[w])
               PROVE  state[d] = "Visited"
    BY DEF DependenciesFirst
  <2>1. cur[w] \in Node /\ state[cur[w]] = "Unvisited"
    BY DEF IInv, TypeInv, CurInv, PlaceInv, Worker
  <2>2. Missing(cur[w]) = {}
    BY <2>1 DEF IInv, CountInv
  <2> QED BY <2>1, <2>2, MissingNone DEF IInv, TypeInv, TypeOK, VisitedNodes
<1> QED BY <1>1, Invariance, PTL

\* None of the panics in checkInvariants can happen.
THEOREM ChecksNeverPanic == Spec => []CheckInvariants
<1>1. IInv => CheckInvariants
  <2> SUFFICES ASSUME IInv PROVE CheckInvariants
    OBVIOUS
  <2>1. busyResolvers >= 0 /\ busyVisitors >= 0
    BY BusyZero DEF IInv
  <2>2. unsatisfied = {n \in nodes : state[n] = "DependenciesUnsatisfied"}
    BY DEF IInv, CountInv, PlaceInv, TypeInv, TypeOK
  <2>3. ASSUME NEW n \in Node
        PROVE  /\ depsUnsatisfied[n] >= 0
               /\ depsUnsatisfied[n] > 0 <=> state[n] = "DependenciesUnsatisfied"
               /\ toResolve[n] > 0 => n \in nodes /\ state[n] = "DependenciesUnresolved"
               /\ toVisit[n] > 0 => n \in nodes /\ state[n] = "Unvisited"
    <3>1. depsUnsatisfied[n] >= 0 /\ (depsUnsatisfied[n] > 0 <=> state[n] = "DependenciesUnsatisfied")
      BY DEF IInv, CountInv, TypeInv, TypeOK
    <3>2. /\ toResolve[n] > 0 => n \in nodes /\ state[n] = "DependenciesUnresolved"
          /\ toVisit[n] > 0 => n \in nodes /\ state[n] = "Unvisited"
      BY DEF IInv, PlaceInv
    <3> QED BY <3>1, <3>2
  <2>4. ASSUME NEW n \in Node, NEW m \in Node, dependants[m][n] > 0
        PROVE  state[m] # "Visited" /\ state[n] = "DependenciesUnsatisfied"
    BY <2>4 DEF IInv, CountInv
  <2> QED BY <2>1, <2>2, <2>3, <2>4 DEF CheckInvariants
<1> QED BY <1>1, Invariance, PTL

\* A node that needs a worker is queued once or held by one worker: no node
\* is forgotten, and none is handed out twice.
THEOREM NodesInOnePlace == Spec => []OnePlace
<1>1. IInv => OnePlace
  <2> SUFFICES ASSUME IInv, NEW n \in Node
               PROVE  /\ toResolve[n] + Cardinality({w \in Resolvers : Holds(w, n)}) =
                           IF n \in nodes /\ state[n] = "DependenciesUnresolved" THEN 1 ELSE 0
                      /\ toVisit[n] + Cardinality({w \in Visitors : Holds(w, n)}) =
                           IF state[n] = "Unvisited" THEN 1 ELSE 0
    BY DEF OnePlace
  <2> DEFINE RH == {w \in Resolvers : Holds(w, n)}
             VH == {w \in Visitors : Holds(w, n)}
  <2>1. \A w \in Worker : Holds(w, n) <=> cur[w] = n
    BY DEF IInv, TypeInv, CurInv, Holds
  <2>2. \A v, w \in Worker : cur[v] = n /\ cur[w] = n => v = w
    BY DEF IInv, PlaceInv
  <2>3. RH = {} \/ \E w \in Resolvers : RH = {w} /\ cur[w] = n
    BY <2>1, <2>2 DEF Worker
  <2>4. VH = {} \/ \E w \in Visitors : VH = {w} /\ cur[w] = n
    BY <2>1, <2>2 DEF Worker
  <2>5. Cardinality({}) = 0 /\ \A w : Cardinality({w}) = 1
    BY FS_EmptySet, FS_Singleton
  <2>6. toResolve[n] + Cardinality(RH) =
           IF n \in nodes /\ state[n] = "DependenciesUnresolved" THEN 1 ELSE 0
    <3>1. CASE RH = {}
      <4>1. \A w \in Resolvers : cur[w] # n
        BY <2>1, <3>1 DEF Worker
      <4>2. toResolve[n] = IF n \in nodes /\ state[n] = "DependenciesUnresolved" THEN 1 ELSE 0
        BY <4>1 DEF IInv, PlaceInv
      <4> QED BY <2>5, <3>1, <4>2
    <3>2. CASE \E w \in Resolvers : RH = {w} /\ cur[w] = n
      <4>1. toResolve[n] = 0 /\ n \in nodes /\ state[n] = "DependenciesUnresolved"
        BY <3>2 DEF IInv, PlaceInv
      <4> QED BY <2>5, <3>2, <4>1
    <3> QED BY <2>3, <3>1, <3>2
  <2>7. toVisit[n] + Cardinality(VH) = IF state[n] = "Unvisited" THEN 1 ELSE 0
    <3>1. CASE VH = {}
      <4>1. \A w \in Visitors : cur[w] # n
        BY <2>1, <3>1 DEF Worker
      <4>2. toVisit[n] = IF state[n] = "Unvisited" THEN 1 ELSE 0
        BY <4>1 DEF IInv, PlaceInv
      <4> QED BY <2>5, <3>1, <4>2
    <3>2. CASE \E w \in Visitors : VH = {w} /\ cur[w] = n
      <4>1. toVisit[n] = 0 /\ state[n] = "Unvisited"
        BY <3>2 DEF IInv, PlaceInv
      <4>2. Cardinality(VH) = 1
        BY <2>5, <3>2
      <4> QED BY <4>1, <4>2
    <3> QED BY <2>4, <3>1, <3>2
  <2> QED BY <2>6, <2>7
<1> QED BY <1>1, Invariance, PTL

------------------------------------------------------------------------------
(* Refinement of DagTraversal                                              *)

\* Every known node was a start node or was reported as a dependency.
DiscoveredInv ==
    \A n \in nodes : n \in Start \/ \E m \in Node :
        state[m] # "DependenciesUnresolved" /\ n \in Deps(graph, m)

LEMMA NextDiscovered ==
    IInv /\ DiscoveredInv /\ [Next]_vars => DiscoveredInv'
<1> SUFFICES ASSUME IInv, DiscoveredInv, [Next]_vars PROVE DiscoveredInv'
  OBVIOUS
<1>1. ASSUME UNCHANGED <<graph, nodes, state>> PROVE DiscoveredInv'
  BY <1>1 DEF DiscoveredInv
<1>2. ASSUME NEW w \in Worker, Resolved(w) PROVE DiscoveredInv'
  <2>1. PICK n \in Node : n = cur[w]
    BY <1>2, ResolvedEffect DEF IInv
  <2>2. /\ state'[n] # "DependenciesUnresolved"
        /\ \A x \in Node \ {n} : state'[x] = state[x]
    BY <1>2, <2>1, ResolvedEffect DEF IInv
  <2>3. graph' = graph /\ nodes' = nodes \cup Deps(graph, n)
    BY <1>2, <2>1 DEF Resolved, addNodes
  <2> QED BY <2>2, <2>3 DEF DiscoveredInv
<1>3. ASSUME NEW w \in Worker, Visited(w) PROVE DiscoveredInv'
  <2>1. graph' = graph /\ nodes' = nodes
    BY <1>3 DEF Visited
  <2>2. PICK m \in Node : m = cur[w]
    BY <1>3, VisitedEffect DEF IInv
  <2>3. \A x \in Node : state[x] # "DependenciesUnresolved" => state'[x] # "DependenciesUnresolved"
    BY <1>3, <2>2, VisitedEffect DEF IInv
  <2> QED BY <2>1, <2>3 DEF DiscoveredInv
<1>4. ASSUME NEW w \in Worker, Lock(w) \/ Sleep(w) \/ Exit(w) \/ Cancel(w)
      PROVE  DiscoveredInv'
  BY <1>1, <1>4 DEF Lock, Sleep, Exit, Cancel, nodeVars
<1>5. ASSUME NEW w \in Worker, NEW n \in Node, TakeToResolve(w, n) \/ TakeToVisit(w, n)
      PROVE  DiscoveredInv'
  BY <1>1, <1>5 DEF TakeToResolve, TakeToVisit, nodeVars
<1>6. ASSUME NEW w \in Worker, NEW err \in Errors, Failed(w, err) PROVE DiscoveredInv'
  BY <1>1, <1>6 DEF Failed, nodeVars
<1>7. CASE Return
  BY <1>1, <1>7 DEF Return, nodeVars
<1>8. CASE UNCHANGED vars
  BY <1>1, <1>8 DEF vars, nodeVars
<1> QED BY <1>2, <1>3, <1>4, <1>5, <1>6, <1>7, <1>8 DEF Next, WorkerStep, Terminated

\* The phase of a node, case by case.
LEMMA PhaseCases ==
    ASSUME IInv, NEW n \in Node
    PROVE  /\ AbsPhase[n] = "failed" <=> \E w \in Worker : FailedOn(w, n)
           /\ \A w \in Resolvers : Calling(w, n) =>
                 AbsPhase[n] = "finding" /\ state[n] = "DependenciesUnresolved"
           /\ \A w \in Visitors : Calling(w, n) =>
                 AbsPhase[n] = "visiting" /\ state[n] = "Unvisited"
           /\ (\A w \in Worker : cur[w] # n) =>
                 AbsPhase[n] = IF state[n] = "Visited" THEN "visited"
                               ELSE IF state[n] = "DependenciesUnresolved" THEN "idle"
                               ELSE "found"
           /\ state[n] = "Visited" => AbsPhase[n] = "visited"
           /\ AbsPhase[n] \in {"finding", "visiting"} =>
                 \E w \in Worker : Calling(w, n)
<1>1. \A v, w \in Worker : cur[v] = n /\ cur[w] = n => v = w
  BY DEF IInv, PlaceInv
<1>2. /\ \A w \in Resolvers : cur[w] = n => state[n] = "DependenciesUnresolved"
      /\ \A w \in Visitors : cur[w] = n => state[n] = "Unvisited"
  BY DEF IInv, PlaceInv
<1>3. \A w \in Worker : ~(Calling(w, n) /\ FailedOn(w, n))
  BY DEF Calling, FailedOn
<1>4. \A w \in Worker : Calling(w, n) \/ FailedOn(w, n) => cur[w] = n
  BY DEF Calling, FailedOn
<1>5. AbsPhase[n] =
        IF \E w \in Worker : FailedOn(w, n) THEN "failed"
        ELSE IF \E w \in Resolvers : Calling(w, n) THEN "finding"
        ELSE IF \E w \in Visitors : Calling(w, n) THEN "visiting"
        ELSE IF state[n] = "Visited" THEN "visited"
        ELSE IF state[n] = "DependenciesUnresolved" THEN "idle" ELSE "found"
  BY DEF AbsPhase
<1>6. Resolvers \subseteq Worker /\ Visitors \subseteq Worker /\ Resolvers \cap Visitors = {}
  BY WorkerAssumption DEF Worker
<1>7. AbsPhase[n] = "failed" <=> \E w \in Worker : FailedOn(w, n)
  BY <1>5
<1>8. \A w \in Resolvers : Calling(w, n) =>
         AbsPhase[n] = "finding" /\ state[n] = "DependenciesUnresolved"
  BY <1>1, <1>2, <1>3, <1>4, <1>5, <1>6
<1>9. \A w \in Visitors : Calling(w, n) => AbsPhase[n] = "visiting" /\ state[n] = "Unvisited"
  BY <1>1, <1>2, <1>3, <1>4, <1>5, <1>6
<1>10. (\A w \in Worker : cur[w] # n) =>
         AbsPhase[n] = IF state[n] = "Visited" THEN "visited"
                       ELSE IF state[n] = "DependenciesUnresolved" THEN "idle" ELSE "found"
  BY <1>4, <1>5, <1>6
<1>11. state[n] = "Visited" => AbsPhase[n] = "visited"
  <2>1. state[n] = "Visited" => \A w \in Worker : cur[w] # n
    BY <1>2 DEF Worker
  <2> QED BY <1>10, <2>1
<1>12. AbsPhase[n] \in {"finding", "visiting"} => \E w \in Worker : Calling(w, n)
  BY <1>5, <1>6
<1> QED BY <1>7, <1>8, <1>9, <1>10, <1>11, <1>12

\* A node whose holders and progress a step leaves alone keeps its phase.
LEMMA PhaseStays ==
    ASSUME NEW n \in Node,
           \/ state'[n] = state[n]
           \/ /\ state[n] = "DependenciesUnsatisfied"
              /\ state'[n] = "Unvisited",
           \A w \in Worker : /\ Calling(w, n)' <=> Calling(w, n)
                             /\ FailedOn(w, n)' <=> FailedOn(w, n)
    PROVE  AbsPhase'[n] = AbsPhase[n]
<1>1. Resolvers \subseteq Worker /\ Visitors \subseteq Worker
  BY DEF Worker
<1>2. /\ (\E w \in Worker : FailedOn(w, n)') <=> (\E w \in Worker : FailedOn(w, n))
      /\ (\E w \in Resolvers : Calling(w, n)') <=> (\E w \in Resolvers : Calling(w, n))
      /\ (\E w \in Visitors : Calling(w, n)') <=> (\E w \in Visitors : Calling(w, n))
  BY <1>1
<1> QED BY <1>2 DEF AbsPhase

\* The phases a step of one worker changes: that of its node alone.
LEMMA PhaseAdvances ==
    ASSUME NEW n \in Node, NEW to,
           AbsPhase'[n] = to, \A x \in Node \ {n} : AbsPhase'[x] = AbsPhase[x]
    PROVE  AbsPhase' = [AbsPhase EXCEPT ![n] = to]
<1>1. AbsPhase = [x \in Node |-> AbsPhase[x]]
  BY Zenon DEF AbsPhase
<1>2. AbsPhase' = [x \in Node |-> AbsPhase'[x]]
  BY Zenon DEF AbsPhase
<1> QED BY <1>1, <1>2

\* The graph operators of the two modules are the same.
LEMMA SameGraphs ==
    /\ \A g, n : Abs!Deps(g, n) = Deps(g, n)
    /\ \A g : Abs!Reachable(g) = Reachable(g)
    /\ \A g, S : Abs!HasCycle(g, S) = HasCycle(g, S)
<1>1. \A g, n : Abs!Deps(g, n) = Deps(g, n)
  BY DEF Abs!Deps, Deps
<1>2. \A g, S : Abs!Closed(g, S) = Closed(g, S)
  BY <1>1 DEF Abs!Closed, Closed
<1>3. \A g : Abs!Reachable(g) = Reachable(g)
  BY <1>2 DEF Abs!Reachable, Reachable
<1>4. \A g, S : Abs!Knot(g, S) = Knot(g, S)
  BY <1>1 DEF Abs!Knot, Knot
<1>5. \A g, S : Abs!HasCycle(g, S) = HasCycle(g, S)
  BY <1>4 DEF Abs!HasCycle, HasCycle
<1> QED BY <1>1, <1>3, <1>5

\* A failure leaves firstErr set, so no worker begins a call after it.
LEMMA NoneFailed ==
    ASSUME IInv, firstErr = "none", NEW n \in Node PROVE AbsPhase[n] # "failed"
<1>1. \A w \in Worker : ~FailedOn(w, n)
  BY DEF IInv, ErrInv, FailedOn
<1> QED BY <1>1, PhaseCases

LEMMA ReadyToFind ==
    ASSUME IInv, DiscoveredInv, firstErr = "none", NEW n \in nodes
    PROVE  Abs!Discovered(n)
<1>1. CASE n \in Start
  BY <1>1 DEF Abs!Discovered
<1>2. ASSUME NEW m \in Node, state[m] # "DependenciesUnresolved", n \in Deps(graph, m)
      PROVE  Abs!Discovered(n)
  <2>1. AbsPhase[m] \in {"found", "visiting", "visited"}
    <3>1. AbsPhase[m] # "failed"
      BY NoneFailed
    <3>2. \A w \in Resolvers : cur[w] # m
      BY <1>2 DEF IInv, PlaceInv
    <3>3. \A w \in Worker : ~FailedOn(w, m)
      BY <3>1, PhaseCases
    <3> QED BY <1>2, <3>2, <3>3 DEF AbsPhase, Calling
  <2> QED BY <1>2, <2>1, SameGraphs DEF Abs!Discovered
<1> QED BY <1>1, <1>2 DEF DiscoveredInv

LEMMA RefineTakeToResolve ==
    ASSUME IInv, DiscoveredInv, NEW w \in Worker, NEW n \in Node, TakeToResolve(w, n)
    PROVE  Abs!StartFind(n)
<1>1. /\ w \in Resolvers /\ cur[w] \notin Node /\ pc[w] = "loop" /\ toResolve[n] > 0
      /\ pc' = [pc EXCEPT ![w] = "calling"] /\ cur' = [cur EXCEPT ![w] = n]
      /\ firstErr = "none" /\ UNCHANGED <<graph, state, result>>
  BY DEF TakeToResolve, resolversShouldExit, IInv, TypeInv, CurInv, nodeVars
<1>2. n \in nodes /\ state[n] = "DependenciesUnresolved" /\ toResolve[n] = 1
  BY <1>1 DEF IInv, PlaceInv, TypeInv, TypeOK, Bag
<1>3. \A v \in Worker : cur[v] # n
  <2>1. \A v \in Resolvers : cur[v] # n
    BY <1>2 DEF IInv, PlaceInv
  <2>2. \A v \in Visitors : cur[v] # n
    BY <1>2 DEF IInv, PlaceInv
  <2> QED BY <2>1, <2>2 DEF Worker
<1>4. AbsPhase[n] = "idle"
  BY <1>2, <1>3, PhaseCases
<1>5. /\ cur'[w] = n /\ pc'[w] = "calling"
      /\ \A v \in Worker \ {w} : cur'[v] = cur[v] /\ pc'[v] = pc[v]
  BY <1>1 DEF IInv, TypeInv, TypeOK
<1>6. AbsPhase'[n] = "finding"
  <2>1. \A v \in Worker : ~FailedOn(v, n)'
    BY <1>3, <1>5 DEF FailedOn
  <2>2. Calling(w, n)'
    BY <1>5 DEF Calling
  <2> QED BY <1>1, <2>1, <2>2 DEF AbsPhase
<1>7. ASSUME NEW x \in Node \ {n} PROVE AbsPhase'[x] = AbsPhase[x]
  <2>1. \A v \in Worker : (Calling(v, x)' <=> Calling(v, x)) /\ (FailedOn(v, x)' <=> FailedOn(v, x))
    BY <1>1, <1>5 DEF Calling, FailedOn
  <2> QED BY <1>1, <2>1, PhaseStays
<1>8. AbsPhase' = [AbsPhase EXCEPT ![n] = "finding"]
  BY <1>6, <1>7, PhaseAdvances
<1>9. ~Abs!SomeFailed
  BY <1>1, NoneFailed DEF Abs!SomeFailed
<1>10. Abs!Discovered(n)
  BY <1>1, <1>2, ReadyToFind
<1>11. result = "running"
  BY <1>1 DEF IInv, StopInv
<1> QED BY <1>1, <1>4, <1>8, <1>9, <1>10, <1>11 DEF Abs!StartFind, Abs!Advance

LEMMA RefineTakeToVisit ==
    ASSUME IInv, NEW w \in Worker, NEW n \in Node, TakeToVisit(w, n)
    PROVE  Abs!StartVisit(n)
<1>1. /\ w \in Visitors /\ cur[w] \notin Node /\ pc[w] = "loop" /\ toVisit[n] > 0
      /\ pc' = [pc EXCEPT ![w] = "calling"] /\ cur' = [cur EXCEPT ![w] = n]
      /\ firstErr = "none" /\ UNCHANGED <<graph, state, result>>
  BY DEF TakeToVisit, visitorsShouldExit, IInv, TypeInv, CurInv, nodeVars
<1>2. state[n] = "Unvisited" /\ toVisit[n] = 1
  BY <1>1 DEF IInv, PlaceInv, TypeInv, TypeOK, Bag
<1>3. \A v \in Worker : cur[v] # n
  <2>1. \A v \in Resolvers : cur[v] # n
    BY <1>2 DEF IInv, PlaceInv
  <2>2. \A v \in Visitors : cur[v] # n
    BY <1>2 DEF IInv, PlaceInv
  <2> QED BY <2>1, <2>2 DEF Worker
<1>4. AbsPhase[n] = "found"
  BY <1>2, <1>3, PhaseCases
<1>5. /\ cur'[w] = n /\ pc'[w] = "calling"
      /\ \A v \in Worker \ {w} : cur'[v] = cur[v] /\ pc'[v] = pc[v]
  BY <1>1 DEF IInv, TypeInv, TypeOK
<1>6. AbsPhase'[n] = "visiting"
  <2>1. \A v \in Worker : ~FailedOn(v, n)'
    BY <1>3, <1>5 DEF FailedOn
  <2>2. Calling(w, n)'
    BY <1>5 DEF Calling
  <2>3. \A v \in Resolvers : ~Calling(v, n)'
    BY <1>1, <1>3, <1>5, WorkerAssumption DEF Calling, Worker
  <2> QED BY <1>1, <2>1, <2>2, <2>3 DEF AbsPhase
<1>7. ASSUME NEW x \in Node \ {n} PROVE AbsPhase'[x] = AbsPhase[x]
  <2>1. \A v \in Worker : (Calling(v, x)' <=> Calling(v, x)) /\ (FailedOn(v, x)' <=> FailedOn(v, x))
    BY <1>1, <1>5 DEF Calling, FailedOn
  <2> QED BY <1>1, <2>1, PhaseStays
<1>8. AbsPhase' = [AbsPhase EXCEPT ![n] = "visiting"]
  BY <1>6, <1>7, PhaseAdvances
<1>9. ~Abs!SomeFailed
  BY <1>1, NoneFailed DEF Abs!SomeFailed
<1>10. \A d \in Deps(graph, n) : AbsPhase[d] = "visited"
  <2>1. Missing(n) = {} /\ graph \in Graphs
    BY <1>2 DEF IInv, CountInv, TypeInv, TypeOK
  <2>2. Deps(graph, n) \subseteq VisitedNodes
    BY <2>1, MissingNone
  <2> QED BY <2>2, PhaseCases DEF VisitedNodes
<1>11. result = "running"
  BY <1>1 DEF IInv, StopInv
<1> QED BY <1>1, <1>4, <1>8, <1>9, <1>10, <1>11, SameGraphs DEF Abs!StartVisit, Abs!Advance

\* What a step that ends w's call means for the other nodes' phases.
LEMMA OthersKeepPhase ==
    ASSUME IInv, NEW w \in Worker, NEW n \in Node, cur[w] = n, NEW where \in PCs,
           pc[w] = "calling", update([pc EXCEPT ![w] = where]),
           cur' = [cur EXCEPT ![w] = "none"] \/ cur' = cur,
           NEW x \in Node \ {n},
           \/ state'[x] = state[x]
           \/ state[x] = "DependenciesUnsatisfied" /\ state'[x] = "Unvisited"
    PROVE  AbsPhase'[x] = AbsPhase[x]
<1>1. pc[w] # "asleep" /\ pc \in [Worker -> PCs]
  BY DEF IInv, TypeInv, TypeOK
<1>2. \A v \in Worker \ {w} : pc'[v] = pc[v] \/ (pc[v] = "asleep" /\ pc'[v] = "woken")
  BY <1>1, UpdateMoves
<1>3. cur'[w] # x /\ cur[w] # x /\ \A v \in Worker \ {w} : cur'[v] = cur[v]
  BY NoneAssumption DEF IInv, TypeInv, TypeOK
<1>4. \A v \in Worker : (Calling(v, x)' <=> Calling(v, x)) /\ (FailedOn(v, x)' <=> FailedOn(v, x))
  BY <1>2, <1>3 DEF Calling, FailedOn
<1> QED BY <1>4, PhaseStays

LEMMA RefineResolved ==
    ASSUME IInv, NEW w \in Worker, Resolved(w)
    PROVE  \E n \in Node : Abs!EndFind(n)
<1>1. PICK n \in Node : n = cur[w]
  BY ResolvedEffect DEF IInv
<1>2. /\ w \in Resolvers /\ pc[w] = "calling" /\ UNCHANGED <<graph, result>>
      /\ update([pc EXCEPT ![w] = "loop"]) /\ cur' = [cur EXCEPT ![w] = "none"]
  BY DEF Resolved
<1>3. /\ state'[n] \in {"DependenciesUnsatisfied", "Unvisited"}
      /\ \A x \in Node \ {n} : state'[x] = state[x]
  BY <1>1, ResolvedEffect DEF IInv
<1>4. AbsPhase[n] = "finding"
  BY <1>1, <1>2, PhaseCases DEF Calling
<1>5. AbsPhase'[n] = "found"
  <2>1. \A v \in Worker : cur'[v] # n
    BY <1>1, <1>2, NoneAssumption DEF IInv, TypeInv, TypeOK, PlaceInv
  <2>2. (\A v \in Worker : ~Calling(v, n)') /\ (\A v \in Worker : ~FailedOn(v, n)')
    BY <2>1 DEF Calling, FailedOn
  <2> QED BY <1>3, <2>2 DEF AbsPhase, Worker
<1>6. ASSUME NEW x \in Node \ {n} PROVE AbsPhase'[x] = AbsPhase[x]
  BY <1>1, <1>2, <1>3, OthersKeepPhase DEF PCs
<1>7. AbsPhase' = [AbsPhase EXCEPT ![n] = "found"]
  BY <1>5, <1>6, PhaseAdvances
<1>8. result = "running"
  BY <1>2 DEF IInv, StopInv
<1> QED BY <1>2, <1>4, <1>7, <1>8 DEF Abs!EndFind, Abs!Advance

LEMMA RefineVisited ==
    ASSUME IInv, NEW w \in Worker, Visited(w)
    PROVE  \E n \in Node : Abs!EndVisit(n)
<1>1. PICK n \in Node : n = cur[w]
  BY VisitedEffect DEF IInv
<1>2. /\ w \in Visitors /\ pc[w] = "calling" /\ UNCHANGED <<graph, result>>
      /\ update([pc EXCEPT ![w] = "loop"]) /\ cur' = [cur EXCEPT ![w] = "none"]
  BY DEF Visited
<1>3. /\ state'[n] = "Visited"
      /\ \A x \in Node \ {n} :
            \/ state'[x] = state[x]
            \/ state[x] = "DependenciesUnsatisfied" /\ state'[x] = "Unvisited"
  BY <1>1, VisitedEffect DEF IInv
<1>4. AbsPhase[n] = "visiting"
  BY <1>1, <1>2, PhaseCases DEF Calling
<1>5. AbsPhase'[n] = "visited"
  <2>1. \A v \in Worker : cur'[v] # n
    BY <1>1, <1>2, NoneAssumption DEF IInv, TypeInv, TypeOK, PlaceInv
  <2>2. (\A v \in Worker : ~Calling(v, n)') /\ (\A v \in Worker : ~FailedOn(v, n)')
    BY <2>1 DEF Calling, FailedOn
  <2> QED BY <1>3, <2>2 DEF AbsPhase, Worker
<1>6. ASSUME NEW x \in Node \ {n} PROVE AbsPhase'[x] = AbsPhase[x]
  BY <1>1, <1>2, <1>3, OthersKeepPhase DEF PCs
<1>7. AbsPhase' = [AbsPhase EXCEPT ![n] = "visited"]
  BY <1>5, <1>6, PhaseAdvances
<1>8. result = "running"
  BY <1>2 DEF IInv, StopInv
<1> QED BY <1>2, <1>4, <1>7, <1>8 DEF Abs!EndVisit, Abs!Advance

LEMMA RefineFailed ==
    ASSUME IInv, NEW w \in Worker, NEW err \in Errors, Failed(w, err)
    PROVE  \E n \in Node : Abs!FailCall(n)
<1>1. /\ pc[w] = "calling" /\ UNCHANGED <<graph, result, state, cur>>
      /\ update([pc EXCEPT ![w] = "failing"])
  BY DEF Failed, nodeVars
<1>2. PICK n \in Node : n = cur[w]
  BY <1>1 DEF IInv, TypeInv, CurInv
<1>3. AbsPhase[n] \in {"finding", "visiting"}
  BY <1>1, <1>2, PhaseCases DEF Calling, Worker
<1>4. AbsPhase'[n] = "failed"
  <2>1. pc[w] # "asleep" /\ "failing" \in PCs /\ pc \in [Worker -> PCs]
    BY <1>1 DEF PCs, IInv, TypeInv, TypeOK
  <2>2. pc'[w] = "failing"
    BY <1>1, <2>1, UpdateMoves
  <2>3. FailedOn(w, n)'
    BY <1>1, <1>2, <2>2 DEF FailedOn
  <2> QED BY <2>3 DEF AbsPhase
<1>5. ASSUME NEW x \in Node \ {n} PROVE AbsPhase'[x] = AbsPhase[x]
  BY <1>1, <1>2, OthersKeepPhase DEF PCs
<1>6. AbsPhase' = [AbsPhase EXCEPT ![n] = "failed"]
  BY <1>4, <1>5, PhaseAdvances
<1>7. result = "running"
  BY <1>1 DEF IInv, StopInv
<1> QED BY <1>1, <1>3, <1>6, <1>7 DEF Abs!FailCall, Abs!Advance

LEMMA RefineReturn ==
    ASSUME IInv, Return PROVE Abs!Finish
<1>1. /\ UNCHANGED <<graph, state, cur, pc>> /\ result = "running"
      /\ \A w \in Worker : pc[w] \in {"done", "failed"}
      /\ result' = IF firstErr # "none" THEN "error"
                   ELSE IF unsatisfied # {} THEN "cycle" ELSE "ok"
  BY DEF Return, nodeVars
<1>2. AbsPhase' = AbsPhase
  BY <1>1 DEF AbsPhase, FailedOn, Calling
<1>3. \A n \in Node : ~Abs!InCall(n)
  BY <1>1, PhaseCases DEF Abs!InCall, Calling
<1>4. IInv'
  <2>1. [Next]_vars
    BY DEF Next
  <2> QED BY <2>1, NextInvariant
<1>5. CASE firstErr # "none"
  <2>1. PICK w \in Worker : pc[w] = "failed"
    BY <1>1, <1>5 DEF IInv, ErrInv
  <2>2. cur[w] \in Node /\ FailedOn(w, cur[w])
    BY <2>1 DEF IInv, TypeInv, CurInv, FailedOn
  <2>3. Abs!SomeFailed
    BY <2>2, PhaseCases DEF Abs!SomeFailed
  <2> QED BY <1>1, <1>2, <1>3, <1>5, <2>3 DEF Abs!Finish
<1>6. CASE firstErr = "none" /\ unsatisfied = {}
  <2>1. result' = "ok"
    BY <1>1, <1>6
  <2>2. /\ \A n \in Reachable(graph) : state[n] = "Visited"
        /\ ~HasCycle(graph, Reachable(graph))
    BY <1>1, <1>4, <2>1 DEF IInv, ResultIsRight
  <2>3. \A n \in Reachable(graph) : AbsPhase[n] = "visited"
    BY <2>2, PhaseCases DEF Reachable
  <2> QED BY <1>1, <1>2, <1>3, <2>1, <2>2, <2>3, SameGraphs DEF Abs!Finish
<1>7. CASE firstErr = "none" /\ unsatisfied # {}
  <2>1. result' = "cycle"
    BY <1>1, <1>7
  <2>2. HasCycle(graph, Reachable(graph))
    BY <1>1, <1>4, <2>1 DEF IInv, ResultIsRight
  <2>3. ~Abs!SomeFailed
    BY <1>7, NoneFailed DEF Abs!SomeFailed
  <2> QED BY <1>1, <1>2, <1>3, <2>1, <2>2, <2>3, SameGraphs DEF Abs!Finish
<1> QED BY <1>5, <1>6, <1>7

\* Steps between calls are invisible to the abstract walk.
LEMMA RefineQuiet ==
    ASSUME IInv, NEW w \in Worker, Lock(w) \/ Sleep(w) \/ Exit(w) \/ Cancel(w)
    PROVE  UNCHANGED <<graph, AbsPhase, result>>
<1>1. UNCHANGED <<graph, state, cur, result>>
  BY DEF Lock, Sleep, Exit, Cancel, nodeVars
<1>2. \A v \in Worker : /\ pc'[v] = "calling" <=> pc[v] = "calling"
                        /\ pc'[v] \in {"failing", "failed"} <=> pc[v] \in {"failing", "failed"}
  BY DEF Lock, Sleep, Exit, Cancel, IInv, TypeInv, TypeOK
<1>3. ASSUME NEW n \in Node PROVE AbsPhase'[n] = AbsPhase[n]
  <2>1. state'[n] = state[n]
    BY <1>1
  <2>2. \A v \in Worker : (Calling(v, n)' <=> Calling(v, n)) /\ (FailedOn(v, n)' <=> FailedOn(v, n))
    BY <1>1, <1>2 DEF Calling, FailedOn
  <2> QED BY <2>1, <2>2, PhaseStays
<1>4. AbsPhase' = AbsPhase
  BY <1>3 DEF AbsPhase
<1> QED BY <1>1, <1>4

LEMMA RefineInit == Init => Abs!Init
<1> SUFFICES ASSUME Init PROVE Abs!Init
  OBVIOUS
<1>1. /\ \A w \in Worker, n \in Node : ~Calling(w, n) /\ ~FailedOn(w, n)
      /\ \A n \in Node : state[n] = "DependenciesUnresolved"
  BY DEF Init, Calling, FailedOn
<1>2. AbsPhase = [n \in Node |-> "idle"]
  BY <1>1 DEF AbsPhase, Worker
<1> QED BY <1>2 DEF Init, Abs!Init

LEMMA RefineNext ==
    IInv /\ DiscoveredInv /\ [Next]_vars => [Abs!Next]_(Abs!vars)
<1> SUFFICES ASSUME IInv, DiscoveredInv, [Next]_vars PROVE [Abs!Next]_(Abs!vars)
  OBVIOUS
<1>1. ASSUME NEW w \in Worker, Lock(w) \/ Sleep(w) \/ Exit(w) \/ Cancel(w)
      PROVE  [Abs!Next]_(Abs!vars)
  BY <1>1, RefineQuiet DEF Abs!vars
<1>2. ASSUME NEW w \in Worker, NEW n \in Node, TakeToResolve(w, n) \/ TakeToVisit(w, n)
      PROVE  [Abs!Next]_(Abs!vars)
  BY <1>2, RefineTakeToResolve, RefineTakeToVisit DEF Abs!Next
<1>3. ASSUME NEW w \in Worker,
             Resolved(w) \/ Visited(w) \/ \E err \in Errors : Failed(w, err)
      PROVE  [Abs!Next]_(Abs!vars)
  BY <1>3, RefineResolved, RefineVisited, RefineFailed DEF Abs!Next
<1>4. CASE Return
  BY <1>4, RefineReturn DEF Abs!Next
<1>5. CASE UNCHANGED vars
  <2>1. UNCHANGED <<graph, state, cur, pc, result>>
    BY <1>5 DEF vars, nodeVars
  <2> QED BY <2>1 DEF AbsPhase, FailedOn, Calling, Abs!vars
<1> QED BY <1>1, <1>2, <1>3, <1>4, <1>5 DEF Next, WorkerStep, Terminated

\* Visit, with its workers, queues, counters and condition variables, keeps
\* the promises of its comment: each call at most once per node, in
\* dependency order, none begun after a failure, all of them over when it
\* returns, and a return value that says what happened.
THEOREM VisitKeepsItsContract == Spec => Contract
<1>1. Init => DiscoveredInv
  BY DEF Init, DiscoveredInv
<1>2. Init /\ [][Next]_vars => []DiscoveredInv
  BY <1>1, Invariance, NextDiscovered, PTL DEF Spec
<1>3. IInv /\ DiscoveredInv /\ [Next]_vars => [Abs!Next]_(Abs!vars)
  BY RefineNext
<1> QED BY <1>2, <1>3, Invariance, RefineInit, PTL DEF Spec, Contract, Abs!Spec
=============================================================================
