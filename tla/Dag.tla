-------------------------------- MODULE Dag --------------------------------
(***************************************************************************)
(* The graphs that internal/dag walks.  A DependencyResolver returns, for  *)
(* a node, the list of its direct dependencies; the list may name a node   *)
(* twice (internal/verify returns one entry per directory entry), and      *)
(* nothing stops it from describing a cycle or a self loop.                *)
(***************************************************************************)
EXTENDS Naturals, Sequences

CONSTANTS
    Node,     \* every node any call may mention
    Start,    \* startNodes, the argument of Visit
    Graphs    \* the dependency lists under consideration

ASSUME StartAssumption == Start \subseteq Node
ASSUME GraphsAssumption == \A g \in Graphs : g \in [Node -> Seq(Node)]

\* The dependencies the resolver reports for n in the graph g.
Deps(g, n) == {g[n][i] : i \in DOMAIN g[n]}

\* S contains, with each of its members, that member's dependencies.
Closed(g, S) == \A n \in S : Deps(g, n) \subseteq S

\* The start nodes and their transitive dependencies.
Reachable(g) ==
    {n \in Node : \A S \in SUBSET Node :
                      Start \subseteq S /\ Closed(g, S) => n \in S}

\* Every member of S waits for another member of S: in a finite graph, S
\* holds a cycle.
Knot(g, S) == S # {} /\ \A n \in S : Deps(g, n) \cap S # {}

HasCycle(g, S) == \E K \in SUBSET S : Knot(g, K)
=============================================================================
