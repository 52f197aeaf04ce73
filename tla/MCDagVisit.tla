----------------------------- MODULE MCDagVisit -----------------------------
(* Instances of DagVisit for TLC.                                          *)
EXTENDS DagVisit, TLC

CONSTANTS a, b, c, d, r1, r2, v1, v2

\* A diamond whose top names one dependency twice, a chain reached from two
\* ends, a cycle behind a finished node, and a self loop.
Shapes == {
    a :> <<b, c, b>> @@ b :> <<d>> @@ c :> <<d>> @@ d :> << >>,
    a :> <<b>> @@ b :> <<c>> @@ c :> <<d>> @@ d :> << >>,
    a :> <<b, d>> @@ b :> <<c>> @@ c :> <<b, d>> @@ d :> << >>,
    a :> <<b, c, d>> @@ b :> <<b>> @@ c :> << >> @@ d :> << >> }

=============================================================================
