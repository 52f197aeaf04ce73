----------------------------- MODULE MCBackups -----------------------------
(* Instances of Backups for TLC.                                           *)
EXTENDS Backups, TLC

CONSTANTS p, q

\* Two versions of one directory: the second has a file more.
TwoTrees == "T1" :> {"A"} @@ "T2" :> {"A", "B"}

\* Two directories with the same file.
SharedFile == "T1" :> {"A"} @@ "T2" :> {"A"}

Processes == Permutations(Process)
=============================================================================
