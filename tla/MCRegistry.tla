----------------------------- MODULE MCRegistry -----------------------------
(* Instances of Registry for TLC.                                          *)
EXTENDS Registry, TLC

CONSTANTS s1, s2, r1, r2

\* One of them does not know the password.
TwoPasswords == [c \in Commands |-> IF c = r2 THEN "B" ELSE "A"]
Saves == Permutations(Savers)
=============================================================================
