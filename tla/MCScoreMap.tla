----------------------------- MODULE MCScoreMap -----------------------------
(* Instances of ScoreMap for TLC.                                          *)
EXTENDS ScoreMap, TLC

CONSTANTS s1, s2
Savers == Permutations({s1, s2})
=============================================================================
