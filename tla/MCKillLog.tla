----------------------------- MODULE MCKillLog -----------------------------
(* Bot processes of the killfeed on one short log. *)
EXTENDS KillLog, TLC

CONSTANTS p1, p2

Alike == Permutations(Processes)
=============================================================================
