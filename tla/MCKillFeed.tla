----------------------------- MODULE MCKillFeed -----------------------------
(* Instances of KillFeed for TLC.                                          *)
EXTENDS KillFeed

CONSTANTS p1, p2

\* Discord takes every card, or refuses the second.
OneRefused == {{}, {2}}
=============================================================================
