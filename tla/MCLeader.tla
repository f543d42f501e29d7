------------------------------ MODULE MCLeader ------------------------------
(* An instance of Leader for TLC.                                          *)
EXTENDS Leader

CONSTANTS p1, p2
=============================================================================
