---------------------------- MODULE MCMapSwitch ----------------------------
(* An instance of MapSwitch for TLC.                                       *)
EXTENDS MapSwitch

CONSTANTS p1, p2, m1, m2
=============================================================================
