---------------------------- MODULE MCPassLease ----------------------------
(* Instances of PassLease for TLC.                                         *)
EXTENDS PassLease, TLC

CONSTANTS p1, p2, i1, i2

Symmetry == Permutations({p1, p2}) \cup Permutations({i1, i2})
=============================================================================
