-------------------------- MODULE MCServerWorkers --------------------------
(* An instance of ServerWorkers for TLC.                                   *)
EXTENDS ServerWorkers

CONSTANTS i1, i2, i3, h1, h2
=============================================================================
