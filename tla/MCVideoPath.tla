---------------------------- MODULE MCVideoPath ----------------------------
(* VideoPath for TLC: frames without and with FEC units. *)
EXTENDS VideoPath

MCShapes == {[src |-> 2, fec |-> 0], [src |-> 1, fec |-> 2]}
=============================================================================
