------------------------------- MODULE MCThrottle -------------------------------
(* Instance of Throttle for TLC. *)
EXTENDS Throttle, MCGraph
=============================================================================
