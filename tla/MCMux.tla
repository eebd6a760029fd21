--------------------------------- MODULE MCMux ---------------------------------
(* Instance of Mux for TLC. *)
EXTENDS Mux, MCGraph
=============================================================================
