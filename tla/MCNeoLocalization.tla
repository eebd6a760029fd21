--------------------------- MODULE MCNeoLocalization ---------------------------
(* Instances of NeoLocalization for TLC. *)
EXTENDS NeoLocalization, TLC

CONSTANTS w1, w2

\* Two grids with different origins.
MCOrigin == (w1 :> 0) @@ (w2 :> 3)
=============================================================================
