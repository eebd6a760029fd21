------------------------------ MODULE TileService ------------------------------
(****************************************************************************)
(* What update_map() promises to a location update, whichever thread runs   *)
(* it: a client reads the map and the pose in one step, and in one later    *)
(* step the tile cut from them appears together with the frame it belongs   *)
(* to.  How a client works, what it locks and what it publishes is left to  *)
(* the implementation.                                                      *)
(****************************************************************************)
EXTENDS Integers

CONSTANTS
    Clients,        \* who updates the tile
    Worlds,         \* the maps that may be received
    Origin,         \* where each of them lies
    None            \* no input, cut or tile

VARIABLES
    input,          \* the map and place a tile would be cut from now, or None
    cut,            \* what each client has read and not installed yet, or None
    tile            \* the tile in use with its frame, or None

vars == <<input, cut, tile>>

\* resets is the number of pose estimates that were accepted before.
Input == [world : Worlds, x : Int, resets : Nat]
FrameOf(i) == Origin[i.world] + i.x

Init ==
    /\ input = None
    /\ cut = [c \in Clients |-> None]
    /\ tile = None

\* A map, a pose estimate, or the robot moves; estimates are never taken back.
Change ==
    /\ input' \in Input
    /\ input # None => input'.resets >= input.resets
    /\ UNCHANGED <<cut, tile>>

Read(c) ==
    /\ input # None /\ cut[c] = None
    /\ cut' = [cut EXCEPT ![c] = input]
    /\ UNCHANGED <<input, tile>>

Install(c) ==
    /\ cut[c] # None
    /\ tile' = [cut |-> cut[c], frame |-> FrameOf(cut[c])]
    /\ cut' = [cut EXCEPT ![c] = None]
    /\ UNCHANGED input

Next == Change \/ \E c \in Clients : Read(c) \/ Install(c)

\* What was read is installed in the end.
Safety == Init /\ [][Next]_vars
Spec == Safety /\ \A c \in Clients : WF_vars(Install(c))
=============================================================================
