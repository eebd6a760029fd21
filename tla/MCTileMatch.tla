------------------------------- MODULE MCTileMatch -------------------------------
(* Worlds and scans for TLC. *)
EXTENDS TileMatch, TLC

\* A world of the given sides whose cells are free but for those of marks.
WorldOf(sx, sy, marks) ==
    Grid(sx, sy, 1, 1, LAMBDA x, y :
        IF y * sx + x \in DOMAIN marks THEN marks[y * sx + x] ELSE 0)

\* Two cells amid the world, occupied or unknown, apart or side by side; a wall
\* along each axis.
MCMarks ==
    {(119 :> 1), (119 :> 1) @@ (120 :> 1), (119 :> 1) @@ (134 :> -1),
     (102 :> 1) @@ (136 :> 1), (118 :> 1) @@ (121 :> -1),
     [i \in {9 * 16 + x : x \in 0 .. 15} |-> 1], [i \in {16 * y + 9 : y \in 0 .. 15} |-> 1]}
MCWorlds == {WorldOf(16, 16, marks) : marks \in MCMarks}
MCPoses == {31, 34, 37}

\* Robots in the middle of the tile that see a point ahead and one aside.
MCMatchPoses == {<<5, 7, 0>>, <<7, 7, 1>>, <<5, 6, 2>>, <<7, 6, 3>>}
MCScans == {<<<<1, 0>>, <<2, 1>>>>}
MCFrames == {<<2, -1, 1>>, <<-3, 4, 2>>}
=============================================================================
