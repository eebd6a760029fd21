------------------------------ MODULE MapTile ------------------------------
(***************************************************************************)
(* How neo_localization_node builds the tile its solver reads: update_map  *)
(* cuts a square of MapSize pixels around the robot out of the world map,  *)
(* halves it MapDownscale times and smooths it NumSmooth times.  The       *)
(* NeoLocalization module takes this as one local step of its threads;     *)
(* here its cells are followed.                                            *)
(***************************************************************************)
EXTENDS GridMap

CONSTANTS Worlds,       \* the occupancy grids the map server may send
          Poses,        \* coordinates of the robot in the world, Sub to a pixel
          MapSize, MapDownscale, NumSmooth      \* parameters of the node

ASSUME TileAssumption == MapSize \in Nat \ {0} /\ MapDownscale \in Nat /\ NumSmooth \in Nat
ASSUME WorldsAssumption == (\A w \in Worlds : IsGrid(w)) /\ Poses \subseteq Int

\* The sides of the tile as it is halved: a pixel is left at the end.  Nothing
\* in the code asks for it; a larger map_downscale leaves an empty grid.
Halved(s) == s[0] = MapSize /\ \A i \in 0 .. MapDownscale - 1 : s[i + 1] = s[i] \div 2
ASSUME SizesAssumption == \E s \in [0 .. MapDownscale -> 1 .. MapSize] : Halved(s)

VARIABLES world, tile, map, pc, count
vars == <<world, tile, map, pc, count>>

\* Tile's pixel (x, y) from the world, whose border is repeated; unknown
\* cells (negative) count as free.
Cell(w, t, x, y) ==
    LET cell == At(w, Clamp(t.x + x, w.size_x), Clamp(t.y + y, w.size_y))
    IN  IF cell < 0 THEN 0 ELSE IF cell < w.unit THEN cell ELSE w.unit

\* The tile's first pixel.  (Slip: the robot in its corner.)
Origin(pose) == Pixel(pose) - MapSize \div 2

Cut(w, t) == Grid(MapSize, MapSize, 1, w.unit, LAMBDA x, y : Cell(w, t, x, y))

Tiles == [x : {Origin(p) : p \in Poses}, y : {Origin(p) : p \in Poses}]
AfterCut == IF MapDownscale > 0 THEN "downscale" ELSE IF NumSmooth > 0 THEN "smooth" ELSE "use"

Init ==
    /\ world \in Worlds
    /\ tile \in Tiles
    /\ map = Cut(world, tile)
    /\ pc = AfterCut
    /\ count = 0

DownscaleMap ==
    /\ pc = "downscale"
    /\ map' = Downscale(map)
    /\ IF count + 1 < MapDownscale
       THEN count' = count + 1 /\ UNCHANGED pc
       ELSE count' = 0 /\ pc' = IF NumSmooth > 0 THEN "smooth" ELSE "use"
    /\ UNCHANGED <<world, tile>>

SmoothMap ==
    /\ pc = "smooth"
    /\ map' = Smooth33(map)
    /\ IF count + 1 < NumSmooth
       THEN count' = count + 1 /\ UNCHANGED pc
       ELSE count' = 0 /\ pc' = "use"
    /\ UNCHANGED <<world, tile>>

\* The next update_map of the same world, wherever the robot is by then; a
\* new world starts like another initial state.
UpdateMap ==
    /\ pc = "use"
    /\ tile' \in Tiles
    /\ map' = Cut(world, tile')
    /\ pc' = AfterCut
    /\ count' = 0
    /\ UNCHANGED world

Next == DownscaleMap \/ SmoothMap \/ UpdateMap
Spec == Init /\ [][Next]_vars

-----------------------------------------------------------------------------
\* Positions of the map from metres within it, as the solver gets them: the
\* first half pixel lies below zero.
MetersOf(n) == {m * map.scale : m \in 0 .. n * Sub - 1}
Positions ==
    {WorldToGrid(map, m) : m \in MetersOf(map.size_x)}
        \X {WorldToGrid(map, m) : m \in MetersOf(map.size_y)}
Ready == pc = "use"

\* A lookup or gradient at any position within the tile or up to two pixels
\* off it, where the scan of a robot at its edge falls, stays in the array.
ReadsInside ==
    \A x \in -2 .. map.size_x + 1, y \in -2 .. map.size_y + 1 :
        CornerIndices(map, x, y) \subseteq 0 .. NumCells(map) - 1

\* What interpolation between pixel centres means: the cells around the
\* position by their distance, the border repeated.
Nearness(i, p) == LET d == i * Sub - p IN IF d < 0 THEN Sub + d ELSE Sub - d
Interpolated(p) ==
    LET Around(q) == {i \in q \div Sub .. q \div Sub + 1 : TRUE}
    IN  SumFunction([c \in Around(p[1]) \X Around(p[2]) |->
            Nearness(c[1], p[1]) * Nearness(c[2], p[2])
              * At(map, Clamp(c[1], map.size_x), Clamp(c[2], map.size_y))])

\* The solver scores a scan point by interpolating the map at its position
\* (bilinear_lookup's comment), from the first pixel's centre on.  Before it,
\* the conversion to int does not follow floorf.
LookupInterpolatesInside ==
    Ready => \A p \in Positions :
        p[1] >= 0 /\ p[2] >= 0 => BilinearLookup(map, p[1], p[2]) = Interpolated(p)

\* Turning the map over its diagonal exchanges the two components of both
\* gradients: neither axis is favoured.
Transposed == Grid(map.size_y, map.size_x, map.scale, map.unit, LAMBDA x, y : At(map, y, x))
GradientTransposes ==
    Ready => LET transposed == Transposed
                 Exchanged(here, there) == there[1] = here[2] /\ there[2] = here[1]
             IN  \A p \in Positions :
                   /\ Exchanged(CalcGradient(map, p[1], p[2]), CalcGradient(transposed, p[2], p[1]))
                   /\ Exchanged(CalcGradient2(map, p[1], p[2]), CalcGradient2(transposed, p[2], p[1]))

\* Summation is the lookup's counterpart: what a value added at a position
\* contributes to the sum of a map's cells times another's is the value times
\* the lookup there.
Empty == [map EXCEPT !.cells = [i \in DOMAIN @ |-> 0]]
SummationAnswersLookup ==
    Ready => LET empty == Empty IN \A p \in Positions :
        LET added == BilinearSummation(empty, p[1], p[2], 1).cells
        IN  SumFunction([i \in DOMAIN map.cells |-> added[i] * map.cells[i]])
              = BilinearLookup(map, p[1], p[2])

\* Halving and smoothing leave an obstacle where it is, to a twentieth of a pixel
\* of the tile: that is how far, at most, its centre of mass is from that of the
\* cells the tile was cut from, as long as they are far enough from the tile's
\* border: two of its pixels, and one for each smoothing.  (The halving moves it
\* a little: the middle of the kernel is less than three times its edge.)
Moment(g, Place(_)) == SumFunction([i \in DOMAIN g.cells |-> g.cells[i] * Place(i)])
MidX(g, i) == (2 * (i % g.size_x) + 1) * g.scale
MidY(g, i) == (2 * (i \div g.size_x) + 1) * g.scale
Reach == (2 + NumSmooth) * map.scale
WellInside(g) ==
    \A i \in DOMAIN g.cells : g.cells[i] > 0 =>
        /\ i % g.size_x \in Reach .. g.size_x - 1 - Reach
        /\ i \div g.size_x \in Reach .. g.size_y - 1 - Reach
\* Two centres of mass, given by moments a of mass m and b of mass n, in half pixels.
Close(a, m, b, n) ==
    LET apart == a * n - b * m
    IN  10 * (IF apart < 0 THEN -apart ELSE apart) <= map.scale * m * n
ObstaclesStay ==
    LET cut == Cut(world, tile)
        mass == Moment(cut, LAMBDA i : 1)
        mapped == Moment(map, LAMBDA i : 1)
    IN  Ready /\ WellInside(cut) =>
          /\ Close(Moment(map, LAMBDA i : MidX(map, i)), mapped,
                   Moment(cut, LAMBDA i : MidX(cut, i)), mass)
          /\ Close(Moment(map, LAMBDA i : MidY(map, i)), mapped,
                   Moment(cut, LAMBDA i : MidY(cut, i)), mass)
=============================================================================
