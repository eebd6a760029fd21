---------------------------- MODULE TileMatch_proofs ----------------------------
(* The tile of the solver and scan matching on it, for every size, world and *)
(* scan: reads of the tile stay inside its array, its lookups interpolate;   *)
(* the frames are a group and a step of the solver climbs, turns with the    *)
(* world and does not follow a corridor; the filters leave obstacles where   *)
(* they are.                                                                 *)
EXTENDS TileMatch, Sums_proofs, SequenceTheorems

\* A clamped coordinate is one of the grid's (GridMap.h:163-166).
LEMMA ClampInside ==
    ASSUME NEW n \in Nat \ {0}, NEW i \in Int
    PROVE  Low(i, n) \in 0 .. n - 1 /\ High(i, n) \in 0 .. n - 1
BY DEF Low, High, Clamp

\* A pixel of the grid has its cell in the array.
LEMMA IndexInside ==
    ASSUME NEW g, g.size_x \in Nat \ {0}, g.size_y \in Nat \ {0},
           NEW x \in 0 .. g.size_x - 1, NEW y \in 0 .. g.size_y - 1
    PROVE  Index(g, x, y) \in 0 .. NumCells(g) - 1
<1> DEFINE w == g.size_x
           h == g.size_y
<1>1. w \in Nat \ {0} /\ h \in Nat \ {0} /\ x \in 0 .. w - 1 /\ y \in 0 .. h - 1
  OBVIOUS
<1> HIDE DEF w, h
<1>2. y * w \in Nat /\ y * w <= (h - 1) * w
  BY <1>1, SMT
<1>3. (h - 1) * w = h * w - w /\ h * w \in Nat /\ h * w = w * h
  BY <1>1, SMT
<1>4. y * w + x \in 0 .. w * h - 1
  <2>1. y * w + x >= 0
    BY <1>1, <1>2
  <2>2. y * w + x <= (h * w - w) + (w - 1)
    BY <1>1, <1>2, <1>3
  <2> QED
    BY <1>1, <1>2, <1>3, <2>1, <2>2
<1> QED
  BY <1>4 DEF Index, NumCells, w, h

\* Bilinear access touches the array's cells only, at any coordinate.
THEOREM CornersInside ==
    ASSUME NEW g, g.size_x \in Nat \ {0}, g.size_y \in Nat \ {0},
           NEW x \in Int, NEW y \in Int
    PROVE  CornerIndices(g, x, y) \subseteq 0 .. NumCells(g) - 1
<1>1. /\ Low(x, g.size_x) \in 0 .. g.size_x - 1
      /\ High(x, g.size_x) \in 0 .. g.size_x - 1
      /\ Low(y, g.size_y) \in 0 .. g.size_y - 1
      /\ High(y, g.size_y) \in 0 .. g.size_y - 1
  BY ClampInside
<1> QED
  BY <1>1, IndexInside DEF CornerIndices

-----------------------------------------------------------------------------
\* The sides of the tile while it is built.
Sizes == CHOOSE s \in [0 .. MapDownscale -> 1 .. MapSize] : Halved(s)
Halvings == IF pc = "downscale" THEN count ELSE MapDownscale
SizeInv ==
    /\ pc \in {"downscale", "smooth", "use"}
    /\ count \in Nat
    /\ pc = "downscale" => count < MapDownscale
    /\ map.size_x = Sizes[Halvings] /\ map.size_y = Sizes[Halvings]

LEMMA SizesHalved == Sizes \in [0 .. MapDownscale -> 1 .. MapSize] /\ Halved(Sizes)
BY SizesAssumption DEF Sizes

LEMMA CutSize ==
    ASSUME NEW w, NEW t
    PROVE  Cut(w, t).size_x = MapSize /\ Cut(w, t).size_y = MapSize
BY DEF Cut, Grid

LEMMA SmoothSize ==
    ASSUME NEW g
    PROVE  Smooth33(g).size_x = g.size_x /\ Smooth33(g).size_y = g.size_y
BY DEF Smooth33, Grid

LEMMA DownscaleSize ==
    ASSUME NEW g
    PROVE  Downscale(g).size_x = g.size_x \div 2 /\ Downscale(g).size_y = g.size_y \div 2
BY DEF Downscale, Grid

\* The sides follow the halvings done so far: the inductive invariant.
THEOREM SizeInvariant == Spec => []SizeInv
<1> USE TileAssumption, SizesHalved DEF Halved, Halvings
<1>1. Init => SizeInv
  <2> SUFFICES ASSUME Init PROVE SizeInv
    OBVIOUS
  <2>1. map.size_x = MapSize /\ map.size_y = MapSize
    BY CutSize DEF Init
  <2> QED
    BY <2>1 DEF Init, AfterCut, SizeInv
<1>2. SizeInv /\ [Next]_vars => SizeInv'
  <2> SUFFICES ASSUME SizeInv, [Next]_vars PROVE SizeInv'
    OBVIOUS
  <2>1. CASE DownscaleMap
    <3>1. map'.size_x = map.size_x \div 2 /\ map'.size_y = map.size_y \div 2
      BY <2>1, DownscaleSize DEF DownscaleMap
    <3>2. count \in 0 .. MapDownscale - 1 /\ map.size_x = Sizes[count] /\ map.size_y = Sizes[count]
      BY <2>1 DEF DownscaleMap, SizeInv
    <3>3. map'.size_x = Sizes[count + 1] /\ map'.size_y = Sizes[count + 1]
      BY <3>1, <3>2
    <3>4. CASE count + 1 < MapDownscale
      BY <2>1, <3>2, <3>3, <3>4 DEF DownscaleMap, SizeInv
    <3>5. CASE ~(count + 1 < MapDownscale)
      <4>1. count + 1 = MapDownscale
        BY <3>2, <3>5
      <4>2. count' = 0 /\ pc' \in {"smooth", "use"}
        BY <2>1, <3>5 DEF DownscaleMap
      <4>3. Halvings' = MapDownscale
        BY <4>2
      <4>4. map'.size_x = Sizes[MapDownscale] /\ map'.size_y = Sizes[MapDownscale]
        BY <3>3, <4>1
      <4> QED
        BY <4>2, <4>3, <4>4 DEF SizeInv
    <3> QED
      BY <3>4, <3>5
  <2>2. CASE SmoothMap
    <3>1. map'.size_x = map.size_x /\ map'.size_y = map.size_y
      BY <2>2, SmoothSize DEF SmoothMap
    <3> QED
      BY <2>2, <3>1 DEF SmoothMap, SizeInv
  <2>3. CASE UpdateMap
    <3>1. map'.size_x = MapSize /\ map'.size_y = MapSize
      BY <2>3, CutSize DEF UpdateMap
    <3> QED
      BY <2>3, <3>1 DEF UpdateMap, AfterCut, SizeInv
  <2>4. CASE UNCHANGED vars
    BY <2>4 DEF vars, SizeInv
  <2> QED
    BY <2>1, <2>2, <2>3, <2>4 DEF Next
<1> QED
  BY <1>1, <1>2, PTL DEF Spec

\* Wherever a scan point falls, the solver reads cells of the tile.
THEOREM ReadsInsideHolds == Spec => []ReadsInside
<1>1. SizeInv => ReadsInside
  <2> SUFFICES ASSUME SizeInv,
                      NEW x \in -2 .. map.size_x + 1, NEW y \in -2 .. map.size_y + 1
               PROVE  CornerIndices(map, x, y) \subseteq 0 .. NumCells(map) - 1
    BY DEF ReadsInside
  <2>1. Halvings \in 0 .. MapDownscale
    BY TileAssumption DEF Halvings, SizeInv
  <2>2. Sizes[Halvings] \in Nat \ {0}
    BY <2>1, SizesHalved, TileAssumption
  <2>3. map.size_x \in Nat \ {0} /\ map.size_y \in Nat \ {0}
    BY <2>2 DEF SizeInv
  <2>4. x \in Int /\ y \in Int
    BY <2>3
  <2> QED
    BY <2>3, <2>4, CornersInside
<1> QED
  BY <1>1, SizeInvariant, PTL

-----------------------------------------------------------------------------
(* Grids.                                                                   *)

\* A coordinate and its pixel: the row-major index of a pixel.
LEMMA Division ==
    ASSUME NEW p \in Int, NEW n \in Nat \ {0}
    PROVE  /\ p \div n \in Int /\ p % n \in 0 .. n - 1 /\ p = n * (p \div n) + (p % n)
           /\ p \in Nat => p \div n \in Nat
OBVIOUS

LEMMA IndexOfPixel ==
    ASSUME NEW w \in Nat \ {0}, NEW x \in 0 .. w - 1, NEW y \in Nat
    PROVE  (y * w + x) % w = x /\ (y * w + x) \div w = y
OBVIOUS

LEMMA PixelOfIndex ==
    ASSUME NEW w \in Nat \ {0}, NEW h \in Nat \ {0}, NEW i \in 0 .. w * h - 1
    PROVE  i % w \in 0 .. w - 1 /\ i \div w \in 0 .. h - 1 /\ (i \div w) * w + (i % w) = i
OBVIOUS

LEMMA GridTypes ==
    ASSUME NEW g, IsGrid(g)
    PROVE  /\ g.size_x \in Nat \ {0} /\ g.size_y \in Nat \ {0}
           /\ g.scale \in Nat \ {0} /\ g.unit \in Nat \ {0}
           /\ DOMAIN g.cells = 0 .. g.size_x * g.size_y - 1
           /\ \A i \in DOMAIN g.cells : g.cells[i] \in Int
BY DEF IsGrid, NumCells

\* Every pixel has a value, and a clamped coordinate a pixel.
LEMMA AtInside ==
    ASSUME NEW g, IsGrid(g), NEW x \in 0 .. g.size_x - 1, NEW y \in 0 .. g.size_y - 1
    PROVE  Index(g, x, y) \in DOMAIN g.cells /\ At(g, x, y) \in Int
<1>1. g.size_x \in Nat \ {0} /\ g.size_y \in Nat \ {0}
  BY GridTypes
<1>2. Index(g, x, y) \in 0 .. g.size_x * g.size_y - 1
  BY <1>1, IndexInside DEF NumCells
<1>3. Index(g, x, y) \in DOMAIN g.cells
  BY <1>2, GridTypes
<1> QED
  BY <1>3, GridTypes DEF At

LEMMA Clamped ==
    ASSUME NEW n \in Nat \ {0}, NEW i \in Int
    PROVE  Clamp(i, n) \in 0 .. n - 1 /\ (i \in 0 .. n - 1 => Clamp(i, n) = i)
BY DEF Clamp

\* Weighted sums over pairs of taps of integers are integers.
LEMMA FilterSum ==
    ASSUME NEW T, IsFiniteSet(T), NEW f, \A t \in T \X T : f[t] \in Int
    PROVE  SumFunctionOnSet(f, T \X T) \in Int
<1>1. IsFiniteSet(T \X T)
  BY FS_Product
<1> QED
  BY <1>1, SumType

LEMMA FilteredType ==
    ASSUME NEW g, IsGrid(g), NEW kernel, IsFiniteSet(DOMAIN kernel), DOMAIN kernel \subseteq Int,
           \A t \in DOMAIN kernel : kernel[t] \in Int,
           NEW x \in Int, NEW y \in Int
    PROVE  Filtered(g, kernel, x, y) \in Int
<1> DEFINE T == DOMAIN kernel
           f == [t \in T \X T |-> kernel[t[1]] * kernel[t[2]]
                   * At(g, Clamp(x + t[1], g.size_x), Clamp(y + t[2], g.size_y))]
<1>1. ASSUME NEW t \in T \X T PROVE f[t] \in Int
  <2>1. t[1] \in T /\ t[2] \in T /\ x + t[1] \in Int /\ y + t[2] \in Int
    OBVIOUS
  <2>2. /\ Clamp(x + t[1], g.size_x) \in 0 .. g.size_x - 1
        /\ Clamp(y + t[2], g.size_y) \in 0 .. g.size_y - 1
    BY <2>1, Clamped, GridTypes
  <2>3. At(g, Clamp(x + t[1], g.size_x), Clamp(y + t[2], g.size_y)) \in Int
    BY <2>2, AtInside
  <2> QED
    BY <2>1, <2>3
<1>2. Filtered(g, kernel, x, y) = SumFunctionOnSet(f, T \X T)
  BY DEF Filtered, SumFunction
<1> HIDE DEF f
<1> QED
  BY <1>1, <1>2, FilterSum

\* The kernels' taps.
LEMMA Kernels ==
    /\ DOMAIN Kernel33 = -1 .. 1 /\ DOMAIN Kernel44 = -1 .. 2
    /\ IsFiniteSet(-1 .. 1) /\ IsFiniteSet(-1 .. 2)
    /\ \A t \in -1 .. 1 : Kernel33[t] \in Int
    /\ \A t \in -1 .. 2 : Kernel44[t] \in Int
<1>1. IsFiniteSet(-1 .. 1) /\ IsFiniteSet(-1 .. 2)
  <2>1. -1 \in Int /\ 1 \in Int /\ 2 \in Int
    OBVIOUS
  <2> QED
    BY <2>1, FS_Interval
<1> QED
  BY <1>1 DEF Kernel33, Kernel44

\* Each step of building the tile makes a grid of a grid.
LEMMA CutIsGrid ==
    ASSUME NEW w \in Worlds, NEW t, t.x \in Int, t.y \in Int
    PROVE  IsGrid(Cut(w, t))
<1>1. IsGrid(w) /\ MapSize \in Nat \ {0}
  BY WorldsAssumption, TileAssumption
<1>2. ASSUME NEW x \in Int, NEW y \in Int PROVE Cell(w, t, x, y) \in Int
  <2>1. At(w, Clamp(t.x + x, w.size_x), Clamp(t.y + y, w.size_y)) \in Int
    <3>1. t.x + x \in Int /\ t.y + y \in Int
      OBVIOUS
    <3>2. /\ Clamp(t.x + x, w.size_x) \in 0 .. w.size_x - 1
          /\ Clamp(t.y + y, w.size_y) \in 0 .. w.size_y - 1
      BY <1>1, <3>1, Clamped, GridTypes
    <3> QED
      BY <1>1, <3>2, AtInside
  <2> QED
    BY <1>1, <2>1, GridTypes DEF Cell
<1> DEFINE cells == [i \in 0 .. MapSize * MapSize - 1 |-> Cell(w, t, i % MapSize, i \div MapSize)]
<1>3. cells \in [0 .. MapSize * MapSize - 1 -> Int]
  <2> SUFFICES ASSUME NEW i \in 0 .. MapSize * MapSize - 1
               PROVE  Cell(w, t, i % MapSize, i \div MapSize) \in Int
    OBVIOUS
  <2>1. i \in Int
    BY <1>1
  <2> QED
    BY <1>1, <1>2, <2>1, Division
<1>4. Cut(w, t) = [size_x |-> MapSize, size_y |-> MapSize, scale |-> 1, unit |-> w.unit,
                   cells |-> cells]
  BY DEF Cut, Grid
<1> HIDE DEF cells
<1> QED
  BY <1>1, <1>3, <1>4, GridTypes DEF IsGrid, NumCells

LEMMA SmoothIsGrid == ASSUME NEW g, IsGrid(g) PROVE IsGrid(Smooth33(g))
<1>1. \A x, y \in Int : Filtered(g, Kernel33, x, y) \in Int
  BY Kernels, FilteredType
<1>2. \A i \in 0 .. g.size_x * g.size_y - 1 :
        Filtered(g, Kernel33, i % g.size_x, i \div g.size_x) \in Int
  <2> SUFFICES ASSUME NEW i \in 0 .. g.size_x * g.size_y - 1
               PROVE  Filtered(g, Kernel33, i % g.size_x, i \div g.size_x) \in Int
    OBVIOUS
  <2>1. i \in Int /\ g.size_x \in Nat \ {0}
    BY GridTypes
  <2>2. i % g.size_x \in Int /\ i \div g.size_x \in Int
    <3> DEFINE n == g.size_x
    <3>1. i \in Int /\ n \in Nat \ {0}
      BY <2>1
    <3> HIDE DEF n
    <3>2. i % n \in Int /\ i \div n \in Int
      BY <3>1
    <3> QED
      BY <3>2 DEF n
  <2> QED
    BY <1>1, <2>2
<1>3. 49 * g.unit \in Nat \ {0}
  BY GridTypes
<1> QED
  BY <1>2, <1>3, GridTypes DEF Smooth33, Grid, IsGrid, NumCells

LEMMA DownscaleIsGrid ==
    ASSUME NEW g, IsGrid(g), g.size_x \div 2 > 0, g.size_y \div 2 > 0
    PROVE  IsGrid(Downscale(g))
<1> DEFINE w == g.size_x \div 2
           h == g.size_y \div 2
<1>1. w \in Nat \ {0} /\ h \in Nat \ {0}
  BY GridTypes
<1>2. \A x, y \in Int : Filtered(g, Kernel44, x, y) \in Int
  BY Kernels, FilteredType
<1>3. \A i \in 0 .. w * h - 1 : Filtered(g, Kernel44, 2 * (i % w), 2 * (i \div w)) \in Int
  <2> SUFFICES ASSUME NEW i \in 0 .. w * h - 1
               PROVE  Filtered(g, Kernel44, 2 * (i % w), 2 * (i \div w)) \in Int
    OBVIOUS
  <2>1. i \in Int
    BY <1>1
  <2>2. 2 * (i % w) \in Int /\ 2 * (i \div w) \in Int
    <3> HIDE DEF w
    <3> QED
      BY <1>1, <2>1, Division
  <2> QED
    BY <1>2, <2>2
<1>4. 2704 * g.unit \in Nat \ {0} /\ 2 * g.scale \in Nat \ {0}
  BY GridTypes
<1> QED
  BY <1>1, <1>3, <1>4 DEF Downscale, Grid, IsGrid, NumCells

\* The tile is a grid at every step: what its lookups and filters read are
\* integers of its array.
THEOREM TileIsGrid == Spec => []IsGrid(map)
<1> DEFINE Inv == IsGrid(map) /\ world \in Worlds
<1>1. \A t \in Tiles : t.x \in Int /\ t.y \in Int
  <2>1. \A p \in Poses : Origin(p) \in Int
    BY WorldsAssumption, SubAssumption, TileAssumption, Division DEF Origin, Pixel
  <2> QED
    BY <2>1 DEF Tiles
<1>2. Init => Inv
  BY <1>1, CutIsGrid DEF Init
<1>3. Inv /\ SizeInv /\ SizeInv' /\ [Next]_vars => Inv'
  <2> SUFFICES ASSUME Inv, SizeInv, SizeInv', [Next]_vars PROVE Inv'
    OBVIOUS
  <2>1. CASE DownscaleMap
    <3>1. map' = Downscale(map) /\ world' = world
      BY <2>1 DEF DownscaleMap
    <3>2. Halvings' \in 0 .. MapDownscale
      BY TileAssumption DEF Halvings, SizeInv
    <3>3. map'.size_x > 0 /\ map'.size_y > 0
      BY <3>2, SizesHalved, TileAssumption DEF SizeInv
    <3> QED
      BY <3>1, <3>3, DownscaleSize, DownscaleIsGrid
  <2>2. CASE SmoothMap
    BY <2>2, SmoothIsGrid DEF SmoothMap
  <2>3. CASE UpdateMap
    BY <2>3, <1>1, CutIsGrid DEF UpdateMap
  <2>4. CASE UNCHANGED vars
    BY <2>4 DEF vars
  <2> QED
    BY <2>1, <2>2, <2>3, <2>4 DEF Next
<1> QED
  BY <1>2, <1>3, SizeInvariant, PTL DEF Spec

-----------------------------------------------------------------------------
(* Lookups.                                                                 *)

\* The values of the four pixels a coordinate lies between.
Corners(g, x, y) ==
    [ll |-> At(g, Low(x, g.size_x), Low(y, g.size_y)),
     hl |-> At(g, High(x, g.size_x), Low(y, g.size_y)),
     lh |-> At(g, Low(x, g.size_x), High(y, g.size_y)),
     hh |-> At(g, High(x, g.size_x), High(y, g.size_y))]
Mixed(c, a, b) ==
    (Sub - a) * (Sub - b) * c.ll + a * (Sub - b) * c.hl + (Sub - a) * b * c.lh + a * b * c.hh

LEMMA LookupMixes ==
    ASSUME NEW g, IsGrid(g), NEW x \in Int, NEW y \in Int, NEW a \in Int, NEW b \in Int
    PROVE  /\ Corners(g, x, y) \in [ll : Int, hl : Int, lh : Int, hh : Int]
           /\ BilinearLookupEx(g, x, y, a, b) = Mixed(Corners(g, x, y), a, b)
           /\ BilinearLookupEx(g, x, y, a, b) \in Int
<1>1. /\ Low(x, g.size_x) \in 0 .. g.size_x - 1 /\ High(x, g.size_x) \in 0 .. g.size_x - 1
      /\ Low(y, g.size_y) \in 0 .. g.size_y - 1 /\ High(y, g.size_y) \in 0 .. g.size_y - 1
  BY GridTypes, ClampInside
<1>2. Corners(g, x, y) \in [ll : Int, hl : Int, lh : Int, hh : Int]
  BY <1>1, AtInside DEF Corners
<1>3. BilinearLookupEx(g, x, y, a, b) = Mixed(Corners(g, x, y), a, b)
  BY DEF BilinearLookupEx, Weighted, Mixed, Corners, At
<1>4. \A c \in [ll : Int, hl : Int, lh : Int, hh : Int] : Mixed(c, a, b) \in Int
  BY SubAssumption DEF Mixed
<1> QED
  BY <1>2, <1>3, <1>4

\* The coordinates the solver reads at.
LEMMA PositionTypes ==
    ASSUME IsGrid(map), NEW p \in Positions
    PROVE  /\ p[1] \in Int /\ p[2] \in Int
           /\ Pixel(p[1]) \in Int /\ Pixel(p[2]) \in Int
           /\ Fraction(p[1]) \in 0 .. Sub - 1 /\ Fraction(p[2]) \in 0 .. Sub - 1
<1>1. \A n \in Nat : \A m \in MetersOf(n) : WorldToGrid(map, m) \in Int
  <2> SUFFICES ASSUME NEW n \in Nat, NEW k \in 0 .. n * Sub - 1
               PROVE  WorldToGrid(map, k * map.scale) \in Int
    BY DEF MetersOf
  <2> DEFINE s == map.scale
  <2>1. s \in Nat \ {0}
    BY GridTypes
  <2>2. k * s \in Int
    BY <2>1, SubAssumption
  <2> HIDE DEF s
  <2>3. (k * s) \div s \in Int /\ Sub \div 2 \in Int
    BY <2>1, <2>2, SubAssumption, Division
  <2> QED
    BY <2>3 DEF WorldToGrid, s
<1>2. p[1] \in Int /\ p[2] \in Int
  BY <1>1, GridTypes DEF Positions
<1>3. \A q \in Int : Pixel(q) \in Int /\ Fraction(q) \in 0 .. Sub - 1
  BY SubAssumption, Division DEF Pixel, Fraction
<1> QED
  BY <1>2, <1>3

\* From the first pixel's centre on the pixels a lookup reads are the nearest.
LEMMA LookupNearest ==
    ASSUME NEW n \in Nat \ {0}, NEW p \in Nat
    PROVE  /\ Low(Pixel(p), n) = Clamp(p \div Sub, n)
           /\ High(Pixel(p), n) = Clamp(p \div Sub + 1, n)
           /\ Nearness(p \div Sub, p) = Sub - Fraction(p)
           /\ Nearness(p \div Sub + 1, p) = Fraction(p)
<1> DEFINE x == p \div Sub
           a == p % Sub
<1>1. x \in Nat /\ a \in 0 .. Sub - 1 /\ p = Sub * x + a /\ Sub \in Nat \ {0}
  <2>1. Sub \in Nat \ {0} /\ p \in Int
    BY SubAssumption
  <2> QED
    BY <2>1, Division, Zenon
<1>2. Low(x, n) = Clamp(x, n) /\ High(x, n) = Clamp(x + 1, n)
  <2> HIDE DEF x
  <2> QED
    BY <1>1 DEF Low, High, Clamp
<1>3. x * Sub - p = -a /\ (x + 1) * Sub - p = Sub - a
  <2> HIDE DEF x, a
  <2>1. x * Sub = Sub * x /\ (x + 1) * Sub = Sub * x + Sub /\ Sub * x \in Int
    BY <1>1
  <2> QED
    BY <1>1, <2>1
<1>4. Nearness(x, p) = Sub - a /\ Nearness(x + 1, p) = a
  <2> HIDE DEF x, a
  <2> QED
    BY <1>1, <1>3 DEF Nearness
<1> QED
  BY <1>2, <1>4 DEF Pixel, Fraction

\* The value of a lookup is the one that interpolation means, wherever the
\* conversion to int follows floorf.
THEOREM LookupInterpolatesInsideHolds == Spec => []LookupInterpolatesInside
<1>1. IsGrid(map) => LookupInterpolatesInside
  <2> SUFFICES ASSUME IsGrid(map), NEW p \in Positions, p[1] >= 0, p[2] >= 0
               PROVE  BilinearLookup(map, p[1], p[2]) = Interpolated(p)
    BY DEF LookupInterpolatesInside
  <2> DEFINE x == p[1] \div Sub
             y == p[2] \div Sub
             a == Fraction(p[1])
             b == Fraction(p[2])
             f == [c \in {x, x + 1} \X {y, y + 1} |->
                     Nearness(c[1], p[1]) * Nearness(c[2], p[2])
                       * At(map, Clamp(c[1], map.size_x), Clamp(c[2], map.size_y))]
             corners == Corners(map, Pixel(p[1]), Pixel(p[2]))
  <2>1. p[1] \in Nat /\ p[2] \in Nat /\ x \in Int /\ y \in Int /\ a \in Int /\ b \in Int
        /\ Pixel(p[1]) \in Int /\ Pixel(p[2]) \in Int
    <3>1. /\ p[1] \in Int /\ p[2] \in Int /\ a \in Int /\ b \in Int
          /\ Pixel(p[1]) \in Int /\ Pixel(p[2]) \in Int
      BY PositionTypes, SubAssumption
    <3>2. p[1] \in Nat /\ p[2] \in Nat /\ Sub \in Nat \ {0}
      BY <3>1, SubAssumption
    <3>3. x \in Int /\ y \in Int
      BY <3>1, <3>2, Division, Zenon
    <3> QED
      BY <3>1, <3>2, <3>3
  <2>2. Interpolated(p) = SumFunctionOnSet(f, {x, x + 1} \X {y, y + 1})
    <3>1. {i \in x .. x + 1 : TRUE} = {x, x + 1} /\ {i \in y .. y + 1 : TRUE} = {y, y + 1}
      <4> HIDE DEF x, y
      <4> QED
        BY <2>1
    <3> QED
      BY <3>1 DEF Interpolated, SumFunction
  <2>3. /\ f[<<x, y>>] = (Sub - a) * (Sub - b) * corners.ll
        /\ f[<<x + 1, y>>] = a * (Sub - b) * corners.hl
        /\ f[<<x, y + 1>>] = (Sub - a) * b * corners.lh
        /\ f[<<x + 1, y + 1>>] = a * b * corners.hh
    <3>1. map.size_x \in Nat \ {0} /\ map.size_y \in Nat \ {0}
      BY GridTypes
    <3>2. /\ Low(Pixel(p[1]), map.size_x) = Clamp(x, map.size_x)
          /\ High(Pixel(p[1]), map.size_x) = Clamp(x + 1, map.size_x)
          /\ Nearness(x, p[1]) = Sub - a /\ Nearness(x + 1, p[1]) = a
      BY <2>1, <3>1, LookupNearest
    <3>3. /\ Low(Pixel(p[2]), map.size_y) = Clamp(y, map.size_y)
          /\ High(Pixel(p[2]), map.size_y) = Clamp(y + 1, map.size_y)
          /\ Nearness(y, p[2]) = Sub - b /\ Nearness(y + 1, p[2]) = b
      BY <2>1, <3>1, LookupNearest
    <3> HIDE DEF x, y, a, b
    <3> QED
      BY <3>2, <3>3 DEF Corners
  <2>4. BilinearLookup(map, p[1], p[2]) = Mixed(corners, a, b)
        /\ corners \in [ll : Int, hl : Int, lh : Int, hh : Int]
    BY <2>1, LookupMixes DEF BilinearLookup
  <2> HIDE DEF x, y, a, b, f, corners
  <2>5. \A c \in {x, x + 1} \X {y, y + 1} : f[c] \in Int
    <3>1. f[<<x, y>>] \in Int /\ f[<<x + 1, y>>] \in Int
          /\ f[<<x, y + 1>>] \in Int /\ f[<<x + 1, y + 1>>] \in Int
      BY <2>1, <2>3, <2>4, SubAssumption
    <3> QED
      BY <3>1
  <2>6. SumFunctionOnSet(f, {x, x + 1} \X {y, y + 1})
          = f[<<x, y>>] + f[<<x + 1, y>>] + f[<<x, y + 1>>] + f[<<x + 1, y + 1>>]
    BY <2>1, <2>5, SumOfSquare
  <2> QED
    BY <2>2, <2>3, <2>4, <2>6 DEF Mixed
<1> QED
  BY <1>1, TileIsGrid, PTL

\* A weight at one index of an array sums to the weighted value there.
LEMMA SumOfSpike ==
    ASSUME NEW D, NEW cells, NEW k \in D, NEW w \in Int, NEW f,
           IsFiniteSet(D), \A i \in D : cells[i] \in Int,
           \A i \in D : f[i] = IF k = i THEN w * cells[i] ELSE 0
    PROVE  (\A i \in D : f[i] \in Int) /\ SumFunctionOnSet(f, D) = w * cells[k]
<1>1. \A i \in D : f[i] \in Int
  OBVIOUS
<1>2. f[k] = w * cells[k] /\ \A i \in D : i # k => f[i] = 0
  OBVIOUS
<1> QED
  BY <1>1, <1>2, SumOfOne

\* A map without obstacles is a grid too.
LEMMA EmptyIsGrid ==
    ASSUME IsGrid(map)
    PROVE  /\ IsGrid(Empty) /\ Empty.size_x = map.size_x /\ Empty.size_y = map.size_y
           /\ Empty.cells = [i \in DOMAIN map.cells |-> 0]
<1> DEFINE n == NumCells(map)
           zeros == [i \in 0 .. n - 1 |-> 0]
<1>1. DOMAIN map.cells = 0 .. n - 1
  BY DEF IsGrid
<1>2. Empty = [map EXCEPT !.cells = zeros]
  BY <1>1 DEF Empty
<1>3. zeros \in [0 .. n - 1 -> Int]
  OBVIOUS
<1> HIDE DEF zeros
<1>4. /\ Empty.size_x = map.size_x /\ Empty.size_y = map.size_y /\ Empty.cells = zeros
      /\ Empty \in [size_x : Nat \ {0}, size_y : Nat \ {0}, scale : Nat \ {0}, unit : Nat \ {0},
                    cells : [0 .. n - 1 -> Int]]
  BY <1>2, <1>3 DEF IsGrid
<1>5. NumCells(Empty) = n
  BY <1>4 DEF NumCells
<1> QED
  BY <1>1, <1>4, <1>5 DEF IsGrid, zeros

\* What summation adds to a cell: the weight of each corner that it is.
Spread(g, x, y, a, b, i) ==
    (IF Index(g, Low(x, g.size_x), Low(y, g.size_y)) = i THEN (Sub - a) * (Sub - b) ELSE 0)
      + (IF Index(g, High(x, g.size_x), Low(y, g.size_y)) = i THEN a * (Sub - b) ELSE 0)
      + (IF Index(g, Low(x, g.size_x), High(y, g.size_y)) = i THEN (Sub - a) * b ELSE 0)
      + (IF Index(g, High(x, g.size_x), High(y, g.size_y)) = i THEN a * b ELSE 0)

LEMMA SummationSpreads ==
    ASSUME NEW g, IsGrid(g), NEW p \in Int, NEW q \in Int, NEW value \in Int,
           NEW i \in DOMAIN g.cells
    PROVE  BilinearSummation(g, p, q, value).cells[i]
             = g.cells[i] + value * Spread(g, Pixel(p), Pixel(q), Fraction(p), Fraction(q), i)
BY DEF BilinearSummation, Weighted, Spread

\* What a value added at a position contributes is the value times the lookup.
THEOREM SummationAnswersLookupHolds == Spec => []SummationAnswersLookup
<1>1. IsGrid(map) => SummationAnswersLookup
  <2> SUFFICES ASSUME IsGrid(map), NEW p \in Positions
               PROVE  SumFunction([i \in DOMAIN map.cells |->
                          BilinearSummation(Empty, p[1], p[2], 1).cells[i] * map.cells[i]])
                        = BilinearLookup(map, p[1], p[2])
    BY DEF SummationAnswersLookup
  <2> DEFINE D == DOMAIN map.cells
             x == Pixel(p[1])  y == Pixel(p[2])
             a == Fraction(p[1])  b == Fraction(p[2])
             k1 == Index(map, Low(x, map.size_x), Low(y, map.size_y))
             k2 == Index(map, High(x, map.size_x), Low(y, map.size_y))
             k3 == Index(map, Low(x, map.size_x), High(y, map.size_y))
             k4 == Index(map, High(x, map.size_x), High(y, map.size_y))
             w1 == (Sub - a) * (Sub - b)
             w2 == a * (Sub - b)
             w3 == (Sub - a) * b
             w4 == a * b
             Spike(k, w) == [i \in D |-> IF k = i THEN w * map.cells[i] ELSE 0]
             added == BilinearSummation(Empty, p[1], p[2], 1).cells
             h == [i \in D |-> added[i] * map.cells[i]]
  <2>1. x \in Int /\ y \in Int /\ a \in Int /\ b \in Int
    BY PositionTypes
  <2>2. k1 \in D /\ k2 \in D /\ k3 \in D /\ k4 \in D
    <3>1. /\ Low(x, map.size_x) \in 0 .. map.size_x - 1 /\ High(x, map.size_x) \in 0 .. map.size_x - 1
          /\ Low(y, map.size_y) \in 0 .. map.size_y - 1 /\ High(y, map.size_y) \in 0 .. map.size_y - 1
      BY <2>1, GridTypes, ClampInside
    <3> HIDE DEF x, y
    <3> QED
      BY <3>1, AtInside
  <2>3. IsFiniteSet(D) /\ \A i \in D : map.cells[i] \in Int
    <3> DEFINE n == map.size_x * map.size_y - 1
    <3>1. 0 \in Int /\ n \in Int /\ D = 0 .. n /\ \A i \in D : map.cells[i] \in Int
      BY GridTypes
    <3> HIDE DEF n, D
    <3> QED
      BY <3>1, FS_Interval
  <2>4. w1 \in Int /\ w2 \in Int /\ w3 \in Int /\ w4 \in Int
    <3> HIDE DEF a, b
    <3> QED
      BY <2>1, SubAssumption
  <2>5. BilinearLookup(map, p[1], p[2])
          = w1 * map.cells[k1] + w2 * map.cells[k2] + w3 * map.cells[k3] + w4 * map.cells[k4]
    BY DEF BilinearLookup, BilinearLookupEx, Weighted
  <2>6. ASSUME NEW i \in D
        PROVE  added[i] = (IF k1 = i THEN w1 ELSE 0) + (IF k2 = i THEN w2 ELSE 0)
                            + (IF k3 = i THEN w3 ELSE 0) + (IF k4 = i THEN w4 ELSE 0)
    <3> DEFINE e == Empty
    <3>1. /\ e.size_x = map.size_x /\ e.size_y = map.size_y
          /\ e.cells = [j \in D |-> 0] /\ IsGrid(e)
      BY EmptyIsGrid
    <3> HIDE DEF e
    <3>2. e.cells[i] = 0 /\ i \in DOMAIN e.cells
      BY <3>1
    <3>3. p[1] \in Int /\ p[2] \in Int /\ 1 \in Int
      BY PositionTypes
    <3>4. added[i] = e.cells[i] + 1 * Spread(e, x, y, a, b, i)
      <4>1. BilinearSummation(e, p[1], p[2], 1).cells[i] = e.cells[i] + 1 * Spread(e, x, y, a, b, i)
        BY <3>1, <3>2, <3>3, SummationSpreads
      <4> QED
        BY <4>1 DEF e
    <3> HIDE DEF x, y, a, b
    <3>5. Spread(e, x, y, a, b, i)
            = (IF k1 = i THEN w1 ELSE 0) + (IF k2 = i THEN w2 ELSE 0)
                + (IF k3 = i THEN w3 ELSE 0) + (IF k4 = i THEN w4 ELSE 0)
      BY <3>1 DEF Spread, Index
    <3> HIDE DEF w1, w2, w3, w4, k1, k2, k3, k4, added
    <3>6. Spread(e, x, y, a, b, i) \in Int
      BY <2>4, <3>5
    <3> QED
      BY <3>2, <3>4, <3>5, <3>6
  <2>7. \A i \in D : h[i] = Spike(k1, w1)[i] + Spike(k2, w2)[i] + Spike(k3, w3)[i] + Spike(k4, w4)[i]
    <3> SUFFICES ASSUME NEW i \in D
                 PROVE  added[i] * map.cells[i]
                          = Spike(k1, w1)[i] + Spike(k2, w2)[i] + Spike(k3, w3)[i] + Spike(k4, w4)[i]
      OBVIOUS
    <3> DEFINE v(k, w) == IF k = i THEN w ELSE 0
    <3>1. added[i] = v(k1, w1) + v(k2, w2) + v(k3, w3) + v(k4, w4)
      BY <2>6
    <3>2. \A k \in D, w \in Int : v(k, w) \in Int /\ Spike(k, w)[i] = v(k, w) * map.cells[i]
      BY <2>3
    <3>3. \A q, r, s, t, c \in Int : (q + r + s + t) * c = q * c + r * c + s * c + t * c
      OBVIOUS
    <3> HIDE DEF v, Spike, w1, w2, w3, w4, k1, k2, k3, k4, added, D
    <3>4. /\ v(k1, w1) \in Int /\ Spike(k1, w1)[i] = v(k1, w1) * map.cells[i]
          /\ v(k2, w2) \in Int /\ Spike(k2, w2)[i] = v(k2, w2) * map.cells[i]
          /\ v(k3, w3) \in Int /\ Spike(k3, w3)[i] = v(k3, w3) * map.cells[i]
          /\ v(k4, w4) \in Int /\ Spike(k4, w4)[i] = v(k4, w4) * map.cells[i]
      BY <2>2, <2>4, <3>2
    <3>5. map.cells[i] \in Int
      BY <2>3
    <3> QED
      BY <3>1, <3>3, <3>4, <3>5
  <2> HIDE DEF w1, w2, w3, w4, k1, k2, k3, k4, D
  <2>8. \A k \in D, w \in Int : /\ \A i \in D : Spike(k, w)[i] \in Int
                                /\ SumFunctionOnSet(Spike(k, w), D) = w * map.cells[k]
    <3> SUFFICES ASSUME NEW k \in D, NEW w \in Int
                 PROVE  /\ \A i \in D : Spike(k, w)[i] \in Int
                        /\ SumFunctionOnSet(Spike(k, w), D) = w * map.cells[k]
      OBVIOUS
    <3> DEFINE f == Spike(k, w)
    <3>1. \A i \in D : f[i] = IF k = i THEN w * map.cells[i] ELSE 0
      OBVIOUS
    <3> HIDE DEF f
    <3> DEFINE cells == map.cells
    <3>2. (\A i \in D : cells[i] \in Int) /\ \A i \in D : f[i] = IF k = i THEN w * cells[i] ELSE 0
      BY <2>3, <3>1
    <3> HIDE DEF cells
    <3>3. \A i \in D : f[i] \in Int
      BY <3>2
    <3>4. SumFunctionOnSet(f, D) = w * cells[k]
      BY <2>3, <3>2, SumOfSpike
    <3> QED
      BY <3>3, <3>4 DEF f, cells
  <2>9. SumFunction(h) = SumFunctionOnSet(h, D)
    BY DEF SumFunction, D
  <2> HIDE DEF Spike, h
  <2>10. SumFunctionOnSet(h, D)
           = SumFunctionOnSet(Spike(k1, w1), D) + SumFunctionOnSet(Spike(k2, w2), D)
               + SumFunctionOnSet(Spike(k3, w3), D) + SumFunctionOnSet(Spike(k4, w4), D)
    <3>1. \A i \in D : /\ Spike(k1, w1)[i] \in Int /\ Spike(k2, w2)[i] \in Int
                       /\ Spike(k3, w3)[i] \in Int /\ Spike(k4, w4)[i] \in Int
      BY <2>2, <2>4, <2>8
    <3> QED
      BY <2>3, <2>7, <3>1, SumOfFourFunctions
  <2>11. SumFunction(h) = BilinearLookup(map, p[1], p[2])
    BY <2>2, <2>4, <2>5, <2>8, <2>9, <2>10
  <2> QED
    BY <2>11 DEF h, D
<1> QED
  BY <1>1, TileIsGrid, PTL

-----------------------------------------------------------------------------
(* Gradients.                                                               *)

\* Over the diagonal ...
LEMMA TransposedGrid ==
    ASSUME IsGrid(map)
    PROVE  /\ IsGrid(Transposed)
           /\ Transposed.size_x = map.size_y /\ Transposed.size_y = map.size_x
           /\ \A x \in 0 .. map.size_x - 1 : \A y \in 0 .. map.size_y - 1 :
                At(Transposed, y, x) = At(map, x, y)
<1> DEFINE w == map.size_x
           h == map.size_y
           cells == [i \in 0 .. h * w - 1 |-> At(map, i \div h, i % h)]
<1>1. w \in Nat \ {0} /\ h \in Nat \ {0}
  BY GridTypes
<1>2. Transposed = [size_x |-> h, size_y |-> w, scale |-> map.scale, unit |-> map.unit,
                    cells |-> cells]
  BY DEF Transposed, Grid
<1>3. cells \in [0 .. h * w - 1 -> Int]
  <2> SUFFICES ASSUME NEW i \in 0 .. h * w - 1 PROVE At(map, i \div h, i % h) \in Int
    OBVIOUS
  <2>1. i \div h \in 0 .. w - 1 /\ i % h \in 0 .. h - 1
    <3> HIDE DEF w, h
    <3> QED
      BY <1>1, PixelOfIndex
  <2> QED
    BY <2>1, AtInside
<1>4. ASSUME NEW x \in 0 .. w - 1, NEW y \in 0 .. h - 1
      PROVE  cells[x * h + y] = At(map, x, y)
  <2>1. x * h + y \in 0 .. h * w - 1 /\ (x * h + y) \div h = x /\ (x * h + y) % h = y
    <3> HIDE DEF w, h
    <3>1. x \in Nat /\ x * h \in Nat /\ x * h <= (w - 1) * h /\ (w - 1) * h = h * w - h
          /\ h * w \in Nat
      BY <1>1, SMT
    <3>2. x * h + y <= h * w - 1 /\ x * h + y >= 0
      BY <1>1, <3>1
    <3> QED
      BY <1>1, <3>1, <3>2, IndexOfPixel
  <2> QED
    BY <2>1
<1> HIDE DEF cells
<1>5. IsGrid(Transposed)
  BY <1>1, <1>2, <1>3, GridTypes DEF IsGrid, NumCells
<1> QED
  BY <1>1, <1>2, <1>4, <1>5 DEF At, Index

\* ... a lookup finds the same.
LEMMA LookupTransposes ==
    ASSUME IsGrid(map), NEW x \in Int, NEW y \in Int, NEW a \in Int, NEW b \in Int
    PROVE  BilinearLookupEx(Transposed, y, x, b, a) = BilinearLookupEx(map, x, y, a, b)
<1> DEFINE here == Corners(map, x, y)
           there == Corners(Transposed, y, x)
<1>1. /\ Low(x, map.size_x) \in 0 .. map.size_x - 1 /\ High(x, map.size_x) \in 0 .. map.size_x - 1
      /\ Low(y, map.size_y) \in 0 .. map.size_y - 1 /\ High(y, map.size_y) \in 0 .. map.size_y - 1
  BY GridTypes, ClampInside
<1>2. there.ll = here.ll /\ there.hl = here.lh /\ there.lh = here.hl /\ there.hh = here.hh
  BY <1>1, TransposedGrid DEF Corners
<1>3. here \in [ll : Int, hl : Int, lh : Int, hh : Int]
  BY LookupMixes
<1>4. /\ BilinearLookupEx(Transposed, y, x, b, a) = Mixed(there, b, a)
      /\ BilinearLookupEx(map, x, y, a, b) = Mixed(here, a, b)
  BY TransposedGrid, LookupMixes
<1> HIDE DEF here, there
<1>5. Mixed(there, b, a) = Mixed(here, a, b)
  BY <1>2, <1>3, SubAssumption DEF Mixed
<1> QED
  BY <1>4, <1>5

\* The terms of the gradient along x, and along y.
TermsX(g, px, py, K) ==
    [c \in Across \X Across |->
       K[c[1]] * Side[c[2]] * BilinearLookupEx(g, Pixel(px) + c[1], Pixel(py) + c[2],
                                               Fraction(px), Fraction(py))]
TermsY(g, px, py, K) ==
    [c \in Across \X Across |->
       K[c[2]] * Side[c[1]] * BilinearLookupEx(g, Pixel(px) + c[1], Pixel(py) + c[2],
                                               Fraction(px), Fraction(py))]

LEMMA GradientSums ==
    ASSUME NEW g, NEW px, NEW py, NEW K
    PROVE  Gradient(g, px, py, K) = <<SumFunctionOnSet(TermsX(g, px, py, K), Across \X Across),
                                      SumFunctionOnSet(TermsY(g, px, py, K), Across \X Across)>>
<1> DEFINE fx == TermsX(g, px, py, K)
           fy == TermsY(g, px, py, K)
<1>1. Gradient(g, px, py, K) = <<SumFunction(fx), SumFunction(fy)>>
  BY DEF Gradient, Convolved, TermsX, TermsY
<1>2. DOMAIN fx = Across \X Across /\ DOMAIN fy = Across \X Across
  BY DEF TermsX, TermsY
<1> HIDE DEF fx, fy
<1>3. Gradient(g, px, py, K) = <<SumFunctionOnSet(fx, Across \X Across),
                                 SumFunctionOnSet(fy, Across \X Across)>>
  BY <1>1, <1>2 DEF SumFunction
<1> QED
  BY <1>3 DEF fx, fy

LEMMA AcrossTypes ==
    /\ IsFiniteSet(Across) /\ Across \subseteq Int
    /\ \A i \in Across : Slope[i] \in Int /\ Curve[i] \in Int /\ Side[i] \in Int
BY Kernels DEF Across, Slope, Curve, Side

\* What the gradient along one axis sums here it sums along the other there.
LEMMA TermsTranspose ==
    ASSUME NEW p \in Int, NEW q \in Int, NEW K, NEW i \in Across, NEW j \in Across,
           IsGrid(map), \A k \in Across : K[k] \in Int
    PROVE  /\ TermsX(Transposed, q, p, K)[<<i, j>>] \in Int
           /\ TermsY(Transposed, q, p, K)[<<i, j>>] \in Int
           /\ TermsY(map, p, q, K)[<<j, i>>] = TermsX(Transposed, q, p, K)[<<i, j>>]
           /\ TermsX(map, p, q, K)[<<j, i>>] = TermsY(Transposed, q, p, K)[<<i, j>>]
<1> DEFINE x == Pixel(p) + j  y == Pixel(q) + i  a == Fraction(p)  b == Fraction(q)
           v == BilinearLookupEx(map, x, y, a, b)
<1>1. x \in Int /\ y \in Int /\ a \in Int /\ b \in Int
  BY AcrossTypes, SubAssumption, Division DEF Pixel, Fraction
<1>2. BilinearLookupEx(Transposed, y, x, b, a) = v /\ v \in Int
  <2> HIDE DEF x, y, a, b
  <2> QED
    BY <1>1, LookupTransposes, LookupMixes
<1>3. /\ TermsX(Transposed, q, p, K)[<<i, j>>] = K[i] * Side[j] * v
      /\ TermsY(Transposed, q, p, K)[<<i, j>>] = K[j] * Side[i] * v
      /\ TermsY(map, p, q, K)[<<j, i>>] = K[i] * Side[j] * v
      /\ TermsX(map, p, q, K)[<<j, i>>] = K[j] * Side[i] * v
  BY <1>2 DEF TermsX, TermsY
<1>4. K[i] * Side[j] * v \in Int /\ K[j] * Side[i] * v \in Int
  <2> HIDE DEF v
  <2> QED
    BY <1>2, AcrossTypes
<1> QED
  BY <1>3, <1>4

LEMMA GradientTurnsOver ==
    ASSUME NEW p \in Int, NEW q \in Int, NEW K, IsGrid(map), \A k \in Across : K[k] \in Int
    PROVE  /\ Gradient(Transposed, q, p, K)[1] = Gradient(map, p, q, K)[2]
           /\ Gradient(Transposed, q, p, K)[2] = Gradient(map, p, q, K)[1]
<1> DEFINE thereX == TermsX(Transposed, q, p, K)
           thereY == TermsY(Transposed, q, p, K)
           hereX == TermsX(map, p, q, K)
           hereY == TermsY(map, p, q, K)
<1>1. ASSUME NEW i \in Across, NEW j \in Across
      PROVE  /\ thereX[<<i, j>>] \in Int /\ thereY[<<i, j>>] \in Int
             /\ hereY[<<j, i>>] = thereX[<<i, j>>] /\ hereX[<<j, i>>] = thereY[<<i, j>>]
  BY TermsTranspose
<1>2. /\ Gradient(Transposed, q, p, K) = <<SumFunctionOnSet(thereX, Across \X Across),
                                           SumFunctionOnSet(thereY, Across \X Across)>>
      /\ Gradient(map, p, q, K) = <<SumFunctionOnSet(hereX, Across \X Across),
                                    SumFunctionOnSet(hereY, Across \X Across)>>
  BY GradientSums
<1> HIDE DEF thereX, thereY, hereX, hereY
<1>3. SumFunctionOnSet(hereY, Across \X Across) = SumFunctionOnSet(thereX, Across \X Across)
  <2>1. \A i, j \in Across : thereX[<<i, j>>] \in Int /\ hereY[<<j, i>>] = thereX[<<i, j>>]
    BY <1>1
  <2> QED
    BY <2>1, AcrossTypes, SumSwapped
<1>4. SumFunctionOnSet(hereX, Across \X Across) = SumFunctionOnSet(thereY, Across \X Across)
  <2>1. \A i, j \in Across : thereY[<<i, j>>] \in Int /\ hereX[<<j, i>>] = thereY[<<i, j>>]
    BY <1>1
  <2> QED
    BY <2>1, AcrossTypes, SumSwapped
<1> QED
  BY <1>2, <1>3, <1>4

\* Neither axis is favoured by the gradients the solver climbs along.
THEOREM GradientTransposesHolds == Spec => []GradientTransposes
<1>1. IsGrid(map) => GradientTransposes
  <2> SUFFICES ASSUME IsGrid(map), NEW p \in Positions
               PROVE  /\ CalcGradient(Transposed, p[2], p[1])[1] = CalcGradient(map, p[1], p[2])[2]
                      /\ CalcGradient(Transposed, p[2], p[1])[2] = CalcGradient(map, p[1], p[2])[1]
                      /\ CalcGradient2(Transposed, p[2], p[1])[1] = CalcGradient2(map, p[1], p[2])[2]
                      /\ CalcGradient2(Transposed, p[2], p[1])[2] = CalcGradient2(map, p[1], p[2])[1]
    BY DEF GradientTransposes
  <2>1. p[1] \in Int /\ p[2] \in Int
    BY PositionTypes
  <2> QED
    BY <2>1, AcrossTypes, GradientTurnsOver DEF CalcGradient, CalcGradient2
<1> QED
  BY <1>1, TileIsGrid, PTL

-----------------------------------------------------------------------------
(* Matrices.                                                                *)

IsMatrix(m, r, c) ==
    m = [rows |-> r, cols |-> c, data |-> m.data] /\ m.data \in [1 .. r * c -> Int]

LEMMA PlaceOfEntry ==
    ASSUME NEW r \in Nat \ {0}, NEW c \in Nat \ {0}, NEW i \in 0 .. r - 1, NEW j \in 0 .. c - 1
    PROVE  /\ j * r + i + 1 \in 1 .. r * c
           /\ (j * r + i + 1 - 1) % r = i /\ (j * r + i + 1 - 1) \div r = j
<1>1. (j * r + i) % r = i /\ (j * r + i) \div r = j
  BY IndexOfPixel
<1>2. j * r \in Nat /\ j * r <= (c - 1) * r /\ (c - 1) * r = r * c - r /\ r * c \in Nat
  BY SMT
<1> QED
  BY <1>1, <1>2

LEMMA EntryOfPlace ==
    ASSUME NEW r \in Nat \ {0}, NEW c \in Nat \ {0}, NEW k \in 1 .. r * c
    PROVE  /\ (k - 1) % r \in 0 .. r - 1 /\ (k - 1) \div r \in 0 .. c - 1
           /\ ((k - 1) \div r) * r + ((k - 1) % r) + 1 = k
<1>1. k - 1 \in 0 .. r * c - 1 /\ k \in Int /\ r * c \in Nat
  BY SMT
<1>2. (k - 1) % r \in 0 .. r - 1 /\ (k - 1) \div r \in 0 .. c - 1
      /\ ((k - 1) \div r) * r + ((k - 1) % r) = k - 1
  BY <1>1, PixelOfIndex
<1> QED
  BY <1>1, <1>2

LEMMA EntryIs ==
    ASSUME NEW r \in Nat \ {0}, NEW c \in Nat \ {0}, NEW m, IsMatrix(m, r, c),
           NEW i \in 0 .. r - 1, NEW j \in 0 .. c - 1
    PROVE  M!Entry(m, i, j) = m.data[j * r + i + 1] /\ M!Entry(m, i, j) \in Int
<1>1. m.rows = r
  BY DEF IsMatrix
<1>2. M!Entry(m, i, j) = m.data[j * r + i + 1]
  BY <1>1 DEF M!Entry, M!Item
<1>3. m.data \in [1 .. r * c -> Int]
  BY DEF IsMatrix
<1> QED
  BY <1>2, <1>3, PlaceOfEntry

LEMMA IntEntries3 ==
    ASSUME NEW m, IsMatrix(m, 3, 3) PROVE \A i, j \in 0 .. 2 : M!Entry(m, i, j) \in Int
BY DEF IsMatrix, M!Entry, M!Item

LEMMA IntEntries4 ==
    ASSUME NEW m, IsMatrix(m, 4, 4) PROVE \A i, j \in 0 .. 3 : M!Entry(m, i, j) \in Int
BY DEF IsMatrix, M!Entry, M!Item

\* A matrix made of the elements d, which e has at their rows and columns.
Built(m, r, c, d, e) ==
    /\ r \in Nat \ {0} /\ c \in Nat \ {0}
    /\ m = [rows |-> r, cols |-> c, data |-> <<>> \o d]
    /\ d = [k \in 1 .. r * c |-> e[<<(k - 1) % r, (k - 1) \div r>>]]
    /\ \A i \in 0 .. r - 1, j \in 0 .. c - 1 : e[<<i, j>>] \in Int

LEMMA EntriesBuilt ==
    ASSUME NEW r, NEW c, NEW d, NEW e, NEW m, Built(m, r, c, d, e)
    PROVE  IsMatrix(m, r, c) /\ \A i \in 0 .. r - 1, j \in 0 .. c - 1 : M!Entry(m, i, j) = e[<<i, j>>]
<1>1. r \in Nat \ {0} /\ c \in Nat \ {0}
  BY DEF Built
<1>2. d \in [1 .. r * c -> Int]
  BY EntryOfPlace DEF Built
<1>3. d \in Seq(Int)
  <2>1. r * c \in Nat
    BY <1>1, SMT
  <2> QED
    BY <1>2, <2>1
<1>4. m = [rows |-> r, cols |-> c, data |-> d]
  BY <1>3, ConcatEmptySeq DEF Built
<1>5. IsMatrix(m, r, c)
  BY <1>2, <1>4 DEF IsMatrix
<1>6. ASSUME NEW i \in 0 .. r - 1, NEW j \in 0 .. c - 1
      PROVE  M!Entry(m, i, j) = e[<<i, j>>]
  <2> DEFINE k == j * r + i + 1
  <2>1. k \in 1 .. r * c /\ (k - 1) % r = i /\ (k - 1) \div r = j
    BY <1>1, PlaceOfEntry
  <2>2. M!Entry(m, i, j) = m.data[k]
    BY <1>1, <1>5, EntryIs
  <2> HIDE DEF k
  <2>3. d[k] = e[<<i, j>>]
    BY <2>1 DEF Built
  <2> QED
    BY <1>4, <2>2, <2>3
<1> QED
  BY <1>5, <1>6

LEMMA SameMatrix ==
    ASSUME NEW r \in Nat \ {0}, NEW c \in Nat \ {0}, NEW a, NEW b, IsMatrix(a, r, c), IsMatrix(b, r, c),
           \A i \in 0 .. r - 1, j \in 0 .. c - 1 : M!Entry(a, i, j) = M!Entry(b, i, j)
    PROVE  a = b
<1>1. ASSUME NEW k \in 1 .. r * c PROVE a.data[k] = b.data[k]
  <2> DEFINE i == (k - 1) % r
             j == (k - 1) \div r
  <2>1. i \in 0 .. r - 1 /\ j \in 0 .. c - 1 /\ j * r + i + 1 = k
    BY EntryOfPlace
  <2> HIDE DEF i, j
  <2>2. M!Entry(a, i, j) = M!Entry(b, i, j)
    BY <2>1
  <2> QED
    BY <2>1, <2>2 DEF M!Entry, M!Item, IsMatrix
<1> QED
  BY <1>1 DEF IsMatrix

LEMMA SumsAgree == ASSUME NEW f PROVE M!SumFunction(f) = SumFunctionOnSet(f, DOMAIN f)
BY DEF M!SumFunction, M!SumFunctionOnSet, SumFunctionOnSet,
       M!FoldFunctionOnSet, FoldFunctionOnSet, M!MapThenFoldSet, MapThenFoldSet

\* The product, ...
Products(a, b, n, i, j) == [k \in 0 .. n - 1 |-> M!Entry(a, i, k) * M!Entry(b, k, j)]

LEMMA TimesEntries ==
    ASSUME NEW r \in Nat \ {0}, NEW n \in Nat \ {0}, NEW c \in Nat \ {0}, NEW a, NEW b,
           IsMatrix(a, r, n), IsMatrix(b, n, c)
    PROVE  /\ IsMatrix(M!Times(a, b), r, c)
           /\ \A i \in 0 .. r - 1, j \in 0 .. c - 1 :
                M!Entry(M!Times(a, b), i, j) = M!SumFunction(Products(a, b, n, i, j))
<1> DEFINE S(i, j) == M!SumFunction(Products(a, b, n, i, j))
           e == [p \in (0 .. r - 1) \X (0 .. c - 1) |-> S(p[1], p[2])]
           d == [k \in 1 .. r * c |->
                   M!SumFunction([l \in 0 .. n - 1 |->
                     M!Entry(a, (k - 1) % r, l) * M!Entry(b, l, (k - 1) \div r)])]
           m == M!Times(a, b)
<1>1. a.rows = r /\ a.cols = n /\ b.cols = c
  BY DEF IsMatrix
<1>2. ASSUME NEW i \in 0 .. r - 1, NEW j \in 0 .. c - 1
      PROVE  S(i, j) \in Int
  <2>1. \A k \in 0 .. n - 1 : M!Entry(a, i, k) \in Int /\ M!Entry(b, k, j) \in Int
    BY EntryIs
  <2>2. \A k \in 0 .. n - 1 : Products(a, b, n, i, j)[k] \in Int
    BY <2>1 DEF Products
  <2>3. IsFiniteSet(0 .. n - 1)
    BY FS_Interval
  <2>4. SumFunctionOnSet(Products(a, b, n, i, j), 0 .. n - 1) \in Int
    BY <2>2, <2>3, SumType
  <2> QED
    BY <2>4, SumsAgree DEF Products
<1>3. ASSUME NEW i, NEW j
      PROVE  M!SumFunction([l \in 0 .. n - 1 |-> M!Entry(a, i, l) * M!Entry(b, l, j)]) = S(i, j)
  BY DEF Products
<1>4. m = [rows |-> r, cols |-> c, data |-> <<>> \o d]
  BY <1>1 DEF M!Times, M!MatrixOf
<1>5. ASSUME NEW k \in 1 .. r * c
      PROVE  d[k] = S((k - 1) % r, (k - 1) \div r)
  BY <1>3
<1>6. \A i \in 0 .. r - 1, j \in 0 .. c - 1 : e[<<i, j>>] = S(i, j)
  OBVIOUS
<1> HIDE DEF m, S
<1>7. d = [k \in 1 .. r * c |-> e[<<(k - 1) % r, (k - 1) \div r>>]]
  BY <1>5, <1>6, EntryOfPlace
<1> HIDE DEF d, e
<1>8. Built(m, r, c, d, e)
  BY <1>2, <1>4, <1>6, <1>7 DEF Built
<1>9. IsMatrix(m, r, c) /\ \A i \in 0 .. r - 1, j \in 0 .. c - 1 : M!Entry(m, i, j) = e[<<i, j>>]
  BY <1>8, EntriesBuilt
<1> QED
  BY <1>6, <1>9 DEF m, S

LEMMA Times3 ==
    ASSUME NEW r \in Nat \ {0}, NEW c \in Nat \ {0}, NEW a, NEW b,
           IsMatrix(a, r, 3), IsMatrix(b, 3, c), NEW i \in 0 .. r - 1, NEW j \in 0 .. c - 1
    PROVE  M!Entry(M!Times(a, b), i, j)
             = M!Entry(a, i, 0) * M!Entry(b, 0, j) + M!Entry(a, i, 1) * M!Entry(b, 1, j)
                 + M!Entry(a, i, 2) * M!Entry(b, 2, j)
<1> DEFINE f == Products(a, b, 3, i, j)
<1>1. f[0] = M!Entry(a, i, 0) * M!Entry(b, 0, j) /\ f[1] = M!Entry(a, i, 1) * M!Entry(b, 1, j)
      /\ f[2] = M!Entry(a, i, 2) * M!Entry(b, 2, j)
  BY DEF Products
<1>2. ASSUME NEW k \in 0 .. 2 PROVE M!Entry(a, i, k) * M!Entry(b, k, j) \in Int
  BY EntryIs
<1>3. f[0] \in Int /\ f[1] \in Int /\ f[2] \in Int
  BY <1>1, <1>2
<1>4. M!Entry(M!Times(a, b), i, j) = SumFunctionOnSet(f, 0 .. 2)
  <2>1. M!Entry(M!Times(a, b), i, j) = M!SumFunction(f)
    BY TimesEntries
  <2>2. DOMAIN f = 0 .. 2
    BY DEF Products
  <2> QED
    BY <2>1, <2>2, SumsAgree
<1> HIDE DEF f
<1> QED
  BY <1>1, <1>3, <1>4, SumTo3

LEMMA Times4 ==
    ASSUME NEW r \in Nat \ {0}, NEW c \in Nat \ {0}, NEW a, NEW b,
           IsMatrix(a, r, 4), IsMatrix(b, 4, c), NEW i \in 0 .. r - 1, NEW j \in 0 .. c - 1
    PROVE  M!Entry(M!Times(a, b), i, j)
             = M!Entry(a, i, 0) * M!Entry(b, 0, j) + M!Entry(a, i, 1) * M!Entry(b, 1, j)
                 + M!Entry(a, i, 2) * M!Entry(b, 2, j) + M!Entry(a, i, 3) * M!Entry(b, 3, j)
<1> DEFINE f == Products(a, b, 4, i, j)
<1>1. f[0] = M!Entry(a, i, 0) * M!Entry(b, 0, j) /\ f[1] = M!Entry(a, i, 1) * M!Entry(b, 1, j)
      /\ f[2] = M!Entry(a, i, 2) * M!Entry(b, 2, j) /\ f[3] = M!Entry(a, i, 3) * M!Entry(b, 3, j)
  BY DEF Products
<1>2. ASSUME NEW k \in 0 .. 3 PROVE M!Entry(a, i, k) * M!Entry(b, k, j) \in Int
  BY EntryIs
<1>3. f[0] \in Int /\ f[1] \in Int /\ f[2] \in Int /\ f[3] \in Int
  BY <1>1, <1>2
<1>4. M!Entry(M!Times(a, b), i, j) = SumFunctionOnSet(f, 0 .. 3)
  <2>1. M!Entry(M!Times(a, b), i, j) = M!SumFunction(f)
    BY TimesEntries
  <2>2. DOMAIN f = 0 .. 3
    BY DEF Products
  <2> QED
    BY <2>1, <2>2, SumsAgree
<1> HIDE DEF f
<1> QED
  BY <1>1, <1>3, <1>4, SumTo4

\* A list of the entries in reading order.
Lists(list, r, c) ==
    /\ r \in Nat \ {0} /\ c \in Nat \ {0}
    /\ \A i \in 0 .. r - 1, j \in 0 .. c - 1 : list[i * c + j + 1] \in Int

LEMMA ListEntries ==
    ASSUME NEW r, NEW c, NEW list, Lists(list, r, c)
    PROVE  /\ IsMatrix(M!FromList(r, c, list), r, c)
           /\ \A i \in 0 .. r - 1, j \in 0 .. c - 1 :
                M!Entry(M!FromList(r, c, list), i, j) = list[i * c + j + 1]
<1> USE DEF Lists
<1> DEFINE e == [p \in (0 .. r - 1) \X (0 .. c - 1) |-> list[p[1] * c + p[2] + 1]]
           d == [k \in 1 .. r * c |-> list[((k - 1) % r) * c + ((k - 1) \div r) + 1]]
           m == M!FromList(r, c, list)
<1>1. ASSUME NEW i \in 0 .. r - 1, NEW j \in 0 .. c - 1
      PROVE  e[<<i, j>>] = list[i * c + j + 1] /\ list[i * c + j + 1] \in Int
  OBVIOUS
<1>2. m = [rows |-> r, cols |-> c, data |-> <<>> \o d]
  BY DEF M!FromList, M!MatrixOf
<1>3. d = [k \in 1 .. r * c |-> e[<<(k - 1) % r, (k - 1) \div r>>]]
  BY EntryOfPlace
<1> HIDE DEF d, e, m
<1>4. Built(m, r, c, d, e)
  BY <1>1, <1>2, <1>3 DEF Built
<1>5. IsMatrix(m, r, c) /\ \A i \in 0 .. r - 1, j \in 0 .. c - 1 : M!Entry(m, i, j) = e[<<i, j>>]
  BY <1>4, EntriesBuilt
<1> QED
  BY <1>1, <1>5 DEF m

-----------------------------------------------------------------------------
(* Frames.                                                                  *)

\* Sines and cosines of quarter turns.
LEMMA Quarters ==
    ASSUME NEW r \in Int
    PROVE  /\ r % 4 \in 0 .. 3
           /\ r % 4 = 0 => M!Cos(r) = 1 /\ M!Sin(r) = 0
           /\ r % 4 = 1 => M!Cos(r) = 0 /\ M!Sin(r) = 1
           /\ r % 4 = 2 => M!Cos(r) = -1 /\ M!Sin(r) = 0
           /\ r % 4 = 3 => M!Cos(r) = 0 /\ M!Sin(r) = -1
BY DEF M!Cos, M!Sin

LEMMA Angles ==
    ASSUME NEW r \in Int
    PROVE  /\ M!Cos(r) \in Int /\ M!Sin(r) \in Int
           /\ M!Cos(r) * M!Cos(r) + M!Sin(r) * M!Sin(r) = 1
           /\ M!Cos(-r) = M!Cos(r) /\ M!Sin(-r) = -M!Sin(r)
<1>1. (-r) % 4 = (IF r % 4 = 0 THEN 0 ELSE 4 - (r % 4)) /\ -r \in Int
  OBVIOUS
<1> QED
  BY <1>1, Quarters

LEMMA AnglesAdd ==
    ASSUME NEW a \in Int, NEW b \in Int
    PROVE  /\ M!Cos(a + b) = M!Cos(a) * M!Cos(b) - M!Sin(a) * M!Sin(b)
           /\ M!Sin(a + b) = M!Sin(a) * M!Cos(b) + M!Cos(a) * M!Sin(b)
<1>1. (a + b) % 4 = (IF (a % 4) + (b % 4) < 4 THEN (a % 4) + (b % 4) ELSE (a % 4) + (b % 4) - 4)
      /\ a + b \in Int
  OBVIOUS
<1>2. a % 4 \in 0 .. 3 /\ b % 4 \in 0 .. 3
  OBVIOUS
<1> QED
  BY <1>1, <1>2, Quarters

\* The frame of somebody at (x, y) who has turned by r, with the yaw w.
Level(x, y, r, w) ==
    M!FromList(4, 4, <<M!Cos(r), -M!Sin(r), 0, x,
                       M!Sin(r), M!Cos(r),  0, y,
                       0,        0,         1, w,
                       0,        0,         0, 1>>)

IsLevel(m, x, y, r, w) ==
    /\ IsMatrix(m, 4, 4)
    /\ M!Entry(m, 0, 0) = M!Cos(r) /\ M!Entry(m, 0, 1) = -M!Sin(r)
    /\ M!Entry(m, 0, 2) = 0 /\ M!Entry(m, 0, 3) = x
    /\ M!Entry(m, 1, 0) = M!Sin(r) /\ M!Entry(m, 1, 1) = M!Cos(r)
    /\ M!Entry(m, 1, 2) = 0 /\ M!Entry(m, 1, 3) = y
    /\ M!Entry(m, 2, 0) = 0 /\ M!Entry(m, 2, 1) = 0
    /\ M!Entry(m, 2, 2) = 1 /\ M!Entry(m, 2, 3) = w
    /\ M!Entry(m, 3, 0) = 0 /\ M!Entry(m, 3, 1) = 0
    /\ M!Entry(m, 3, 2) = 0 /\ M!Entry(m, 3, 3) = 1

LEMMA LevelEntries ==
    ASSUME NEW x \in Int, NEW y \in Int, NEW r \in Int, NEW w \in Int
    PROVE  IsLevel(Level(x, y, r, w), x, y, r, w)
<1> DEFINE m == Level(x, y, r, w)
<1> DEFINE list == <<M!Cos(r), -M!Sin(r), 0, x, M!Sin(r), M!Cos(r), 0, y, 0, 0, 1, w, 0, 0, 0, 1>>
<1>1. /\ list[1] = M!Cos(r) /\ list[2] = -M!Sin(r) /\ list[3] = 0 /\ list[4] = x
      /\ list[5] = M!Sin(r) /\ list[6] = M!Cos(r) /\ list[7] = 0 /\ list[8] = y
      /\ list[9] = 0 /\ list[10] = 0 /\ list[11] = 1 /\ list[12] = w
      /\ list[13] = 0 /\ list[14] = 0 /\ list[15] = 0 /\ list[16] = 1
  OBVIOUS
<1>2. m = M!FromList(4, 4, list)
  BY DEF Level
<1> HIDE DEF list, m
<1>3. Lists(list, 4, 4)
  <2>1. M!Cos(r) \in Int /\ M!Sin(r) \in Int /\ -M!Sin(r) \in Int
    BY Angles
  <2>2. \A k \in 1 .. 16 : list[k] \in Int
    BY <1>1, <2>1
  <2> QED
    BY <2>2 DEF Lists
<1>4. /\ IsMatrix(m, 4, 4)
      /\ \A i \in 0 .. 4 - 1, j \in 0 .. 4 - 1 : M!Entry(m, i, j) = list[i * 4 + j + 1]
  BY <1>2, <1>3, ListEntries
<1>5. \A i \in 0 .. 3 : /\ M!Entry(m, i, 0) = list[i * 4 + 1] /\ M!Entry(m, i, 1) = list[i * 4 + 2]
                        /\ M!Entry(m, i, 2) = list[i * 4 + 3] /\ M!Entry(m, i, 3) = list[i * 4 + 4]
  BY <1>4
<1>6. IsLevel(m, x, y, r, w)
  BY <1>1, <1>4, <1>5 DEF IsLevel
<1> QED
  BY <1>6 DEF m

LEMMA LevelIs ==
    ASSUME NEW x \in Int, NEW y \in Int, NEW r \in Int, NEW w \in Int, NEW m, IsLevel(m, x, y, r, w)
    PROVE  m = Level(x, y, r, w)
<1> DEFINE l == Level(x, y, r, w)
<1>1. IsLevel(l, x, y, r, w)
  BY LevelEntries
<1> HIDE DEF l
<1>2. IsMatrix(l, 4, 4) /\ IsMatrix(m, 4, 4)
  BY <1>1 DEF IsLevel
<1>3. ASSUME NEW i \in 0 .. 3, NEW j \in 0 .. 3
      PROVE  M!Entry(m, i, j) = M!Entry(l, i, j)
  <2>1. (i = 0 \/ i = 1 \/ i = 2 \/ i = 3) /\ (j = 0 \/ j = 1 \/ j = 2 \/ j = 3)
    OBVIOUS
  <2> QED
    BY <1>1, <2>1 DEF IsLevel
<1>4. m = l
  BY <1>2, <1>3, SameMatrix
<1> QED
  BY <1>4 DEF l

\* They are a group under composition.
Places == [x : Int, y : Int, r : Int, w : Int]
Place(x, y, r, w) == [x |-> x, y |-> y, r |-> r, w |-> w]
Frame(p) == Level(p.x, p.y, p.r, p.w)
Then(p, q) == Place(p.x + M!Cos(p.r) * q.x - M!Sin(p.r) * q.y,
                    p.y + M!Sin(p.r) * q.x + M!Cos(p.r) * q.y, p.r + q.r, p.w + q.w)
Back(p) == Place(-(M!Cos(p.r) * p.x + M!Sin(p.r) * p.y), M!Sin(p.r) * p.x - M!Cos(p.r) * p.y,
                 -p.r, -p.w)

LEMMA FrameTimes ==
    ASSUME NEW p \in Places, NEW q \in Places
    PROVE  M!Times(Frame(p), Frame(q)) = Frame(Then(p, q))
<1> DEFINE x == p.x  y == p.y  r == p.r  w == p.w
           u == q.x  v == q.y  o == q.r  z == q.w
           a == Level(x, y, r, w)
           b == Level(u, v, o, z)
           m == M!Times(a, b)
           x1 == x + M!Cos(r) * u - M!Sin(r) * v
           y1 == y + M!Sin(r) * u + M!Cos(r) * v
<1>0. /\ x \in Int /\ y \in Int /\ r \in Int /\ w \in Int
      /\ u \in Int /\ v \in Int /\ o \in Int /\ z \in Int
  BY DEF Places
<1> HIDE DEF x, y, r, w, u, v, o, z
<1>1. IsLevel(a, x, y, r, w) /\ IsLevel(b, u, v, o, z)
  BY <1>0, LevelEntries
<1>2. /\ M!Cos(r) \in Int /\ M!Sin(r) \in Int /\ M!Cos(o) \in Int /\ M!Sin(o) \in Int
      /\ M!Cos(r + o) = M!Cos(r) * M!Cos(o) - M!Sin(r) * M!Sin(o)
      /\ M!Sin(r + o) = M!Sin(r) * M!Cos(o) + M!Cos(r) * M!Sin(o)
  BY <1>0, Angles, AnglesAdd
<1> HIDE DEF a, b
<1>3. IsMatrix(a, 4, 4) /\ IsMatrix(b, 4, 4)
  BY <1>1 DEF IsLevel
<1>4. IsMatrix(m, 4, 4)
  BY <1>3, TimesEntries
<1>5. ASSUME NEW i \in 0 .. 3, NEW j \in 0 .. 3
      PROVE  M!Entry(m, i, j) = M!Entry(a, i, 0) * M!Entry(b, 0, j) + M!Entry(a, i, 1) * M!Entry(b, 1, j)
                                  + M!Entry(a, i, 2) * M!Entry(b, 2, j) + M!Entry(a, i, 3) * M!Entry(b, 3, j)
  BY <1>3, Times4
<1> HIDE DEF m
<1>6. IsLevel(m, x1, y1, r + o, w + z)
  <2>1. ASSUME NEW i \in 0 .. 3
        PROVE  /\ M!Entry(m, i, 0) = M!Entry(a, i, 0) * M!Cos(o) + M!Entry(a, i, 1) * M!Sin(o)
               /\ M!Entry(m, i, 1) = M!Entry(a, i, 1) * M!Cos(o) - M!Entry(a, i, 0) * M!Sin(o)
               /\ M!Entry(m, i, 2) = M!Entry(a, i, 2)
               /\ M!Entry(m, i, 3) = M!Entry(a, i, 0) * u + M!Entry(a, i, 1) * v + M!Entry(a, i, 2) * z
                                       + M!Entry(a, i, 3)
    <3>1. M!Entry(a, i, 0) \in Int /\ M!Entry(a, i, 1) \in Int /\ M!Entry(a, i, 2) \in Int
          /\ M!Entry(a, i, 3) \in Int
      BY <1>3, IntEntries4
    <3>2. \A j \in 0 .. 3 : M!Entry(m, i, j) = M!Entry(a, i, 0) * M!Entry(b, 0, j) + M!Entry(a, i, 1) * M!Entry(b, 1, j)
                                  + M!Entry(a, i, 2) * M!Entry(b, 2, j) + M!Entry(a, i, 3) * M!Entry(b, 3, j)
      BY <1>5
    <3>3. -M!Sin(o) \in Int
      BY <1>2
    <3> QED
      BY <1>0, <1>1, <1>2, <3>1, <3>2, <3>3 DEF IsLevel
  <2> QED
    BY <1>0, <1>1, <1>2, <1>4, <2>1 DEF IsLevel
<1>7. x1 \in Int /\ y1 \in Int /\ r + o \in Int /\ w + z \in Int
  BY <1>0, <1>2
<1> HIDE DEF x1, y1
<1>8. m = Level(x1, y1, r + o, w + z)
  BY <1>6, <1>7, LevelIs
<1> QED
  BY <1>8 DEF m, a, b, x1, y1, x, y, r, w, u, v, o, z, Frame, Then, Place

-----------------------------------------------------------------------------
(* Determinants.                                                            *)

Skip(k, i) == IF k < i THEN k ELSE k + 1

\* A matrix without a row and a column.
Square(m, n, s) == s \in Nat \ {0} /\ n = s + 1 /\ IsMatrix(m, n, n)

LEMMA WithoutEntries ==
    ASSUME NEW n, NEW s, NEW m, Square(m, n, s), NEW i \in 0 .. n - 1, NEW j \in 0 .. n - 1
    PROVE  /\ IsMatrix(M!Without(m, i, j), s, s)
           /\ \A k, l \in 0 .. s - 1 :
                M!Entry(M!Without(m, i, j), k, l) = M!Entry(m, Skip(k, i), Skip(l, j))
<1> DEFINE e == [p \in (0 .. s - 1) \X (0 .. s - 1) |-> M!Entry(m, Skip(p[1], i), Skip(p[2], j))]
           d == [k \in 1 .. s * s |-> M!Entry(m, Skip((k - 1) % s, i), Skip((k - 1) \div s, j))]
           w == M!Without(m, i, j)
<1>1. s \in Nat \ {0} /\ n \in Nat \ {0} /\ n = s + 1 /\ IsMatrix(m, n, n)
  BY DEF Square
<1>2. ASSUME NEW k \in 0 .. s - 1, NEW l \in 0 .. s - 1
      PROVE  e[<<k, l>>] = M!Entry(m, Skip(k, i), Skip(l, j)) /\ e[<<k, l>>] \in Int
  <2>1. Skip(k, i) \in 0 .. n - 1 /\ Skip(l, j) \in 0 .. n - 1
    BY <1>1 DEF Skip
  <2>2. M!Entry(m, Skip(k, i), Skip(l, j)) \in Int
    BY <1>1, <2>1, EntryIs
  <2> QED
    BY <2>2
<1>3. w = [rows |-> s, cols |-> s, data |-> <<>> \o d]
  <2>1. m.rows - 1 = s /\ m.cols - 1 = s
    BY <1>1 DEF IsMatrix
  <2> QED
    BY <2>1 DEF M!Without, M!MatrixOf, Skip
<1>4. d = [k \in 1 .. s * s |-> e[<<(k - 1) % s, (k - 1) \div s>>]]
  BY <1>1, EntryOfPlace
<1> HIDE DEF d, e, w
<1>5. Built(w, s, s, d, e)
  BY <1>1, <1>2, <1>3, <1>4 DEF Built
<1>6. IsMatrix(w, s, s) /\ \A k \in 0 .. s - 1, l \in 0 .. s - 1 : M!Entry(w, k, l) = e[<<k, l>>]
  BY <1>5, EntriesBuilt
<1> QED
  BY <1>2, <1>6 DEF w

\* The terms of the expansion along the first row.
LEMMA Signs == /\ M!Sign(0, 0) = 1 /\ M!Sign(0, 1) = -1 /\ M!Sign(0, 2) = 1
               /\ \A i, j \in Int : M!Sign(i, j) \in {1, -1}
BY DEF M!Sign

LEMMA Det2Is ==
    ASSUME NEW m, IsMatrix(m, 2, 2)
    PROVE  M!Det2(m) = M!Entry(m, 0, 0) * M!Entry(m, 1, 1) - M!Entry(m, 0, 1) * M!Entry(m, 1, 0)
<1> DEFINE f == [j \in 0 .. m.cols - 1 |-> M!Sign(0, j) * M!Entry(m, 0, j) * M!Det1(M!Without(m, 0, j))]
           e(i, j) == M!Entry(m, i, j)
<1>1. m.cols = 2
  BY DEF IsMatrix
<1>2. DOMAIN f = 0 .. 1
  BY <1>1
<1>3. M!Det2(m) = SumFunctionOnSet(f, 0 .. 1)
  <2>1. M!Det2(m) = M!SumFunction(f)
    BY DEF M!Det2, M!Expansion
  <2> QED
    BY <1>2, <2>1, SumsAgree
<1>4. \A i, j \in 0 .. 1 : e(i, j) \in Int
  BY DEF IsMatrix, M!Entry, M!Item
<1>5. ASSUME NEW j \in 0 .. 1 PROVE M!Det1(M!Without(m, 0, j)) = e(1, 1 - j)
  <2> DEFINE w == M!Without(m, 0, j)
  <2>1. Square(m, 2, 1)
    BY DEF Square
  <2>2. 0 \in 0 .. 2 - 1 /\ j \in 0 .. 2 - 1
    OBVIOUS
  <2>3. M!Entry(w, 0, 0) = M!Entry(m, Skip(0, 0), Skip(0, j)) /\ IsMatrix(w, 1, 1)
    BY <2>1, <2>2, WithoutEntries
  <2>4. M!Entry(w, 0, 0) = M!Item(w, 0)
    BY <2>3 DEF IsMatrix, M!Entry
  <2> QED
    BY <2>3, <2>4 DEF M!Det1, Skip
<1>6. f[0] = e(0, 0) * e(1, 1) /\ f[1] = -(e(0, 1) * e(1, 0))
  <2>1. M!Det1(M!Without(m, 0, 0)) = e(1, 1) /\ M!Det1(M!Without(m, 0, 1)) = e(1, 0)
    BY <1>5
  <2>2. f[0] = M!Sign(0, 0) * e(0, 0) * e(1, 1) /\ f[1] = M!Sign(0, 1) * e(0, 1) * e(1, 0)
    BY <1>1, <2>1
  <2>3. e(0, 0) \in Int /\ e(1, 1) \in Int /\ e(0, 1) \in Int /\ e(1, 0) \in Int
    BY <1>4
  <2> HIDE DEF f, e
  <2> QED
    BY <2>2, <2>3, Signs
<1>7. f[0] \in Int /\ f[1] \in Int
  BY <1>4, <1>6
<1> HIDE DEF f
<1>8. SumFunctionOnSet(f, 0 .. 1) = f[0] + f[1]
  BY <1>7, SumTo2
<1> QED
  BY <1>3, <1>4, <1>6, <1>8

\* The determinant of the 3 x 3 matrix with these rows.
Det(a, b, c, d, e, f, g, h, i) == a * (e * i - f * h) - b * (d * i - f * g) + c * (d * h - e * g)

LEMMA Det3Is ==
    ASSUME NEW m, IsMatrix(m, 3, 3)
    PROVE  /\ M!Det3(m) = Det(M!Entry(m, 0, 0), M!Entry(m, 0, 1), M!Entry(m, 0, 2),
                              M!Entry(m, 1, 0), M!Entry(m, 1, 1), M!Entry(m, 1, 2),
                              M!Entry(m, 2, 0), M!Entry(m, 2, 1), M!Entry(m, 2, 2))
           /\ M!Det3(m) \in Int
<1> DEFINE f == [j \in 0 .. m.cols - 1 |-> M!Sign(0, j) * M!Entry(m, 0, j) * M!Det2(M!Without(m, 0, j))]
           e(i, j) == M!Entry(m, i, j)
           d0 == e(1, 1) * e(2, 2) - e(1, 2) * e(2, 1)
           d1 == e(1, 0) * e(2, 2) - e(1, 2) * e(2, 0)
           d2 == e(1, 0) * e(2, 1) - e(1, 1) * e(2, 0)
<1>1. m.cols = 3
  BY DEF IsMatrix
<1>2. DOMAIN f = 0 .. 2
  BY <1>1
<1>3. M!Det3(m) = SumFunctionOnSet(f, 0 .. 2)
  <2>1. M!Det3(m) = M!SumFunction(f)
    BY DEF M!Det3, M!Expansion
  <2> QED
    BY <1>2, <2>1, SumsAgree
<1>4. \A i, j \in 0 .. 2 : e(i, j) \in Int
  BY IntEntries3
<1>5. ASSUME NEW j \in 0 .. 2
      PROVE  M!Det2(M!Without(m, 0, j))
               = e(1, Skip(0, j)) * e(2, Skip(1, j)) - e(1, Skip(1, j)) * e(2, Skip(0, j))
  <2> DEFINE w == M!Without(m, 0, j)
  <2>1. Square(m, 3, 2)
    BY DEF Square
  <2>2. 0 \in 0 .. 3 - 1 /\ j \in 0 .. 3 - 1
    OBVIOUS
  <2>3. IsMatrix(w, 2, 2) /\ \A k, l \in 0 .. 2 - 1 : M!Entry(w, k, l) = M!Entry(m, Skip(k, 0), Skip(l, j))
    BY <2>1, <2>2, WithoutEntries
  <2>4. Skip(0, 0) = 1 /\ Skip(1, 0) = 2
    BY DEF Skip
  <2>5. \A l \in 0 .. 1 : M!Entry(w, 0, l) = e(1, Skip(l, j)) /\ M!Entry(w, 1, l) = e(2, Skip(l, j))
    BY <2>3, <2>4
  <2>6. M!Det2(w) = M!Entry(w, 0, 0) * M!Entry(w, 1, 1) - M!Entry(w, 0, 1) * M!Entry(w, 1, 0)
    BY <2>3, Det2Is
  <2> QED
    BY <2>5, <2>6
<1>6. f[0] = e(0, 0) * d0 /\ f[1] = -(e(0, 1) * d1) /\ f[2] = e(0, 2) * d2
  <2>1. /\ Skip(0, 0) = 1 /\ Skip(1, 0) = 2 /\ Skip(0, 1) = 0 /\ Skip(1, 1) = 2
        /\ Skip(0, 2) = 0 /\ Skip(1, 2) = 1
    BY DEF Skip
  <2>2. /\ M!Det2(M!Without(m, 0, 0)) = d0 /\ M!Det2(M!Without(m, 0, 1)) = d1
        /\ M!Det2(M!Without(m, 0, 2)) = d2
    BY <1>5, <2>1
  <2>3. /\ f[0] = M!Sign(0, 0) * e(0, 0) * d0 /\ f[1] = M!Sign(0, 1) * e(0, 1) * d1
        /\ f[2] = M!Sign(0, 2) * e(0, 2) * d2
    BY <1>1, <2>2
  <2>4. /\ e(0, 0) \in Int /\ e(0, 1) \in Int /\ e(0, 2) \in Int
        /\ d0 \in Int /\ d1 \in Int /\ d2 \in Int
    BY <1>4
  <2> HIDE DEF f, e, d0, d1, d2
  <2> QED
    BY <2>3, <2>4, Signs
<1>7. e(0, 0) \in Int /\ e(0, 1) \in Int /\ e(0, 2) \in Int /\ d0 \in Int /\ d1 \in Int /\ d2 \in Int
  BY <1>4
<1>8. f[0] \in Int /\ f[1] \in Int /\ f[2] \in Int
  <2> HIDE DEF f, e, d0, d1, d2
  <2> QED
    BY <1>6, <1>7
<1> HIDE DEF f
<1>9. SumFunctionOnSet(f, 0 .. 2) = f[0] + f[1] + f[2]
  BY <1>8, SumTo3
<1>10. f[0] + f[1] + f[2] = e(0, 0) * d0 - e(0, 1) * d1 + e(0, 2) * d2
  <2> HIDE DEF e, d0, d1, d2
  <2> QED
    BY <1>6, <1>7
<1>11. M!Det3(m) = e(0, 0) * d0 - e(0, 1) * d1 + e(0, 2) * d2
  BY <1>3, <1>9, <1>10
<1>12. M!Det3(m) \in Int
  <2> HIDE DEF e, d0, d1, d2
  <2> QED
    BY <1>7, <1>11
<1> QED
  BY <1>11, <1>12 DEF Det

LEMMA AdjugateEntries ==
    ASSUME NEW n, NEW s, NEW m, Square(m, n, s),
           \A i, j \in 0 .. n - 1 : M!Determinant(M!Without(m, i, j)) \in Int
    PROVE  /\ IsMatrix(M!Adjugate(m), n, n)
           /\ \A i, j \in 0 .. n - 1 :
                M!Entry(M!Adjugate(m), i, j) = M!Sign(i, j) * M!Determinant(M!Without(m, j, i))
<1> DEFINE e == [p \in (0 .. n - 1) \X (0 .. n - 1) |->
                   M!Sign(p[1], p[2]) * M!Determinant(M!Without(m, p[2], p[1]))]
           d == [k \in 1 .. n * n |-> M!Sign((k - 1) % n, (k - 1) \div n)
                                        * M!Determinant(M!Without(m, (k - 1) \div n, (k - 1) % n))]
           a == M!Adjugate(m)
<1>1. n \in Nat \ {0} /\ IsMatrix(m, n, n)
  BY DEF Square
<1>2. ASSUME NEW i \in 0 .. n - 1, NEW j \in 0 .. n - 1
      PROVE  /\ e[<<i, j>>] = M!Sign(i, j) * M!Determinant(M!Without(m, j, i))
             /\ e[<<i, j>>] \in Int
  <2>1. M!Sign(i, j) \in Int
    BY Signs
  <2> QED
    BY <2>1
<1>3. a = [rows |-> n, cols |-> n, data |-> <<>> \o d]
  <2>1. m.rows = n /\ m.cols = n
    BY <1>1 DEF IsMatrix
  <2> QED
    BY <2>1 DEF M!Adjugate, M!MatrixOf
<1>4. d = [k \in 1 .. n * n |-> e[<<(k - 1) % n, (k - 1) \div n>>]]
  BY <1>1, EntryOfPlace
<1> HIDE DEF d, e, a
<1>5. Built(a, n, n, d, e)
  BY <1>1, <1>2, <1>3, <1>4 DEF Built
<1>6. IsMatrix(a, n, n) /\ \A i \in 0 .. n - 1, j \in 0 .. n - 1 : M!Entry(a, i, j) = e[<<i, j>>]
  BY <1>5, EntriesBuilt
<1> QED
  BY <1>2, <1>6 DEF a

LEMMA Minor4 ==
    ASSUME NEW m, IsMatrix(m, 4, 4), NEW i \in 0 .. 3, NEW j \in 0 .. 3
    PROVE  /\ M!Determinant(M!Without(m, i, j))
                = Det(M!Entry(m, Skip(0, i), Skip(0, j)), M!Entry(m, Skip(0, i), Skip(1, j)),
                      M!Entry(m, Skip(0, i), Skip(2, j)),
                      M!Entry(m, Skip(1, i), Skip(0, j)), M!Entry(m, Skip(1, i), Skip(1, j)),
                      M!Entry(m, Skip(1, i), Skip(2, j)),
                      M!Entry(m, Skip(2, i), Skip(0, j)), M!Entry(m, Skip(2, i), Skip(1, j)),
                      M!Entry(m, Skip(2, i), Skip(2, j)))
           /\ M!Determinant(M!Without(m, i, j)) \in Int
<1> DEFINE w == M!Without(m, i, j)
<1>1. Square(m, 4, 3)
  BY DEF Square
<1>2. i \in 0 .. 4 - 1 /\ j \in 0 .. 4 - 1
  OBVIOUS
<1>3. /\ IsMatrix(w, 3, 3)
      /\ \A k, l \in 0 .. 3 - 1 : M!Entry(w, k, l) = M!Entry(m, Skip(k, i), Skip(l, j))
  BY <1>1, <1>2, WithoutEntries
<1>4. ASSUME NEW k \in 0 .. 2, NEW l \in 0 .. 2
      PROVE  M!Entry(w, k, l) = M!Entry(m, Skip(k, i), Skip(l, j))
  BY <1>3
<1>5. w.rows = 3
  BY <1>3 DEF IsMatrix
<1> HIDE DEF w
<1>6. M!Determinant(w) = M!Det3(w)
  BY <1>5 DEF M!Determinant
<1> QED
  BY <1>3, <1>4, <1>6, Det3Is DEF w

LEMMA FrameInverted ==
    ASSUME NEW p \in Places
    PROVE  M!Inverted(Frame(p)) = Frame(Back(p))
<1> DEFINE x == p.x  y == p.y  r == p.r  w == p.w
           a == Level(x, y, r, w)
           m == M!Adjugate(a)
           c == M!Cos(r)
           s == M!Sin(r)
           x1 == -(c * x + s * y)
           y1 == s * x - c * y
           D(i, j) == M!Determinant(M!Without(a, i, j))
<1>0. x \in Int /\ y \in Int /\ r \in Int /\ w \in Int
  BY DEF Places
<1> HIDE DEF x, y, r, w
<1>1. IsLevel(a, x, y, r, w)
  BY <1>0, LevelEntries
<1>2. c \in Int /\ s \in Int /\ c * c + s * s = 1 /\ M!Cos(-r) = c /\ M!Sin(-r) = -s
  BY <1>0, Angles
<1> HIDE DEF a
<1>3. IsMatrix(a, 4, 4) /\ Square(a, 4, 3)
  BY <1>1 DEF IsLevel, Square
<1>4. /\ IsMatrix(m, 4, 4)
      /\ \A i, j \in 0 .. 3 : M!Entry(m, i, j) = M!Sign(i, j) * D(j, i)
  <2>1. \A i, j \in 0 .. 3 : M!Determinant(M!Without(a, i, j)) \in Int
    BY <1>3, Minor4
  <2>2. /\ IsMatrix(m, 4, 4)
        /\ \A i, j \in 0 .. 4 - 1 : M!Entry(m, i, j) = M!Sign(i, j) * D(j, i)
    BY <1>3, <2>1, AdjugateEntries
  <2> QED
    BY <2>2
<1> HIDE DEF m
<1>5. /\ M!Sign(0, 0) = 1 /\ M!Sign(0, 1) = -1 /\ M!Sign(0, 2) = 1 /\ M!Sign(0, 3) = -1
      /\ M!Sign(1, 0) = -1 /\ M!Sign(1, 1) = 1 /\ M!Sign(1, 2) = -1 /\ M!Sign(1, 3) = 1
      /\ M!Sign(2, 0) = 1 /\ M!Sign(2, 1) = -1 /\ M!Sign(2, 2) = 1 /\ M!Sign(2, 3) = -1
      /\ M!Sign(3, 0) = -1 /\ M!Sign(3, 1) = 1 /\ M!Sign(3, 2) = -1 /\ M!Sign(3, 3) = 1
  BY DEF M!Sign
<1>6. /\ Skip(0, 0) = 1 /\ Skip(1, 0) = 2 /\ Skip(2, 0) = 3
      /\ Skip(0, 1) = 0 /\ Skip(1, 1) = 2 /\ Skip(2, 1) = 3
      /\ Skip(0, 2) = 0 /\ Skip(1, 2) = 1 /\ Skip(2, 2) = 3
      /\ Skip(0, 3) = 0 /\ Skip(1, 3) = 1 /\ Skip(2, 3) = 2
  BY DEF Skip
<1>7. D(0, 0) = c /\ D(1, 0) = -s /\ D(2, 0) = 0 /\ D(3, 0) = c * x + s * y
  BY <1>0, <1>1, <1>2, <1>3, <1>6, Minor4, SMTT(30) DEF IsLevel, Det
<1>8. D(0, 1) = s /\ D(1, 1) = c /\ D(2, 1) = 0 /\ D(3, 1) = s * x - c * y
  BY <1>0, <1>1, <1>2, <1>3, <1>6, Minor4, SMTT(30) DEF IsLevel, Det
<1>9. D(0, 2) = 0 /\ D(1, 2) = 0 /\ D(2, 2) = 1 /\ D(3, 2) = w
  <2>1. D(0, 2) = 0 /\ D(1, 2) = 0
    BY <1>0, <1>1, <1>2, <1>3, <1>6, Minor4, SMTT(30) DEF IsLevel, Det
  <2>2. D(2, 2) = 1
    BY <1>0, <1>1, <1>2, <1>3, <1>6, Minor4, SMTT(30) DEF IsLevel, Det
  <2>3. D(3, 2) = w
    <3>1. D(3, 2) = Det(c, -s, x, s, c, y, 0, 0, w)
      BY <1>1, <1>3, <1>6, Minor4 DEF IsLevel
    <3>2. \A a1, b1, c1 \in Int : Det(c, -s, a1, s, c, b1, 0, 0, c1) = (c * c + s * s) * c1
      BY <1>2 DEF Det
    <3> HIDE DEF D
    <3> QED
      BY <1>0, <1>2, <3>1, <3>2
  <2> QED
    BY <2>1, <2>2, <2>3
<1>10. D(0, 3) = 0 /\ D(1, 3) = 0 /\ D(2, 3) = 0 /\ D(3, 3) = 1
  BY <1>0, <1>1, <1>2, <1>3, <1>6, Minor4, SMTT(30) DEF IsLevel, Det
<1> HIDE DEF D
<1>11. IsLevel(m, x1, y1, -r, -w)
  <2>1. \A i \in 0 .. 3 : /\ M!Entry(m, i, 0) = M!Sign(i, 0) * D(0, i)
                          /\ M!Entry(m, i, 1) = M!Sign(i, 1) * D(1, i)
                          /\ M!Entry(m, i, 2) = M!Sign(i, 2) * D(2, i)
                          /\ M!Entry(m, i, 3) = M!Sign(i, 3) * D(3, i)
    BY <1>4
  <2>2. /\ M!Entry(m, 0, 0) = c /\ M!Entry(m, 0, 1) = s
        /\ M!Entry(m, 0, 2) = 0 /\ M!Entry(m, 0, 3) = x1
    BY <1>0, <1>2, <1>5, <1>7, <2>1
  <2>3. /\ M!Entry(m, 1, 0) = -s /\ M!Entry(m, 1, 1) = c
        /\ M!Entry(m, 1, 2) = 0 /\ M!Entry(m, 1, 3) = y1
    BY <1>0, <1>2, <1>5, <1>8, <2>1
  <2>4. /\ M!Entry(m, 2, 0) = 0 /\ M!Entry(m, 2, 1) = 0
        /\ M!Entry(m, 2, 2) = 1 /\ M!Entry(m, 2, 3) = -w
    BY <1>0, <1>5, <1>9, <2>1
  <2>5. /\ M!Entry(m, 3, 0) = 0 /\ M!Entry(m, 3, 1) = 0
        /\ M!Entry(m, 3, 2) = 0 /\ M!Entry(m, 3, 3) = 1
    BY <1>5, <1>10, <2>1
  <2> HIDE DEF x1, y1
  <2> QED
    BY <1>2, <1>4, <2>2, <2>3, <2>4, <2>5 DEF IsLevel
<1>12. x1 \in Int /\ y1 \in Int /\ -r \in Int /\ -w \in Int
  BY <1>0, <1>2
<1> HIDE DEF x1, y1
<1>13. m = Level(x1, y1, -r, -w)
  BY <1>11, <1>12, LevelIs
<1> QED
  BY <1>13 DEF m, a, x1, y1, c, s, x, y, r, w, Frame, Back, Place, M!Inverted

-----------------------------------------------------------------------------
(* Poses and points.                                                        *)

IsColumn(v, n, list) ==
    /\ n \in Nat \ {0} /\ IsMatrix(v, n, 1)
    /\ \A k \in 0 .. n - 1 : M!Item(v, k) = list[k + 1] /\ list[k + 1] \in Int

\* The one column of a matrix.
LEMMA ItemIs ==
    ASSUME NEW n \in Nat \ {0}, NEW v, IsMatrix(v, n, 1), NEW k \in 0 .. n - 1
    PROVE  M!Item(v, k) = M!Entry(v, k, 0) /\ M!Item(v, k) \in Int
<1>1. v.rows = n /\ v.data \in [1 .. n * 1 -> Int]
  BY DEF IsMatrix
<1>2. k + 1 \in 1 .. n * 1 /\ 0 * n + k = k
  OBVIOUS
<1> QED
  BY <1>1, <1>2 DEF M!Entry, M!Item

Listed(list, n) == n \in Nat \ {0} /\ Len(list) = n /\ \A k \in 1 .. n : list[k] \in Int

LEMMA ColumnIs ==
    ASSUME NEW list, NEW n, Listed(list, n)
    PROVE  IsColumn(M!Column(list), n, list)
<1> DEFINE v == M!Column(list)
<1> USE DEF Listed
<1>1. PICK c : c = 1
  OBVIOUS
<1>2. v = M!FromList(n, c, list)
  BY <1>1 DEF M!Column
<1>3. Lists(list, n, c)
  BY <1>1 DEF Lists
<1>4. IsMatrix(v, n, c) /\ \A i \in 0 .. n - 1, j \in 0 .. c - 1 : M!Entry(v, i, j) = list[i * c + j + 1]
  BY <1>2, <1>3, ListEntries
<1> HIDE DEF v
<1>5. IsMatrix(v, n, 1)
  BY <1>1, <1>4
<1>6. ASSUME NEW k \in 0 .. n - 1 PROVE M!Item(v, k) = list[k + 1]
  <2>1. 0 \in 0 .. c - 1 /\ k * c + 0 + 1 = k + 1
    BY <1>1
  <2>2. M!Entry(v, k, 0) = list[k + 1]
    BY <1>4, <2>1
  <2> QED
    BY <1>5, <2>2, ItemIs
<1> QED
  BY <1>5, <1>6 DEF IsColumn, v

LEMMA SameColumn ==
    ASSUME NEW n, NEW a, NEW b, NEW list, IsColumn(a, n, list), IsColumn(b, n, list)
    PROVE  a = b
<1>1. n \in Nat \ {0} /\ 1 \in Nat \ {0} /\ IsMatrix(a, n, 1) /\ IsMatrix(b, n, 1)
  BY DEF IsColumn
<1>2. ASSUME NEW i \in 0 .. n - 1, NEW j \in 0 .. 1 - 1 PROVE M!Entry(a, i, j) = M!Entry(b, i, j)
  <2>1. j = 0
    OBVIOUS
  <2>2. M!Item(a, i) = M!Item(b, i)
    BY DEF IsColumn
  <2> QED
    BY <1>1, <2>1, <2>2, ItemIs
<1> QED
  BY <1>1, <1>2, SameMatrix

LEMMA Column2Is ==
    ASSUME NEW x \in Int, NEW y \in Int
    PROVE  /\ IsColumn(M!Column(<<x, y>>), 2, <<x, y>>)
           /\ \A v : IsColumn(v, 2, <<x, y>>) => v = M!Column(<<x, y>>)
<1>1. Listed(<<x, y>>, 2)
  BY DEF Listed
<1>2. IsColumn(M!Column(<<x, y>>), 2, <<x, y>>)
  BY <1>1, ColumnIs
<1> QED
  BY <1>2, SameColumn

LEMMA Column3Is ==
    ASSUME NEW x \in Int, NEW y \in Int, NEW z \in Int
    PROVE  /\ IsColumn(M!Column(<<x, y, z>>), 3, <<x, y, z>>)
           /\ \A v : IsColumn(v, 3, <<x, y, z>>) => v = M!Column(<<x, y, z>>)
<1>1. Listed(<<x, y, z>>, 3)
  BY DEF Listed
<1>2. IsColumn(M!Column(<<x, y, z>>), 3, <<x, y, z>>)
  BY <1>1, ColumnIs
<1> QED
  BY <1>2, SameColumn

LEMMA Column4Is ==
    ASSUME NEW x \in Int, NEW y \in Int, NEW z \in Int, NEW h \in Int
    PROVE  /\ IsColumn(M!Column(<<x, y, z, h>>), 4, <<x, y, z, h>>)
           /\ \A v : IsColumn(v, 4, <<x, y, z, h>>) => v = M!Column(<<x, y, z, h>>)
<1>1. Listed(<<x, y, z, h>>, 4)
  BY DEF Listed
<1>2. IsColumn(M!Column(<<x, y, z, h>>), 4, <<x, y, z, h>>)
  BY <1>1, ColumnIs
<1> QED
  BY <1>2, SameColumn

LEMMA Items3 ==
    ASSUME NEW x \in Int, NEW y \in Int, NEW z \in Int, NEW v, v = M!Column(<<x, y, z>>)
    PROVE  M!Item(v, 0) = x /\ M!Item(v, 1) = y /\ M!Item(v, 2) = z
<1>1. \A k \in 0 .. 3 - 1 : M!Item(v, k) = <<x, y, z>>[k + 1]
  BY Column3Is DEF IsColumn
<1> QED
  BY <1>1

LEMMA Items4 ==
    ASSUME NEW x \in Int, NEW y \in Int, NEW z \in Int, NEW h \in Int, NEW v, v = M!Column(<<x, y, z, h>>)
    PROVE  M!Item(v, 0) = x /\ M!Item(v, 1) = y /\ M!Item(v, 2) = z /\ M!Item(v, 3) = h
<1>1. \A k \in 0 .. 4 - 1 : M!Item(v, k) = <<x, y, z, h>>[k + 1]
  BY Column4Is DEF IsColumn
<1> QED
  BY <1>1

\* Back from homogeneous coordinates.
LEMMA ProjectIs ==
    ASSUME NEW n \in Nat \ {0}, NEW s \in Nat \ {0}, n = s + 1, NEW v, IsMatrix(v, n, 1), M!Item(v, s) = 1
    PROVE  IsMatrix(M!Project(v), s, 1) /\ \A k \in 0 .. s - 1 : M!Item(M!Project(v), k) = M!Item(v, k)
<1> DEFINE e == [p \in (0 .. s - 1) \X (0 .. 1 - 1) |-> M!Item(v, p[1])]
           d == [k \in 1 .. s * 1 |-> M!Item(v, (k - 1) % s)]
           u == M!Project(v)
<1>1. ASSUME NEW i \in 0 .. s - 1, NEW j \in 0 .. 1 - 1
      PROVE  e[<<i, j>>] = M!Item(v, i) /\ e[<<i, j>>] \in Int
  <2>1. i \in 0 .. n - 1
    OBVIOUS
  <2>2. M!Item(v, i) \in Int
    BY <2>1, ItemIs
  <2> QED
    BY <2>2
<1>2. u = [rows |-> s, cols |-> 1, data |-> <<>> \o d]
  <2>1. v.rows - 1 = s
    BY DEF IsMatrix
  <2> QED
    BY <2>1 DEF M!Project, M!MatrixOf
<1>3. d = [k \in 1 .. s * 1 |-> e[<<(k - 1) % s, (k - 1) \div s>>]]
  <2>1. 1 \in Nat \ {0}
    OBVIOUS
  <2> QED
    BY <2>1, EntryOfPlace
<1> HIDE DEF d, e, u
<1>4. Built(u, s, 1, d, e)
  BY <1>1, <1>2, <1>3 DEF Built
<1>5. IsMatrix(u, s, 1) /\ \A i \in 0 .. s - 1, j \in 0 .. 1 - 1 : M!Entry(u, i, j) = e[<<i, j>>]
  BY <1>4, EntriesBuilt
<1>6. ASSUME NEW k \in 0 .. s - 1 PROVE M!Item(u, k) = M!Item(v, k)
  <2>1. 0 \in 0 .. 1 - 1
    OBVIOUS
  <2>2. M!Entry(u, k, 0) = e[<<k, 0>>]
    BY <1>5, <2>1
  <2>3. M!Item(u, k) = M!Entry(u, k, 0)
    BY <1>5, ItemIs
  <2> QED
    BY <1>1, <2>1, <2>2, <2>3
<1> QED
  BY <1>5, <1>6 DEF u

\* Where a frame takes a point, and whose frame it is.
LEMMA LevelMoves ==
    ASSUME NEW x \in Int, NEW y \in Int, NEW r \in Int, NEW w \in Int,
           NEW u \in Int, NEW v \in Int, NEW z \in Int, NEW h \in Int
    PROVE  M!Times(Level(x, y, r, w), M!Column(<<u, v, z, h>>))
             = M!Column(<<M!Cos(r) * u - M!Sin(r) * v + x * h, M!Sin(r) * u + M!Cos(r) * v + y * h,
                          z + w * h, h>>)
<1> DEFINE a == Level(x, y, r, w)
           b == M!Column(<<u, v, z, h>>)
           m == M!Times(a, b)
           e1 == M!Cos(r) * u - M!Sin(r) * v + x * h
           e2 == M!Sin(r) * u + M!Cos(r) * v + y * h
           e3 == z + w * h
<1>1. IsLevel(a, x, y, r, w)
  BY LevelEntries
<1>2. IsColumn(b, 4, <<u, v, z, h>>) /\ M!Item(b, 0) = u /\ M!Item(b, 1) = v /\ M!Item(b, 2) = z
      /\ M!Item(b, 3) = h
  BY Column4Is, Items4
<1>3. M!Cos(r) \in Int /\ M!Sin(r) \in Int
  BY Angles
<1> HIDE DEF a, b
<1>4. IsMatrix(a, 4, 4) /\ IsMatrix(b, 4, 1)
  BY <1>1, <1>2 DEF IsLevel, IsColumn
<1>5. IsMatrix(m, 4, 1)
  BY <1>4, TimesEntries
<1>6. M!Entry(b, 0, 0) = u /\ M!Entry(b, 1, 0) = v /\ M!Entry(b, 2, 0) = z /\ M!Entry(b, 3, 0) = h
  BY <1>2, <1>4, ItemIs
<1>7. ASSUME NEW i \in 0 .. 3
      PROVE  M!Item(m, i) = M!Entry(a, i, 0) * u + M!Entry(a, i, 1) * v + M!Entry(a, i, 2) * z
                              + M!Entry(a, i, 3) * h
  <2>1. M!Item(m, i) = M!Entry(m, i, 0)
    BY <1>5, ItemIs
  <2>2. M!Entry(m, i, 0) = M!Entry(a, i, 0) * M!Entry(b, 0, 0) + M!Entry(a, i, 1) * M!Entry(b, 1, 0)
                             + M!Entry(a, i, 2) * M!Entry(b, 2, 0) + M!Entry(a, i, 3) * M!Entry(b, 3, 0)
    BY <1>4, Times4
  <2> QED
    BY <1>6, <2>1, <2>2
<1> HIDE DEF m
<1>8. M!Item(m, 0) = e1 /\ M!Item(m, 1) = e2 /\ M!Item(m, 2) = e3 /\ M!Item(m, 3) = h
  BY <1>1, <1>3, <1>7 DEF IsLevel
<1>9. e1 \in Int /\ e2 \in Int /\ e3 \in Int
  BY <1>3
<1> HIDE DEF e1, e2, e3
<1>10. IsColumn(m, 4, <<e1, e2, e3, h>>)
  BY <1>5, <1>8, <1>9 DEF IsColumn
<1>11. m = M!Column(<<e1, e2, e3, h>>)
  BY <1>9, <1>10, Column4Is
<1> QED
  BY <1>11 DEF m, a, b, e1, e2, e3

LEMMA Project4 ==
    ASSUME NEW x \in Int, NEW y \in Int, NEW z \in Int
    PROVE  M!Project(M!Column(<<x, y, z, 1>>)) = M!Column(<<x, y, z>>)
<1> DEFINE v == M!Column(<<x, y, z, 1>>)
           u == M!Project(v)
<1>1. IsMatrix(v, 4, 1) /\ M!Item(v, 0) = x /\ M!Item(v, 1) = y /\ M!Item(v, 2) = z /\ M!Item(v, 3) = 1
  BY Column4Is, Items4 DEF IsColumn
<1> HIDE DEF v
<1>2. IsMatrix(u, 3, 1) /\ \A k \in 0 .. 3 - 1 : M!Item(u, k) = M!Item(v, k)
  BY <1>1, ProjectIs
<1> HIDE DEF u
<1>3. IsColumn(u, 3, <<x, y, z>>)
  BY <1>1, <1>2 DEF IsColumn
<1> QED
  BY <1>3, Column3Is DEF u, v

LEMMA PoseOfLevel ==
    ASSUME NEW x \in Int, NEW y \in Int, NEW r \in Int, NEW w \in Int
    PROVE  M!PoseOf(Level(x, y, r, w)) = M!Column(<<x, y, w>>)
<1>1. M!Times(Level(x, y, r, w), M!Column(<<0, 0, 0, 1>>)) = M!Column(<<x, y, w, 1>>)
  <2>1. M!Times(Level(x, y, r, w), M!Column(<<0, 0, 0, 1>>))
          = M!Column(<<M!Cos(r) * 0 - M!Sin(r) * 0 + x * 1, M!Sin(r) * 0 + M!Cos(r) * 0 + y * 1,
                       0 + w * 1, 1>>)
    BY LevelMoves
  <2>2. M!Cos(r) \in Int /\ M!Sin(r) \in Int
    BY Angles
  <2> QED
    BY <2>1, <2>2
<1> QED
  BY <1>1, Project4 DEF M!PoseOf, M!Zero

\* The frames of poses, and of transforms of tf.
LEMMA Turns ==
    ASSUME NEW w \in Int
    PROVE  M!Rotate25(w) = Level(0, 0, w, w) /\ M!Rotate3(w) = Level(0, 0, w, 0)
BY DEF M!Rotate25, M!Rotate3, Level

LEMMA Moves ==
    ASSUME NEW x \in Int, NEW y \in Int
    PROVE  M!Translate25(x, y) = Level(x, y, 0, 0)
<1>1. M!Cos(0) = 1 /\ M!Sin(0) = 0 /\ -M!Sin(0) = 0
  BY Quarters
<1> QED
  BY <1>1 DEF M!Translate25, Level

LEMMA Transforms ==
    ASSUME NEW x \in Int, NEW y \in Int, NEW w \in Int
    PROVE  /\ M!Transform25(M!Column(<<x, y, w>>)) = Level(x, y, w, w)
           /\ M!ConvertTransform3(M!Column(<<x, y, w>>)) = Level(x, y, w, 0)
           /\ M!GetYaw(w) \in Int
           /\ M!ConvertTransform25(M!Column(<<x, y, w>>)) = Level(x, y, M!GetYaw(w), M!GetYaw(w))
<1> DEFINE p == M!Column(<<x, y, w>>)
           z == M!GetYaw(w)
<1>1. ASSUME NEW u \in Int, NEW v \in Int
      PROVE  M!Times(M!Translate25(x, y), Level(0, 0, u, v)) = Level(x, y, u, v)
  <2> DEFINE p1 == Place(x, y, 0, 0)
             q1 == Place(0, 0, u, v)
  <2>1. /\ p1 \in Places /\ q1 \in Places /\ Frame(q1) = Level(0, 0, u, v)
        /\ Frame(p1) = M!Translate25(x, y)
    BY Moves DEF Places, Place, Frame
  <2>2. M!Cos(0) = 1 /\ M!Sin(0) = 0
    BY Quarters
  <2>3. Then(p1, q1) = Place(x, y, u, v)
    BY <2>2 DEF Then, Place
  <2>4. M!Times(Frame(p1), Frame(q1)) = Frame(Then(p1, q1))
    BY <2>1, FrameTimes
  <2> HIDE DEF p1, q1
  <2>5. M!Times(M!Translate25(x, y), Level(0, 0, u, v)) = Frame(Place(x, y, u, v))
    BY <2>1, <2>3, <2>4
  <2> QED
    BY <2>5 DEF Frame, Place
<1>2. z \in Int
  BY DEF M!GetYaw
<1>3. M!Item(p, 0) = x /\ M!Item(p, 1) = y /\ M!Item(p, 2) = w
  BY Items3
<1>4. ASSUME NEW q \in Int
      PROVE  M!Transform25(M!Column(<<x, y, q>>)) = Level(x, y, q, q)
  <2>1. /\ M!Item(M!Column(<<x, y, q>>), 0) = x /\ M!Item(M!Column(<<x, y, q>>), 1) = y
        /\ M!Item(M!Column(<<x, y, q>>), 2) = q
    BY Items3
  <2> QED
    BY <1>1, <2>1, Turns DEF M!Transform25
<1>5. M!ConvertTransform3(p) = Level(x, y, w, 0)
  BY <1>1, <1>3, Turns DEF M!ConvertTransform3
<1> HIDE DEF z
<1>6. M!ConvertTransform25(p) = M!Transform25(M!Column(<<x, y, z>>))
  BY <1>3 DEF M!ConvertTransform25, z
<1> QED
  BY <1>2, <1>4, <1>5, <1>6 DEF p, z

\* The group of places.
LEMMA PlaceTypes ==
    ASSUME NEW p \in Places, NEW q \in Places
    PROVE  /\ p.x \in Int /\ p.y \in Int /\ p.r \in Int /\ p.w \in Int
           /\ Then(p, q) \in Places /\ Back(p) \in Places
<1>1. M!Cos(p.r) \in Int /\ M!Sin(p.r) \in Int
  BY Angles DEF Places
<1> QED
  BY <1>1 DEF Places, Place, Then, Back

LEMMA PlaceIs ==
    ASSUME NEW p \in Places, NEW q \in Places, p.x = q.x, p.y = q.y, p.r = q.r, p.w = q.w
    PROVE  p = q
BY DEF Places

LEMMA ThenIs ==
    ASSUME NEW p \in Places, NEW q \in Places
    PROVE  /\ Then(p, q).x = p.x + M!Cos(p.r) * q.x - M!Sin(p.r) * q.y
           /\ Then(p, q).y = p.y + M!Sin(p.r) * q.x + M!Cos(p.r) * q.y
           /\ Then(p, q).r = p.r + q.r /\ Then(p, q).w = p.w + q.w
BY DEF Then, Place

LEMMA BackIs ==
    ASSUME NEW p \in Places
    PROVE  /\ Back(p).x = -(M!Cos(p.r) * p.x + M!Sin(p.r) * p.y)
           /\ Back(p).y = M!Sin(p.r) * p.x - M!Cos(p.r) * p.y
           /\ Back(p).r = -p.r /\ Back(p).w = -p.w
BY DEF Back, Place

LEMMA ThenAssociates ==
    ASSUME NEW p \in Places, NEW q \in Places, NEW s \in Places
    PROVE  Then(Then(p, q), s) = Then(p, Then(q, s))
<1> DEFINE a == Then(Then(p, q), s)
           b == Then(p, Then(q, s))
           pq == Then(p, q)
           qs == Then(q, s)
<1>1. pq \in Places /\ qs \in Places /\ a \in Places /\ b \in Places
  BY PlaceTypes
<1>2. /\ p.x \in Int /\ p.y \in Int /\ p.r \in Int /\ p.w \in Int
      /\ q.x \in Int /\ q.y \in Int /\ q.r \in Int /\ q.w \in Int
      /\ s.x \in Int /\ s.y \in Int /\ s.r \in Int /\ s.w \in Int
  BY PlaceTypes
<1>3. /\ pq.x = p.x + M!Cos(p.r) * q.x - M!Sin(p.r) * q.y
      /\ pq.y = p.y + M!Sin(p.r) * q.x + M!Cos(p.r) * q.y /\ pq.r = p.r + q.r /\ pq.w = p.w + q.w
      /\ qs.x = q.x + M!Cos(q.r) * s.x - M!Sin(q.r) * s.y
      /\ qs.y = q.y + M!Sin(q.r) * s.x + M!Cos(q.r) * s.y /\ qs.r = q.r + s.r /\ qs.w = q.w + s.w
  BY ThenIs
<1>4. /\ a.x = pq.x + M!Cos(pq.r) * s.x - M!Sin(pq.r) * s.y
      /\ a.y = pq.y + M!Sin(pq.r) * s.x + M!Cos(pq.r) * s.y /\ a.r = pq.r + s.r /\ a.w = pq.w + s.w
      /\ b.x = p.x + M!Cos(p.r) * qs.x - M!Sin(p.r) * qs.y
      /\ b.y = p.y + M!Sin(p.r) * qs.x + M!Cos(p.r) * qs.y /\ b.r = p.r + qs.r /\ b.w = p.w + qs.w
  BY <1>1, ThenIs
<1>5. /\ M!Cos(p.r) \in Int /\ M!Sin(p.r) \in Int /\ M!Cos(q.r) \in Int /\ M!Sin(q.r) \in Int
      /\ M!Cos(p.r + q.r) = M!Cos(p.r) * M!Cos(q.r) - M!Sin(p.r) * M!Sin(q.r)
      /\ M!Sin(p.r + q.r) = M!Sin(p.r) * M!Cos(q.r) + M!Cos(p.r) * M!Sin(q.r)
  BY <1>2, Angles, AnglesAdd
<1> HIDE DEF a, b, pq, qs
<1>6. a.x = b.x /\ a.y = b.y
  BY <1>2, <1>3, <1>4, <1>5
<1>7. a.r = b.r /\ a.w = b.w
  BY <1>2, <1>3, <1>4
<1> QED
  BY <1>1, <1>6, <1>7, PlaceIs DEF a, b

Home == Place(0, 0, 0, 0)

LEMMA BackUndoes ==
    ASSUME NEW p \in Places
    PROVE  /\ Home \in Places
           /\ Then(p, Back(p)) = Home /\ Then(Back(p), p) = Home
           /\ Then(Home, p) = p /\ Then(p, Home) = p
<1> DEFINE b == Back(p)
<1>1. Home \in Places /\ b \in Places /\ Then(p, b) \in Places /\ Then(b, p) \in Places
      /\ Then(Home, p) \in Places /\ Then(p, Home) \in Places
  BY PlaceTypes DEF Home, Places, Place
<1>2. p.x \in Int /\ p.y \in Int /\ p.r \in Int /\ p.w \in Int
  BY PlaceTypes
<1>3. /\ M!Cos(p.r) \in Int /\ M!Sin(p.r) \in Int
      /\ M!Cos(p.r) * M!Cos(p.r) + M!Sin(p.r) * M!Sin(p.r) = 1
      /\ M!Cos(-p.r) = M!Cos(p.r) /\ M!Sin(-p.r) = -M!Sin(p.r)
      /\ M!Cos(0) = 1 /\ M!Sin(0) = 0
  <2>1. M!Cos(0) = 1 /\ M!Sin(0) = 0
    BY Quarters
  <2> QED
    BY <1>2, <2>1, Angles
<1>4. Home.x = 0 /\ Home.y = 0 /\ Home.r = 0 /\ Home.w = 0
  BY DEF Home, Place
<1>5. Then(Home, p) = p
  <2>1. /\ Then(Home, p).x = Home.x + M!Cos(Home.r) * p.x - M!Sin(Home.r) * p.y
        /\ Then(Home, p).y = Home.y + M!Sin(Home.r) * p.x + M!Cos(Home.r) * p.y
        /\ Then(Home, p).r = Home.r + p.r /\ Then(Home, p).w = Home.w + p.w
    BY <1>1, ThenIs
  <2> QED
    BY <1>1, <1>2, <1>3, <1>4, <2>1, PlaceIs
<1>6. Then(p, Home) = p
  <2>1. /\ Then(p, Home).x = p.x + M!Cos(p.r) * Home.x - M!Sin(p.r) * Home.y
        /\ Then(p, Home).y = p.y + M!Sin(p.r) * Home.x + M!Cos(p.r) * Home.y
        /\ Then(p, Home).r = p.r + Home.r /\ Then(p, Home).w = p.w + Home.w
    BY <1>1, ThenIs
  <2> QED
    BY <1>1, <1>2, <1>3, <1>4, <2>1, PlaceIs
<1>7. /\ b.x = -(M!Cos(p.r) * p.x + M!Sin(p.r) * p.y) /\ b.y = M!Sin(p.r) * p.x - M!Cos(p.r) * p.y
      /\ b.r = -p.r /\ b.w = -p.w
  BY BackIs
<1> HIDE DEF b, Home
<1>8. Then(b, p) = Home
  <2>1. /\ Then(b, p).x = b.x + M!Cos(b.r) * p.x - M!Sin(b.r) * p.y
        /\ Then(b, p).y = b.y + M!Sin(b.r) * p.x + M!Cos(b.r) * p.y
        /\ Then(b, p).r = b.r + p.r /\ Then(b, p).w = b.w + p.w
    BY <1>1, ThenIs
  <2>2. Then(b, p).x = 0 /\ Then(b, p).y = 0 /\ Then(b, p).r = 0 /\ Then(b, p).w = 0
    BY <1>2, <1>3, <1>7, <2>1
  <2> QED
    BY <1>1, <1>4, <2>2, PlaceIs
<1>9. Then(p, b) = Home
  <2>1. /\ Then(p, b).x = p.x + M!Cos(p.r) * b.x - M!Sin(p.r) * b.y
        /\ Then(p, b).y = p.y + M!Sin(p.r) * b.x + M!Cos(p.r) * b.y
        /\ Then(p, b).r = p.r + b.r /\ Then(p, b).w = p.w + b.w
    BY <1>1, ThenIs
  <2>2. Then(p, b).x = 0 /\ Then(p, b).y = 0 /\ Then(p, b).r = 0 /\ Then(p, b).w = 0
    <3>1. \A c, d, x, y \in Int :
            /\ x + c * (-(c * x + d * y)) - d * (d * x - c * y) = x - (c * c + d * d) * x
            /\ y + d * (-(c * x + d * y)) + c * (d * x - c * y) = y - (c * c + d * d) * y
      OBVIOUS
    <3> DEFINE c == M!Cos(p.r)  d == M!Sin(p.r)  x == p.x  y == p.y
    <3>2. /\ Then(p, b).x = x + c * (-(c * x + d * y)) - d * (d * x - c * y)
          /\ Then(p, b).y = y + d * (-(c * x + d * y)) + c * (d * x - c * y)
      BY <1>7, <2>1
    <3>3. c \in Int /\ d \in Int /\ x \in Int /\ y \in Int /\ c * c + d * d = 1
      BY <1>2, <1>3
    <3>4. Then(p, b).r = 0 /\ Then(p, b).w = 0
      BY <1>2, <1>7, <2>1
    <3> HIDE DEF c, d, x, y
    <3>5. Then(p, b).x = x - (c * c + d * d) * x /\ Then(p, b).y = y - (c * c + d * d) * y
      BY <3>1, <3>2, <3>3
    <3> QED
      BY <3>3, <3>4, <3>5
  <2> QED
    BY <1>1, <1>4, <2>2, PlaceIs
<1> QED
  BY <1>1, <1>5, <1>6, <1>8, <1>9 DEF b

-----------------------------------------------------------------------------
(* Where the robot is.                                                      *)

\* The frames of the inputs.
Upright(f) == Place(f[1], f[2], M!GetYaw(f[3]), M!GetYaw(f[3]))

LEMMA FrameInput ==
    ASSUME NEW f \in Int \X Int \X Int
    PROVE  /\ Upright(f) \in Places
           /\ M!ConvertTransform25(M!Column(f)) = Frame(Upright(f))
<1>1. f = <<f[1], f[2], f[3]>> /\ f[1] \in Int /\ f[2] \in Int /\ f[3] \in Int
  OBVIOUS
<1> DEFINE x == f[1]  y == f[2]  w == f[3]
<1> HIDE DEF x, y, w
<1>2. x \in Int /\ y \in Int /\ w \in Int /\ f = <<x, y, w>>
  BY <1>1 DEF x, y, w
<1>3. M!GetYaw(w) \in Int /\ M!ConvertTransform25(M!Column(<<x, y, w>>)) = Level(x, y, M!GetYaw(w), M!GetYaw(w))
  BY <1>2, Transforms
<1> QED
  BY <1>2, <1>3 DEF x, y, w, Upright, Places, Place, Frame

\* A pose with its yaw for the frame's rotation.
Posed(p) == p \in Places /\ p.r = p.w
PoseAt(p) == M!Column(<<p.x, p.y, p.w>>)

LEMMA PoseFrames ==
    ASSUME NEW p, Posed(p)
    PROVE  /\ M!Transform25(PoseAt(p)) = Frame(p)
           /\ M!OdomToMap(PoseAt(p)) = Frame(p)
<1>1. p.x \in Int /\ p.y \in Int /\ p.w \in Int /\ p.r = p.w
  BY DEF Posed, Places
<1> QED
  BY <1>1, Transforms DEF PoseAt, Frame, M!OdomToMap

LEMMA PoseOfFrame ==
    ASSUME NEW p \in Places
    PROVE  M!PoseOf(Frame(p)) = PoseAt(p)
<1>1. p.x \in Int /\ p.y \in Int /\ p.w \in Int /\ p.r \in Int
  BY DEF Places
<1> QED
  BY <1>1, PoseOfLevel DEF PoseAt, Frame

\* A pose on the frame g, from odometry l and offset o: as the node composes it.
LEMMA PoseComposed ==
    ASSUME NEW g \in Places, NEW o, Posed(o), NEW l \in Places
    PROVE  /\ Then(Then(Back(g), o), l) \in Places
           /\ M!PoseOf(M!Times(M!Times(M!Inverted(Frame(g)), M!OdomToMap(PoseAt(o))), Frame(l)))
                = PoseAt(Then(Then(Back(g), o), l))
<1> DEFINE b == Back(g)
           c == Then(b, o)
           d == Then(c, l)
<1>1. o \in Places /\ M!OdomToMap(PoseAt(o)) = Frame(o)
  BY PoseFrames DEF Posed
<1>2. b \in Places /\ M!Inverted(Frame(g)) = Frame(b)
  BY PlaceTypes, FrameInverted
<1> HIDE DEF b
<1>3. c \in Places /\ M!Times(Frame(b), Frame(o)) = Frame(c)
  BY <1>1, <1>2, PlaceTypes, FrameTimes
<1> HIDE DEF c
<1>4. d \in Places /\ M!Times(Frame(c), Frame(l)) = Frame(d)
  BY <1>3, PlaceTypes, FrameTimes
<1> HIDE DEF d
<1>5. M!PoseOf(Frame(d)) = PoseAt(d)
  BY <1>4, PoseOfFrame
<1> QED
  BY <1>1, <1>2, <1>3, <1>4, <1>5 DEF b, c, d

\* The offset that takes odometry l to e.
LEMMA OffsetIs ==
    ASSUME NEW e, Posed(e), NEW l, Posed(l)
    PROVE  /\ Posed(Then(e, Back(l)))
           /\ M!NewOffset(Frame(e), Frame(l)) = PoseAt(Then(e, Back(l)))
<1> DEFINE b == Back(l)
           o == Then(e, b)
<1>1. e \in Places /\ l \in Places /\ e.r = e.w /\ l.r = l.w
  BY DEF Posed
<1>2. b \in Places /\ M!Inverted(Frame(l)) = Frame(b) /\ b.r = b.w
  BY <1>1, PlaceTypes, FrameInverted, BackIs
<1> HIDE DEF b
<1>3. o \in Places /\ M!Times(Frame(e), Frame(b)) = Frame(o)
  BY <1>1, <1>2, PlaceTypes, FrameTimes
<1>4. o.r = o.w
  BY <1>1, <1>2, ThenIs
<1> HIDE DEF o
<1>5. M!PoseOf(Frame(o)) = PoseAt(o)
  BY <1>3, PoseOfFrame
<1> QED
  BY <1>2, <1>3, <1>4, <1>5 DEF b, o, Posed, M!NewOffset

\* With that offset the robot is at e, seen from any frame.
LEMMA OffsetLocates ==
    ASSUME NEW g \in Places, NEW e \in Places, NEW l \in Places
    PROVE  Then(Then(Back(g), Then(e, Back(l))), l) = Then(Back(g), e)
<1> DEFINE b == Back(g)
           c == Back(l)
           o == Then(e, c)
<1>1. b \in Places /\ c \in Places /\ o \in Places
  BY PlaceTypes
<1>2. Then(Then(b, o), l) = Then(b, Then(o, l))
  BY <1>1, ThenAssociates
<1>3. Then(o, l) = Then(e, Then(c, l))
  BY <1>1, ThenAssociates
<1>4. Then(c, l) = Home /\ Then(e, Home) = e
  BY BackUndoes
<1> QED
  BY <1>2, <1>3, <1>4

\* The same place up to whole turns.
Near(p, q) == p.x = q.x /\ p.y = q.y /\ (p.w - q.w) % 4 = 0

LEMMA NearThen ==
    ASSUME NEW a \in Places, NEW p \in Places, NEW q \in Places, Near(p, q)
    PROVE  Near(Then(a, p), Then(a, q))
<1>1. /\ Then(a, p).x = a.x + M!Cos(a.r) * p.x - M!Sin(a.r) * p.y
      /\ Then(a, p).y = a.y + M!Sin(a.r) * p.x + M!Cos(a.r) * p.y
      /\ Then(a, p).w = a.w + p.w
      /\ Then(a, q).x = a.x + M!Cos(a.r) * q.x - M!Sin(a.r) * q.y
      /\ Then(a, q).y = a.y + M!Sin(a.r) * q.x + M!Cos(a.r) * q.y
      /\ Then(a, q).w = a.w + q.w
  BY ThenIs
<1>2. a.w \in Int /\ p.w \in Int /\ q.w \in Int
  BY DEF Places
<1>3. Then(a, p).w - Then(a, q).w = p.w - q.w
  BY <1>1, <1>2
<1> QED
  BY <1>1, <1>3 DEF Near

\* tf keeps the angle up to whole turns.
LEMMA YawKept ==
    ASSUME NEW w \in Int
    PROVE  M!GetYaw(w) \in Int /\ (M!GetYaw(w) - w) % 4 = 0
BY DEF M!GetYaw

LEMMA NearAlike ==
    ASSUME NEW p \in Places, NEW q \in Places, Near(p, q)
    PROVE  Alike(PoseAt(p), PoseAt(q))
<1>1. p.x \in Int /\ p.y \in Int /\ p.w \in Int /\ q.x \in Int /\ q.y \in Int /\ q.w \in Int
  BY DEF Places
<1>2. M!Item(PoseAt(p), 0) = p.x /\ M!Item(PoseAt(p), 1) = p.y /\ M!Item(PoseAt(p), 2) = p.w
  BY <1>1, Items3 DEF PoseAt
<1>3. M!Item(PoseAt(q), 0) = q.x /\ M!Item(PoseAt(q), 1) = q.y /\ M!Item(PoseAt(q), 2) = q.w
  BY <1>1, Items3 DEF PoseAt
<1> QED
  BY <1>2, <1>3 DEF Near, Alike

\* The pose estimate as the node stores it: where the robot is, its yaw from tf.
LEMMA EstimateLocates ==
    ASSUME NEW f \in Int \X Int \X Int, NEW l \in Int \X Int \X Int, NEW p, Posed(p),
           NEW g \in Places, NEW h \in Places, Then(g, h) = Then(Upright(f), p)
    PROVE  LET W == M!ConvertTransform25(M!Column(f))
               L == M!ConvertTransform25(M!Column(l))
               estimate == M!PoseOf(M!Times(W, M!Transform25(PoseAt(p))))
               offset == M!NewOffset(M!ConvertTransform25(estimate), L)
           IN  Alike(M!PoseOf(M!Times(M!Times(M!Inverted(Frame(g)), M!OdomToMap(offset)), L)),
                     PoseAt(h))
<1> DEFINE pw == Upright(f)
           pl == Upright(l)
           W == M!ConvertTransform25(M!Column(f))
           L == M!ConvertTransform25(M!Column(l))
           e == Then(pw, p)
           estimate == M!PoseOf(M!Times(W, M!Transform25(PoseAt(p))))
           i == <<e.x, e.y, e.w>>
           pe == Upright(i)
           o == Then(pe, Back(pl))
           offset == M!NewOffset(M!ConvertTransform25(estimate), L)
           u == Then(Then(Back(g), o), pl)
<1>1. pw \in Places /\ W = Frame(pw) /\ pl \in Places /\ L = Frame(pl) /\ Posed(pl)
  BY FrameInput DEF Posed, Upright, Place
<1> HIDE DEF W, L, pw, pl
<1>2. p \in Places /\ M!Transform25(PoseAt(p)) = Frame(p)
  BY PoseFrames DEF Posed
<1>3. e \in Places /\ M!Times(Frame(pw), Frame(p)) = Frame(e)
  BY <1>1, <1>2, PlaceTypes, FrameTimes
<1> HIDE DEF e
<1>4. estimate = PoseAt(e) /\ PoseAt(e) = M!Column(i)
  BY <1>1, <1>2, <1>3, PoseOfFrame DEF PoseAt
<1>5. i \in Int \X Int \X Int
  BY <1>3 DEF Places
<1>6. pe \in Places /\ M!ConvertTransform25(M!Column(i)) = Frame(pe)
  BY <1>5, FrameInput
<1>7. Posed(pe) /\ Near(pe, e)
  <2>1. e.w \in Int /\ (M!GetYaw(e.w) - e.w) % 4 = 0
    BY <1>3, YawKept DEF Places
  <2> QED
    BY <1>6, <2>1 DEF Posed, Near, Upright, Place
<1> HIDE DEF pe, estimate, i
<1>8. Posed(o) /\ offset = PoseAt(o)
  <2>1. offset = M!NewOffset(Frame(pe), Frame(pl))
    BY <1>1, <1>4, <1>6
  <2> QED
    BY <1>1, <1>7, <2>1, OffsetIs
<1> HIDE DEF offset
<1>9. u = Then(Back(g), pe)
  BY <1>1, <1>6, OffsetLocates
<1>10. Then(Back(g), e) = h
  <2>1. e = Then(g, h)
    BY DEF e, pw
  <2>2. Back(g) \in Places
    BY PlaceTypes
  <2>3. Then(Then(Back(g), g), h) = Then(Back(g), Then(g, h))
    BY <2>2, ThenAssociates
  <2> QED
    BY <2>1, <2>3, BackUndoes
<1>11. Back(g) \in Places
  BY PlaceTypes
<1>12. Near(u, h) /\ u \in Places
  BY <1>3, <1>6, <1>7, <1>9, <1>10, <1>11, NearThen, PlaceTypes
<1> HIDE DEF o, u
<1>13. M!PoseOf(M!Times(M!Times(M!Inverted(Frame(g)), M!OdomToMap(PoseAt(o))), Frame(pl))) = PoseAt(u)
  BY <1>1, <1>8, PoseComposed DEF u
<1>14. Alike(PoseAt(u), PoseAt(h))
  BY <1>12, NearAlike
<1> QED
  BY <1>1, <1>8, <1>13, <1>14 DEF offset, estimate, W, L

\* The offset of a match: on the tile's frame g, the robot is where it was matched.
LEMMA MatchLocates ==
    ASSUME NEW g, Posed(g), NEW l \in Int \X Int \X Int, NEW x \in Int, NEW y \in Int, NEW w \in Int
    PROVE  LET L == M!ConvertTransform25(M!Column(l))
               best == M!Column(<<x, y, w>>)
           IN  M!GridPose(Frame(g), M!NewOffset(M!Times(Frame(g), M!Transform25(best)), L), L) = best
<1> DEFINE pl == Upright(l)
           L == M!ConvertTransform25(M!Column(l))
           best == M!Column(<<x, y, w>>)
           q == Place(x, y, w, w)
           e == Then(g, q)
           o == Then(e, Back(pl))
           u == Then(Then(Back(g), o), pl)
           offset == M!NewOffset(M!Times(Frame(g), M!Transform25(best)), L)
<1>1. pl \in Places /\ L = Frame(pl) /\ Posed(pl)
  BY FrameInput DEF Posed, Upright, Place
<1> HIDE DEF L, pl
<1>2. q \in Places /\ Posed(q) /\ PoseAt(q) = best
  BY DEF Posed, Places, Place, PoseAt
<1> HIDE DEF q, best
<1>3. g \in Places
  BY DEF Posed
<1>4. M!Times(Frame(g), M!Transform25(best)) = Frame(e) /\ e \in Places
  BY <1>2, <1>3, PoseFrames, FrameTimes, PlaceTypes
<1>5. Posed(e)
  BY <1>2, <1>3, <1>4, ThenIs DEF Posed
<1>6. u = q
  <2>1. u = Then(Back(g), e)
    BY <1>1, <1>3, <1>4, OffsetLocates
  <2>2. Then(Then(Back(g), g), q) = Then(Back(g), Then(g, q))
    BY <1>2, <1>3, PlaceTypes, ThenAssociates
  <2> QED
    BY <1>2, <1>3, <2>1, <2>2, BackUndoes
<1> HIDE DEF e
<1>7. Posed(o) /\ offset = PoseAt(o)
  BY <1>1, <1>4, <1>5, OffsetIs
<1> HIDE DEF o
<1>8. M!PoseOf(M!Times(M!Times(M!Inverted(Frame(g)), M!OdomToMap(PoseAt(o))), Frame(pl))) = PoseAt(u)
  BY <1>1, <1>3, <1>7, PoseComposed
<1> QED
  BY <1>1, <1>2, <1>6, <1>7, <1>8 DEF M!GridPose, L, best

\* After a pose estimate the robot is on the world map, and on the tile cut
\* there, where it says, and after a match where on the tile it was matched, for
\* every map frame and odometry (neo_localization_node.cpp:314, 430, 531, 596).
THEOREM TileAroundRobotHolds == Spec => []TileAroundRobot
<1>1. TileAroundRobot
  <2> SUFFICES ASSUME NEW f \in Frames, NEW l \in Frames, NEW x \in Poses, NEW y \in Poses,
                      NEW yaw \in 0 .. 3, Origin(x) = tile.x, Origin(y) = tile.y
               PROVE  LET W == M!ConvertTransform25(Column3(f))
                          L == M!ConvertTransform25(Column3(l))
                          pose == Column3(<<x, y, yaw>>)
                          estimate == M!PoseOf(M!Times(W, M!Transform25(pose)))
                          offset == M!NewOffset(M!ConvertTransform25(estimate), L)
                          G == M!TileFrame(W, tile.x * Sub, tile.y * Sub)
                      IN  /\ Alike(M!WorldPose(W, offset, L), pose)
                          /\ Alike(M!GridPose(G, offset, L),
                                   Column3(<<x - tile.x * Sub, y - tile.y * Sub, yaw>>))
                          /\ \A best \in MatchPoses :
                               M!GridPose(G, M!NewOffset(M!Times(G, M!Transform25(Column3(best))), L), L)
                                 = Column3(best)
    BY ZenonT(60) DEF TileAroundRobot
  <2> DEFINE X == tile.x * Sub
             Y == tile.y * Sub
             p == Place(x, y, yaw, yaw)
             h == Place(x - X, y - Y, yaw, yaw)
             t == Place(X, Y, 0, 0)
             pw == Upright(f)
             g == Then(pw, t)
             W == M!ConvertTransform25(M!Column(f))
  <2>1. f \in Int \X Int \X Int /\ l \in Int \X Int \X Int
    BY InputsAssumption
  <2>2. x \in Int /\ y \in Int /\ yaw \in Int /\ X \in Int /\ Y \in Int
    BY WorldsAssumption, SubAssumption, TileAssumption DEF Origin, Pixel
  <2> HIDE DEF X, Y
  <2>3. p \in Places /\ Posed(p) /\ h \in Places /\ t \in Places
        /\ PoseAt(p) = M!Column(<<x, y, yaw>>) /\ PoseAt(h) = M!Column(<<x - X, y - Y, yaw>>)
    BY <2>2 DEF Places, Place, Posed, PoseAt
  <2>4. pw \in Places /\ W = Frame(pw)
    BY <2>1, FrameInput
  <2>5. Frame(t) = M!Translate25(X, Y)
    BY <2>2, Moves DEF Frame, Place
  <2>6. Then(t, h) = p
    <3>1. Then(t, h).x = t.x + M!Cos(t.r) * h.x - M!Sin(t.r) * h.y
          /\ Then(t, h).y = t.y + M!Sin(t.r) * h.x + M!Cos(t.r) * h.y
          /\ Then(t, h).r = t.r + h.r /\ Then(t, h).w = t.w + h.w
      BY <2>3, ThenIs
    <3>2. t.x = X /\ t.y = Y /\ t.r = 0 /\ t.w = 0 /\ h.x = x - X /\ h.y = y - Y /\ h.r = yaw /\ h.w = yaw
          /\ p.x = x /\ p.y = y /\ p.r = yaw /\ p.w = yaw
      BY DEF Place
    <3>3. M!Cos(0) = 1 /\ M!Sin(0) = 0
      BY Quarters
    <3>4. Then(t, h) \in Places
      BY <2>3, PlaceTypes
    <3> HIDE DEF t, h, p
    <3>5. Then(t, h).x = p.x /\ Then(t, h).y = p.y /\ Then(t, h).r = p.r /\ Then(t, h).w = p.w
      BY <2>2, <3>1, <3>2, <3>3
    <3> QED
      BY <2>3, <3>4, <3>5, PlaceIs
  <2>11. pw.r = pw.w /\ t.r = 0 /\ t.w = 0
    BY DEF pw, t, Upright, Place
  <2> HIDE DEF p, h, t, pw, W
  <2>7. g \in Places /\ M!TileFrame(W, X, Y) = Frame(g)
    BY <2>3, <2>4, <2>5, PlaceTypes, FrameTimes DEF M!TileFrame
  <2>8. Then(g, h) = Then(pw, p)
    BY <2>3, <2>4, <2>6, ThenAssociates
  <2>12. Posed(g)
    BY <2>3, <2>4, <2>7, <2>11, ThenIs DEF Posed
  <2> HIDE DEF g
  <2> DEFINE L == M!ConvertTransform25(M!Column(l))
             estimate == M!PoseOf(M!Times(W, M!Transform25(PoseAt(p))))
             offset == M!NewOffset(M!ConvertTransform25(estimate), L)
  <2>9. Alike(M!WorldPose(W, offset, L), PoseAt(p))
    BY <2>1, <2>3, <2>4, EstimateLocates DEF pw, W, M!WorldPose
  <2>10. Alike(M!GridPose(Frame(g), offset, L), PoseAt(h))
    BY <2>1, <2>3, <2>7, <2>8, EstimateLocates DEF pw, W, M!GridPose
  <2>13. ASSUME NEW best \in MatchPoses
         PROVE  M!GridPose(Frame(g), M!NewOffset(M!Times(Frame(g), M!Transform25(Column3(best))), L), L)
                  = Column3(best)
    <3>1. best \in Int \X Int \X Int
      BY InputsAssumption
    <3>2. PICK a \in Int, b \in Int, c \in Int : best = <<a, b, c>>
      BY <3>1
    <3> QED
      BY <2>1, <2>12, <3>2, MatchLocates DEF Column3
  <2> QED
    BY <2>3, <2>7, <2>9, <2>10, <2>13 DEF Column3, X, Y, W
<1> QED
  BY <1>1, PTL

-----------------------------------------------------------------------------
(* Where the solver looks.                                                  *)

\* A frame in the plane, by its rotation and its origin.
IsFlat(m, c, s, x, y) ==
    /\ IsMatrix(m, 3, 3) /\ c \in Int /\ s \in Int /\ x \in Int /\ y \in Int
    /\ M!Entry(m, 0, 0) = c /\ M!Entry(m, 0, 1) = -s /\ M!Entry(m, 0, 2) = x
    /\ M!Entry(m, 1, 0) = s /\ M!Entry(m, 1, 1) = c  /\ M!Entry(m, 1, 2) = y
    /\ M!Entry(m, 2, 0) = 0 /\ M!Entry(m, 2, 1) = 0  /\ M!Entry(m, 2, 2) = 1

LEMMA FlatEntries ==
    ASSUME NEW c \in Int, NEW s \in Int, NEW x \in Int, NEW y \in Int
    PROVE  IsFlat(M!FromList(3, 3, <<c, -s, x, s, c, y, 0, 0, 1>>), c, s, x, y)
<1> DEFINE list == <<c, -s, x, s, c, y, 0, 0, 1>>
           m == M!FromList(3, 3, list)
<1>1. /\ list[1] = c /\ list[2] = -s /\ list[3] = x /\ list[4] = s /\ list[5] = c /\ list[6] = y
      /\ list[7] = 0 /\ list[8] = 0 /\ list[9] = 1
  OBVIOUS
<1> HIDE DEF list
<1>2. Lists(list, 3, 3)
  <2>1. \A k \in 1 .. 9 : list[k] \in Int
    BY <1>1
  <2> QED
    BY <2>1 DEF Lists
<1>3. /\ IsMatrix(m, 3, 3)
      /\ \A i \in 0 .. 3 - 1, j \in 0 .. 3 - 1 : M!Entry(m, i, j) = list[i * 3 + j + 1]
  BY <1>2, ListEntries
<1> HIDE DEF m
<1>4. \A i \in 0 .. 2 : /\ M!Entry(m, i, 0) = list[i * 3 + 1] /\ M!Entry(m, i, 1) = list[i * 3 + 2]
                        /\ M!Entry(m, i, 2) = list[i * 3 + 3]
  BY <1>3
<1>5. IsFlat(m, c, s, x, y)
  BY <1>1, <1>3, <1>4 DEF IsFlat
<1> QED
  BY <1>5 DEF m, list

LEMMA FlatTransform ==
    ASSUME NEW x \in Int, NEW y \in Int, NEW w \in Int
    PROVE  IsFlat(M!Transform2(M!Column(<<x, y, w>>)), M!Cos(w), M!Sin(w), x, y)
<1> DEFINE c == M!Cos(w)
           s == M!Sin(w)
           a == M!Translate2(x, y)
           b == M!Rotate2(w)
           m == M!Times(a, b)
<1>1. M!Item(M!Column(<<x, y, w>>), 0) = x /\ M!Item(M!Column(<<x, y, w>>), 1) = y
      /\ M!Item(M!Column(<<x, y, w>>), 2) = w
  BY Items3
<1>2. c \in Int /\ s \in Int
  BY Angles
<1>3. b = M!FromList(3, 3, <<c, -s, 0, s, c, 0, 0, 0, 1>>)
  BY DEF M!Rotate2
<1>4. a = M!FromList(3, 3, <<1, -0, x, 0, 1, y, 0, 0, 1>>)
  BY DEF M!Translate2
<1> HIDE DEF a, b, c, s
<1>5. IsFlat(b, c, s, 0, 0)
  BY <1>2, <1>3, FlatEntries
<1>6. IsFlat(a, 1, 0, x, y)
  BY <1>4, FlatEntries
<1>7. IsMatrix(a, 3, 3) /\ IsMatrix(b, 3, 3)
  BY <1>5, <1>6 DEF IsFlat
<1>8. IsMatrix(m, 3, 3)
  BY <1>7, TimesEntries
<1>9. ASSUME NEW i \in 0 .. 2, NEW j \in 0 .. 2
      PROVE  M!Entry(m, i, j) = M!Entry(a, i, 0) * M!Entry(b, 0, j) + M!Entry(a, i, 1) * M!Entry(b, 1, j)
                                  + M!Entry(a, i, 2) * M!Entry(b, 2, j)
  BY <1>7, Times3
<1> HIDE DEF m
<1>10. ASSUME NEW i \in 0 .. 2
       PROVE  /\ M!Entry(m, i, 0) = M!Entry(a, i, 0) * c + M!Entry(a, i, 1) * s
              /\ M!Entry(m, i, 1) = M!Entry(a, i, 1) * c - M!Entry(a, i, 0) * s
              /\ M!Entry(m, i, 2) = M!Entry(a, i, 2)
  <2>1. M!Entry(a, i, 0) \in Int /\ M!Entry(a, i, 1) \in Int /\ M!Entry(a, i, 2) \in Int /\ -s \in Int
    BY <1>2, <1>7, IntEntries3
  <2>2. \A j \in 0 .. 2 : M!Entry(m, i, j) = M!Entry(a, i, 0) * M!Entry(b, 0, j)
          + M!Entry(a, i, 1) * M!Entry(b, 1, j) + M!Entry(a, i, 2) * M!Entry(b, 2, j)
    BY <1>9
  <2> QED
    BY <1>2, <1>5, <2>1, <2>2 DEF IsFlat
<1>11. IsFlat(m, c, s, x, y)
  BY <1>2, <1>6, <1>8, <1>10 DEF IsFlat
<1> QED
  BY <1>1, <1>11 DEF M!Transform2, m, a, b, c, s

\* A point of the scan on the tile.
AtX(x, w, u, v) == x + M!Cos(w) * u - M!Sin(w) * v
AtY(y, w, u, v) == y + M!Sin(w) * u + M!Cos(w) * v

IsPoint(p) == p[1] \in Int /\ p[2] \in Int

LEMMA ToGridIs ==
    ASSUME NEW x \in Int, NEW y \in Int, NEW w \in Int, NEW p, IsPoint(p)
    PROVE  /\ AtX(x, w, p[1], p[2]) \in Int /\ AtY(y, w, p[1], p[2]) \in Int
           /\ M!ToGrid(M!Column(<<x, y, w>>), p)
                = M!Column(<<AtX(x, w, p[1], p[2]), AtY(y, w, p[1], p[2])>>)
<1> DEFINE u == p[1]
           v == p[2]
           a == M!Transform2(M!Column(<<x, y, w>>))
           b == M!Column(<<u, v, 1>>)
           m == M!Times(a, b)
           q == M!Project(m)
           c == M!Cos(w)
           s == M!Sin(w)
<1>1. u \in Int /\ v \in Int
  BY DEF IsPoint
<1> HIDE DEF u, v
<1>2. c \in Int /\ s \in Int
  BY Angles
<1>3. IsFlat(a, c, s, x, y)
  BY FlatTransform
<1>4. IsMatrix(b, 3, 1) /\ M!Item(b, 0) = u /\ M!Item(b, 1) = v /\ M!Item(b, 2) = 1
  BY <1>1, Column3Is, Items3 DEF IsColumn
<1> HIDE DEF a, b, c, s
<1>5. IsMatrix(a, 3, 3)
  BY <1>3 DEF IsFlat
<1>6. IsMatrix(m, 3, 1)
  BY <1>4, <1>5, TimesEntries
<1>7. M!Entry(b, 0, 0) = u /\ M!Entry(b, 1, 0) = v /\ M!Entry(b, 2, 0) = 1
  BY <1>4, ItemIs
<1>8. ASSUME NEW i \in 0 .. 2
      PROVE  M!Item(m, i) = M!Entry(a, i, 0) * u + M!Entry(a, i, 1) * v + M!Entry(a, i, 2)
  <2>1. M!Item(m, i) = M!Entry(m, i, 0)
    BY <1>6, ItemIs
  <2>2. M!Entry(m, i, 0) = M!Entry(a, i, 0) * M!Entry(b, 0, 0) + M!Entry(a, i, 1) * M!Entry(b, 1, 0)
                             + M!Entry(a, i, 2) * M!Entry(b, 2, 0)
    BY <1>4, <1>5, Times3
  <2>3. M!Entry(a, i, 0) \in Int /\ M!Entry(a, i, 1) \in Int /\ M!Entry(a, i, 2) \in Int
    BY <1>5, IntEntries3
  <2> QED
    BY <1>1, <1>7, <2>1, <2>2, <2>3
<1> HIDE DEF m
<1>9. M!Item(m, 0) = x + c * u - s * v /\ M!Item(m, 1) = y + s * u + c * v /\ M!Item(m, 2) = 1
  <2>1. M!Item(m, 0) = c * u + (-s) * v + x /\ M!Item(m, 1) = s * u + c * v + y /\ M!Item(m, 2) = 0 * u + 0 * v + 1
    BY <1>3, <1>8 DEF IsFlat
  <2> QED
    BY <1>1, <1>2, <2>1
<1>10. AtX(x, w, u, v) = x + c * u - s * v /\ AtY(y, w, u, v) = y + s * u + c * v
  BY DEF AtX, AtY, c, s
<1>11. AtX(x, w, u, v) \in Int /\ AtY(y, w, u, v) \in Int
  BY <1>1, <1>2, <1>10
<1>12. IsMatrix(q, 2, 1) /\ \A k \in 0 .. 2 - 1 : M!Item(q, k) = M!Item(m, k)
  BY <1>6, <1>9, ProjectIs
<1> HIDE DEF q
<1>13. IsColumn(q, 2, <<AtX(x, w, u, v), AtY(y, w, u, v)>>)
  <2>1. \A k \in 0 .. 2 - 1 : M!Item(q, k) = <<AtX(x, w, u, v), AtY(y, w, u, v)>>[k + 1]
    BY <1>9, <1>10, <1>12
  <2>2. \A k \in 0 .. 2 - 1 : <<AtX(x, w, u, v), AtY(y, w, u, v)>>[k + 1] \in Int
    BY <1>11
  <2> QED
    BY <1>12, <2>1, <2>2 DEF IsColumn
<1>14. q = M!Column(<<AtX(x, w, u, v), AtY(y, w, u, v)>>)
  BY <1>11, <1>13, Column2Is
<1> QED
  BY <1>11, <1>14 DEF q, m, a, b, u, v, M!ToGrid

\* Moved by one place after another.
LEMMA MovedTwice ==
    ASSUME NEW p \in Places, NEW q \in Places, NEW u \in Int, NEW v \in Int
    PROVE  /\ AtX(p.x, p.r, AtX(q.x, q.r, u, v), AtY(q.y, q.r, u, v))
                = AtX(Then(p, q).x, Then(p, q).r, u, v)
           /\ AtY(p.y, p.r, AtX(q.x, q.r, u, v), AtY(q.y, q.r, u, v))
                = AtY(Then(p, q).y, Then(p, q).r, u, v)
<1> DEFINE c == M!Cos(p.r)  s == M!Sin(p.r)  d == M!Cos(q.r)  t == M!Sin(q.r)
           x == p.x  y == p.y  a == q.x  b == q.y
<1>1. x \in Int /\ y \in Int /\ a \in Int /\ b \in Int /\ p.r \in Int /\ q.r \in Int
  BY DEF Places
<1>2. c \in Int /\ s \in Int /\ d \in Int /\ t \in Int
      /\ M!Cos(p.r + q.r) = c * d - s * t /\ M!Sin(p.r + q.r) = s * d + c * t
  BY <1>1, Angles, AnglesAdd
<1>3. /\ Then(p, q).x = x + c * a - s * b /\ Then(p, q).y = y + s * a + c * b
      /\ Then(p, q).r = p.r + q.r
  BY ThenIs
<1>4. /\ AtX(q.x, q.r, u, v) = a + d * u - t * v /\ AtY(q.y, q.r, u, v) = b + t * u + d * v
  BY DEF AtX, AtY
<1>5. /\ AtX(Then(p, q).x, Then(p, q).r, u, v) = (x + c * a - s * b) + (c * d - s * t) * u - (s * d + c * t) * v
      /\ AtY(Then(p, q).y, Then(p, q).r, u, v) = (y + s * a + c * b) + (s * d + c * t) * u + (c * d - s * t) * v
  BY <1>2, <1>3 DEF AtX, AtY
<1>6. /\ AtX(p.x, p.r, a + d * u - t * v, b + t * u + d * v) = x + c * (a + d * u - t * v) - s * (b + t * u + d * v)
      /\ AtY(p.y, p.r, a + d * u - t * v, b + t * u + d * v) = y + s * (a + d * u - t * v) + c * (b + t * u + d * v)
  BY DEF AtX, AtY
<1> HIDE DEF c, s, d, t, x, y, a, b
<1>7. /\ x + c * (a + d * u - t * v) - s * (b + t * u + d * v)
           = (x + c * a - s * b) + (c * d - s * t) * u - (s * d + c * t) * v
      /\ y + s * (a + d * u - t * v) + c * (b + t * u + d * v)
           = (y + s * a + c * b) + (s * d + c * t) * u + (c * d - s * t) * v
  BY <1>1, <1>2
<1> QED
  BY <1>4, <1>5, <1>6, <1>7

-----------------------------------------------------------------------------
(* Compensation of the motion between scans.                                *)

LEMMA IdentityIs == M!Identity(4) = Frame(Home)
<1>1. M!Cos(0) = 1 /\ M!Sin(0) = 0 /\ -M!Sin(0) = 0
  BY Quarters
<1> DEFINE list == <<1, 0, 0, 0, 0, 1, 0, 0, 0, 0, 1, 0, 0, 0, 0, 1>>
<1>2. Frame(Home) = M!FromList(4, 4, list)
  BY <1>1 DEF Frame, Home, Place, Level
<1>3. \A i, j \in 0 .. 3 : list[i * 4 + j + 1] = IF i = j THEN 1 ELSE 0
  OBVIOUS
<1> HIDE DEF list
<1>4. \A k \in 1 .. 4 * 4 : (k - 1) % 4 \in 0 .. 3 /\ (k - 1) \div 4 \in 0 .. 3
  OBVIOUS
<1>5. [k \in 1 .. 4 * 4 |-> IF (k - 1) % 4 = (k - 1) \div 4 THEN 1 ELSE 0]
        = [k \in 1 .. 4 * 4 |-> list[((k - 1) % 4) * 4 + ((k - 1) \div 4) + 1]]
  BY <1>3, <1>4
<1>6. M!Identity(4) = [rows |-> 4, cols |-> 4,
                       data |-> <<>> \o [k \in 1 .. 4 * 4 |-> IF (k - 1) % 4 = (k - 1) \div 4 THEN 1 ELSE 0]]
  BY DEF M!Identity, M!MatrixOf
<1>7. M!FromList(4, 4, list)
        = [rows |-> 4, cols |-> 4,
           data |-> <<>> \o [k \in 1 .. 4 * 4 |-> list[((k - 1) % 4) * 4 + ((k - 1) \div 4) + 1]]]
  BY DEF M!FromList, M!MatrixOf
<1> QED
  BY <1>2, <1>5, <1>6, <1>7

\* A point of a scan, seen at s from the base at l, for the base that is at n by now.
LEMMA ConvertedIs ==
    ASSUME NEW p \in Int \X Int, NEW s \in Places, s.w = 0, NEW l \in Places, NEW n \in Places
    PROVE  LET c == Then(Then(Back(n), l), s)
               q == M!Converted(p, Frame(s), Frame(l), Frame(n))
           IN  /\ c \in Places
               /\ M!Item(q, 0) = AtX(c.x, c.r, p[1], p[2])
               /\ M!Item(q, 1) = AtY(c.y, c.r, p[1], p[2])
<1> DEFINE b == Back(n)
           d == Then(b, l)
           c == Then(d, s)
           u == p[1]
           v == p[2]
           q == M!Converted(p, Frame(s), Frame(l), Frame(n))
<1>1. u \in Int /\ v \in Int
  OBVIOUS
<1>2. b \in Places /\ M!Inverted(Frame(n)) = Frame(b)
  BY PlaceTypes, FrameInverted
<1> HIDE DEF b
<1>3. d \in Places /\ M!Times(Frame(b), Frame(l)) = Frame(d)
  BY <1>2, PlaceTypes, FrameTimes
<1> HIDE DEF d
<1>4. c \in Places /\ M!Times(Frame(d), Frame(s)) = Frame(c)
  BY <1>3, PlaceTypes, FrameTimes
<1> HIDE DEF c
<1>5. q = M!Project(M!Times(Frame(c), M!Column(<<u, v, 0, 1>>)))
  BY <1>2, <1>3, <1>4 DEF M!Converted
<1>6. c.x \in Int /\ c.y \in Int /\ c.r \in Int /\ c.w \in Int
  BY <1>4 DEF Places
<1> DEFINE e1 == M!Cos(c.r) * u - M!Sin(c.r) * v + c.x * 1
           e2 == M!Sin(c.r) * u + M!Cos(c.r) * v + c.y * 1
           e3 == 0 + c.w * 1
<1>7. M!Times(Frame(c), M!Column(<<u, v, 0, 1>>)) = M!Column(<<e1, e2, e3, 1>>)
  BY <1>1, <1>6, LevelMoves DEF Frame
<1>8. M!Cos(c.r) \in Int /\ M!Sin(c.r) \in Int
  BY <1>6, Angles
<1>9. e1 \in Int /\ e2 \in Int /\ e3 \in Int
  BY <1>1, <1>6, <1>8
<1>10. e1 = AtX(c.x, c.r, u, v) /\ e2 = AtY(c.y, c.r, u, v)
  BY <1>1, <1>6, <1>8 DEF AtX, AtY
<1> HIDE DEF e1, e2, e3, q
<1>11. q = M!Column(<<e1, e2, e3>>)
  BY <1>5, <1>7, <1>9, Project4
<1>12. M!Item(q, 0) = e1 /\ M!Item(q, 1) = e2
  BY <1>9, <1>11, Items3
<1> QED
  BY <1>4, <1>10, <1>12 DEF q, b, c, d, u, v

\* The tile is where the robot was: its coordinates are whole pixels.
LEMMA TilePlaced == Spec => [](tile.x \in Int /\ tile.y \in Int)
<1> DEFINE Inv == tile.x \in Int /\ tile.y \in Int
<1>1. ASSUME NEW t \in Tiles PROVE t.x \in Int /\ t.y \in Int
  <2>1. \A p \in Poses : Origin(p) \in Int
    BY WorldsAssumption, SubAssumption, TileAssumption DEF Origin, Pixel
  <2> QED
    BY <2>1 DEF Tiles
<1>2. Init => Inv
  BY <1>1 DEF Init
<1>3. Inv /\ [Next]_vars => Inv'
  BY <1>1 DEF Next, DownscaleMap, SmoothMap, UpdateMap, vars
<1> QED
  BY <1>2, <1>3, PTL DEF Spec

\* Where a point of a scan is looked up when odometry has come to n.
LEMMA SeenIs ==
    ASSUME NEW x \in Int, NEW y \in Int, NEW offset \in Int \X Int \X Int,
           NEW l \in Int \X Int \X Int, NEW n \in Int \X Int \X Int, NEW p \in Int \X Int
    PROVE  LET S == M!ConvertTransform3(M!Column(offset))
               G == M!TileFrame(M!Identity(4), x, y)
               Now == M!ConvertTransform25(M!Column(n))
               q == M!Converted(p, S, M!ConvertTransform25(M!Column(l)), Now)
               t == Place(x, y, 0, 0)
               o == Place(offset[1], offset[2], offset[3], offset[3])
               s == Place(offset[1], offset[2], offset[3], 0)
               e == Then(Then(Back(t), o), Then(Upright(l), s))
           IN  M!ToGrid(M!GridPose(G, M!Column(offset), Now), <<M!Item(q, 0), M!Item(q, 1)>>)
                 = M!Column(<<AtX(e.x, e.r, p[1], p[2]), AtY(e.y, e.r, p[1], p[2])>>)
<1> DEFINE S == M!ConvertTransform3(M!Column(offset))
           G == M!TileFrame(M!Identity(4), x, y)
           Now == M!ConvertTransform25(M!Column(n))
           q == M!Converted(p, S, M!ConvertTransform25(M!Column(l)), Now)
           t == Place(x, y, 0, 0)
           o == Place(offset[1], offset[2], offset[3], offset[3])
           s == Place(offset[1], offset[2], offset[3], 0)
           pn == Upright(n)
           pl == Upright(l)
           to == Then(Back(t), o)
           d == Then(to, pn)
           c == Then(Then(Back(pn), pl), s)
           e == Then(to, Then(pl, s))
           u == p[1]
           v == p[2]
           g == M!GridPose(G, M!Column(offset), Now)
<1>1. u \in Int /\ v \in Int
  OBVIOUS
<1>2. offset = <<offset[1], offset[2], offset[3]>> /\ offset[1] \in Int /\ offset[2] \in Int /\ offset[3] \in Int
  OBVIOUS
<1>3. t \in Places /\ o \in Places /\ Posed(o) /\ s \in Places /\ s.w = 0 /\ t.r = t.w
      /\ PoseAt(o) = M!Column(offset)
  BY <1>2 DEF Places, Place, Posed, PoseAt
<1>4. S = Frame(s)
  <2>1. M!ConvertTransform3(M!Column(<<offset[1], offset[2], offset[3]>>))
          = Level(offset[1], offset[2], offset[3], 0)
    BY <1>2, Transforms
  <2> QED
    BY <1>2, <2>1 DEF Frame, Place
<1>5. G = Frame(t)
  <2>1. M!Translate25(x, y) = Frame(t)
    BY Moves DEF Frame, Place
  <2>2. M!Times(Frame(Home), Frame(t)) = Frame(Then(Home, t))
    BY <1>3, FrameTimes, BackUndoes
  <2>3. Then(Home, t) = t
    BY <1>3, BackUndoes
  <2> QED
    BY <2>1, <2>2, <2>3, IdentityIs DEF M!TileFrame
<1>6. pn \in Places /\ Now = Frame(pn) /\ pn.r = pn.w
  BY FrameInput DEF Upright, Place
<1>7. pl \in Places /\ M!ConvertTransform25(M!Column(l)) = Frame(pl)
  BY FrameInput
<1> HIDE DEF S, G, Now, t, o, s, pn, pl
<1>8. c \in Places /\ M!Item(q, 0) = AtX(c.x, c.r, u, v) /\ M!Item(q, 1) = AtY(c.y, c.r, u, v)
  BY <1>3, <1>4, <1>6, <1>7, ConvertedIs
<1>9. d \in Places /\ g = PoseAt(d)
  BY <1>3, <1>5, <1>6, PoseComposed DEF M!GridPose
<1>10. to \in Places /\ to.r = to.w /\ d.r = d.w
  <2>1. Back(t) \in Places /\ Back(t).r = Back(t).w
    BY <1>3, PlaceTypes, BackIs
  <2>2. to \in Places
    BY <1>3, <2>1, PlaceTypes
  <2>3. to.r = to.w
    BY <1>3, <2>1, ThenIs DEF Posed
  <2> QED
    BY <1>6, <2>2, <2>3, ThenIs
<1>11. Then(d, c) = e
  <2>1. Back(pn) \in Places /\ Then(pl, s) \in Places
    BY <1>3, <1>6, <1>7, PlaceTypes
  <2>2. c = Then(Back(pn), Then(pl, s))
    BY <1>3, <1>7, <2>1, ThenAssociates
  <2>3. Then(d, c) = Then(to, Then(pn, c))
    BY <1>6, <1>8, <1>10, ThenAssociates
  <2>4. Then(pn, Then(Back(pn), Then(pl, s))) = Then(Then(pn, Back(pn)), Then(pl, s))
    BY <1>6, <2>1, ThenAssociates
  <2>5. Then(pn, Back(pn)) = Home /\ Then(Home, Then(pl, s)) = Then(pl, s)
    BY <1>6, <2>1, BackUndoes
  <2> QED
    BY <2>2, <2>3, <2>4, <2>5
<1> HIDE DEF q, g, c, d, e, u, v
<1> DEFINE a == AtX(c.x, c.r, u, v)
           b == AtY(c.y, c.r, u, v)
<1>12. d.x \in Int /\ d.y \in Int /\ d.w \in Int /\ c.x \in Int /\ c.y \in Int /\ c.r \in Int
  BY <1>8, <1>9 DEF Places
<1>13. M!Cos(c.r) \in Int /\ M!Sin(c.r) \in Int
  BY <1>12, Angles
<1>14. a \in Int /\ b \in Int
  BY <1>1, <1>12, <1>13 DEF AtX, AtY
<1>15. AtX(d.x, d.r, a, b) = AtX(e.x, e.r, u, v) /\ AtY(d.y, d.r, a, b) = AtY(e.y, e.r, u, v)
  BY <1>1, <1>8, <1>9, <1>11, MovedTwice
<1> HIDE DEF a, b
<1>16. M!ToGrid(M!Column(<<d.x, d.y, d.w>>), <<a, b>>)
         = M!Column(<<AtX(d.x, d.w, a, b), AtY(d.y, d.w, a, b)>>)
  <2> DEFINE at == <<a, b>>
             dx == d.x  dy == d.y  dw == d.w
  <2>1. at[1] = a /\ at[2] = b
    OBVIOUS
  <2>0. IsPoint(at)
    BY <1>14 DEF IsPoint
  <2>2. dx \in Int /\ dy \in Int /\ dw \in Int
    BY <1>12
  <2> HIDE DEF at, dx, dy, dw
  <2>3. M!ToGrid(M!Column(<<dx, dy, dw>>), at)
          = M!Column(<<AtX(dx, dw, at[1], at[2]), AtY(dy, dw, at[1], at[2])>>)
    BY <2>0, <2>2, ToGridIs
  <2> QED
    BY <2>1, <2>3 DEF at, dx, dy, dw
<1>17. M!ToGrid(g, <<M!Item(q, 0), M!Item(q, 1)>>) = M!Column(<<AtX(e.x, e.r, u, v), AtY(e.y, e.r, u, v)>>)
  BY <1>8, <1>9, <1>10, <1>15, <1>16 DEF PoseAt, a, b
<1> QED
  BY <1>17 DEF g, q, e, S, G, Now, t, o, s, pn, pl, u, v

\* A scan is looked up where it was taken, however far the odometry has gone on
\* since (convert_scan(), neo_localization_node.cpp:210-270, and loc_update()).
THEOREM ScanIsCompensatedHolds == Spec => []ScanIsCompensated
<1>1. tile.x \in Int /\ tile.y \in Int => ScanIsCompensated
  <2> SUFFICES ASSUME tile.x \in Int, tile.y \in Int, NEW offset \in Frames, NEW l \in Frames,
                      NEW now \in Frames, NEW scan \in Scans
               PROVE  LET S == M!ConvertTransform3(Column3(offset))
                          G == M!TileFrame(M!Identity(4), tile.x, tile.y)
                          Seen(at) ==
                              LET Now == M!ConvertTransform25(Column3(at))
                                  p == M!Converted(scan[1], S, M!ConvertTransform25(Column3(l)), Now)
                              IN  M!ToGrid(M!GridPose(G, Column3(offset), Now),
                                           <<M!Item(p, 0), M!Item(p, 1)>>)
                      IN  Seen(now) = Seen(l)
    BY DEF ScanIsCompensated
  <2>1. offset \in Int \X Int \X Int /\ l \in Int \X Int \X Int /\ now \in Int \X Int \X Int
    BY InputsAssumption
  <2>2. scan[1] \in Int \X Int
    <3>1. scan \in Seq(Int \X Int) /\ scan # <<>>
      BY InputsAssumption
    <3> QED
      BY <3>1
  <2> DEFINE X == tile.x
             Y == tile.y
             point == scan[1]
  <2>3. X \in Int /\ Y \in Int /\ point \in Int \X Int
    BY <2>2
  <2> HIDE DEF X, Y, point
  <2> DEFINE S == M!ConvertTransform3(M!Column(offset))
             G == M!TileFrame(M!Identity(4), X, Y)
             L == M!ConvertTransform25(M!Column(l))
             Seen(at) ==
                 LET Now == M!ConvertTransform25(M!Column(at))
                     p == M!Converted(point, S, L, Now)
                 IN  M!ToGrid(M!GridPose(G, M!Column(offset), Now), <<M!Item(p, 0), M!Item(p, 1)>>)
             e == Then(Then(Back(Place(X, Y, 0, 0)), Place(offset[1], offset[2], offset[3], offset[3])),
                       Then(Upright(l), Place(offset[1], offset[2], offset[3], 0)))
             there == M!Column(<<AtX(e.x, e.r, point[1], point[2]), AtY(e.y, e.r, point[1], point[2])>>)
  <2>4. Seen(now) = there
    BY <2>1, <2>3, SeenIs
  <2>5. Seen(l) = there
    BY <2>1, <2>3, SeenIs
  <2>6. Seen(now) = Seen(l)
    BY <2>4, <2>5
  <2> QED
    BY <2>6 DEF Column3, X, Y, point
<1> QED
  BY <1>1, TilePlaced, PTL

-----------------------------------------------------------------------------
(* What the solver reads, at whole pixels.                                  *)

\* The value of a pixel, the border repeated.
Value(g, x, y) == At(g, Clamp(x, g.size_x), Clamp(y, g.size_y))

LEMMA ValueIs ==
    ASSUME NEW g, IsGrid(g), NEW x \in Int, NEW y \in Int
    PROVE  /\ Value(g, x, y) \in Int
           /\ M!BilinearLookupEx(g, x, y, 0, 0) = Value(g, x, y)
<1>1. g.size_x \in Nat \ {0} /\ g.size_y \in Nat \ {0}
  BY GridTypes
<1>2. Clamp(x, g.size_x) \in 0 .. g.size_x - 1 /\ Clamp(y, g.size_y) \in 0 .. g.size_y - 1
  BY <1>1, Clamped
<1>3. Value(g, x, y) \in Int
  BY <1>2, AtInside DEF Value
<1> DEFINE x0 == Low(x, g.size_x)  x1 == High(x, g.size_x)
           y0 == Low(y, g.size_y)  y1 == High(y, g.size_y)
           c(i, j) == g.cells[Index(g, i, j)]
<1>4. x0 \in 0 .. g.size_x - 1 /\ x1 \in 0 .. g.size_x - 1
      /\ y0 \in 0 .. g.size_y - 1 /\ y1 \in 0 .. g.size_y - 1
  BY <1>1, ClampInside
<1>5. c(x0, y0) \in Int /\ c(x1, y0) \in Int /\ c(x0, y1) \in Int /\ c(x1, y1) \in Int
  BY <1>4, AtInside DEF At
<1>6. M!BilinearLookupEx(g, x, y, 0, 0)
        = ((1 - 0) * (1 - 0)) * c(x0, y0) + (0 * (1 - 0)) * c(x1, y0)
            + ((1 - 0) * 0) * c(x0, y1) + (0 * 0) * c(x1, y1)
  BY DEF M!BilinearLookupEx, M!Weighted, M!Low, M!High, M!Clamp, M!Index, Low, High, Clamp, Index
<1>7. c(x0, y0) = Value(g, x, y)
  BY DEF Value, At, Low
<1> HIDE DEF c, x0, x1, y0, y1
<1>8. M!BilinearLookupEx(g, x, y, 0, 0) = c(x0, y0)
  BY <1>5, <1>6
<1> QED
  BY <1>3, <1>7, <1>8

LEMMA WholePixels ==
    ASSUME NEW p \in Int
    PROVE  M!Pixel(p) = p /\ M!Fraction(p) = 0
BY DEF M!Pixel, M!Fraction

\* The terms of the gradients there.
PixelsX(g, x, y, K) ==
    [c \in Across \X Across |-> K[c[1]] * Side[c[2]] * Value(g, x + c[1], y + c[2])]
PixelsY(g, x, y, K) ==
    [c \in Across \X Across |-> K[c[2]] * Side[c[1]] * Value(g, x + c[1], y + c[2])]
SumX(g, x, y, K) == SumFunctionOnSet(PixelsX(g, x, y, K), Across \X Across)
SumY(g, x, y, K) == SumFunctionOnSet(PixelsY(g, x, y, K), Across \X Across)

Coefficients(K) == \A i \in Across : K[i] \in Int

LEMMA KernelsAre == /\ M!Slope = Slope /\ M!Curve = Curve
                    /\ Coefficients(Slope) /\ Coefficients(Curve) /\ Coefficients(Side)
BY AcrossTypes DEF M!Slope, M!Curve, M!Across, Slope, Curve, Across, Coefficients

LEMMA PixelTerms ==
    ASSUME NEW g, IsGrid(g), NEW x \in Int, NEW y \in Int, NEW K, Coefficients(K),
           NEW i \in Across, NEW j \in Across
    PROVE  /\ Value(g, x + i, y + j) \in Int
           /\ PixelsX(g, x, y, K)[<<i, j>>] = K[i] * Side[j] * Value(g, x + i, y + j)
           /\ PixelsX(g, x, y, K)[<<i, j>>] \in Int
           /\ PixelsY(g, x, y, K)[<<i, j>>] = K[j] * Side[i] * Value(g, x + i, y + j)
           /\ PixelsY(g, x, y, K)[<<i, j>>] \in Int
<1>1. x + i \in Int /\ y + j \in Int /\ K[i] \in Int /\ K[j] \in Int /\ Side[i] \in Int /\ Side[j] \in Int
  BY AcrossTypes DEF Coefficients
<1>2. Value(g, x + i, y + j) \in Int
  BY <1>1, ValueIs
<1>3. /\ PixelsX(g, x, y, K)[<<i, j>>] = K[i] * Side[j] * Value(g, x + i, y + j)
      /\ PixelsY(g, x, y, K)[<<i, j>>] = K[j] * Side[i] * Value(g, x + i, y + j)
  BY DEF PixelsX, PixelsY
<1> QED
  BY <1>1, <1>2, <1>3

LEMMA GradientReads ==
    ASSUME NEW g, IsGrid(g), NEW x \in Int, NEW y \in Int, NEW K, Coefficients(K)
    PROVE  /\ SumX(g, x, y, K) \in Int /\ SumY(g, x, y, K) \in Int
           /\ M!Gradient(g, x, y, K) = <<SumX(g, x, y, K), SumY(g, x, y, K)>>
<1> DEFINE fx == PixelsX(g, x, y, K)
           fy == PixelsY(g, x, y, K)
           A == Across \X Across
           Term(c) == M!BilinearLookupEx(g, M!Pixel(x) + c[1], M!Pixel(y) + c[2], M!Fraction(x), M!Fraction(y))
           hx == [c \in A |-> (K[c[1]] * Side[c[2]]) * Term(c)]
           hy == [c \in A |-> (K[c[2]] * Side[c[1]]) * Term(c)]
<1>1. IsFiniteSet(A)
  BY AcrossTypes, FS_Product
<1>2. ASSUME NEW c \in A
      PROVE  fx[c] \in Int /\ hx[c] = fx[c] /\ fy[c] \in Int /\ hy[c] = fy[c]
  <2> DEFINE i == c[1]
             j == c[2]
  <2>1. i \in Across /\ j \in Across /\ c = <<i, j>> /\ i \in Int /\ j \in Int
    <3>1. i \in Across /\ j \in Across /\ c = <<i, j>>
      OBVIOUS
    <3> HIDE DEF i, j
    <3> QED
      BY <3>1, AcrossTypes
  <2>2. Term(c) = Value(g, x + i, y + j)
    <3>1. x + i \in Int /\ y + j \in Int
      BY <2>1
    <3> HIDE DEF i, j
    <3>2. M!BilinearLookupEx(g, x + i, y + j, 0, 0) = Value(g, x + i, y + j)
      BY <3>1, ValueIs
    <3> QED
      BY <3>2, WholePixels DEF i, j
  <2> HIDE DEF i, j
  <2>3. /\ fx[<<i, j>>] = K[i] * Side[j] * Value(g, x + i, y + j) /\ fx[<<i, j>>] \in Int
        /\ fy[<<i, j>>] = K[j] * Side[i] * Value(g, x + i, y + j) /\ fy[<<i, j>>] \in Int
    BY <2>1, PixelTerms
  <2>4. hx[c] = (K[i] * Side[j]) * Value(g, x + i, y + j) /\ hy[c] = (K[j] * Side[i]) * Value(g, x + i, y + j)
    <3>1. hx[c] = (K[c[1]] * Side[c[2]]) * Term(c) /\ hy[c] = (K[c[2]] * Side[c[1]]) * Term(c)
      OBVIOUS
    <3>2. c[1] = i /\ c[2] = j
      BY DEF i, j
    <3> HIDE DEF Term, hx, hy
    <3> QED
      BY <2>2, <3>1, <3>2
  <2> QED
    BY <2>1, <2>3, <2>4
<1>3. M!Gradient(g, x, y, K) = <<M!SumFunction(hx), M!SumFunction(hy)>>
  BY DEF M!Gradient, M!Convolved, M!Across, M!Side, Across, Side
<1>4. DOMAIN hx = A /\ DOMAIN hy = A
  OBVIOUS
<1> HIDE DEF A, fx, fy, hx, hy
<1>5. SumFunctionOnSet(hx, A) = SumFunctionOnSet(fx, A) /\ SumFunctionOnSet(hy, A) = SumFunctionOnSet(fy, A)
  BY <1>1, <1>2, SumEqual
<1>6. SumFunctionOnSet(fx, A) \in Int /\ SumFunctionOnSet(fy, A) \in Int
  BY <1>1, <1>2, SumType
<1>7. M!SumFunction(hx) = SumFunctionOnSet(hx, A) /\ M!SumFunction(hy) = SumFunctionOnSet(hy, A)
  BY <1>4, SumsAgree
<1> QED
  BY <1>3, <1>5, <1>6, <1>7 DEF SumX, SumY, A, fx, fy

\* Where a point of the scan of a robot at (x, y) is looked up.
Px(g, x, w, p) == AtX(x, w, p[1], p[2]) \div g.scale
Py(g, y, w, p) == AtY(y, w, p[1], p[2]) \div g.scale

LEMMA ReadsAt ==
    ASSUME NEW g, IsGrid(g), NEW x \in Int, NEW y \in Int, NEW w \in Int, NEW p, IsPoint(p)
    PROVE  LET at == M!Column(<<x, y, w>>)
               px == Px(g, x, w, p)
               py == Py(g, y, w, p)
           IN  /\ px \in Int /\ py \in Int
               /\ M!Residual(g, at, p) = Value(g, px, py)
               /\ M!ReadAt(g, at, p, M!CalcGradient) = <<SumX(g, px, py, Slope), SumY(g, px, py, Slope)>>
               /\ M!ReadAt(g, at, p, M!CalcGradient2) = <<SumX(g, px, py, Curve), SumY(g, px, py, Curve)>>
<1> DEFINE at == M!Column(<<x, y, w>>)
           ax == AtX(x, w, p[1], p[2])
           ay == AtY(y, w, p[1], p[2])
           px == Px(g, x, w, p)
           py == Py(g, y, w, p)
           q == M!ToGrid(at, p)
<1>1. ax \in Int /\ ay \in Int /\ q = M!Column(<<ax, ay>>)
  BY ToGridIs
<1>2. g.scale \in Nat \ {0}
  BY GridTypes
<1>3. px = ax \div g.scale /\ py = ay \div g.scale
  BY DEF Px, Py
<1> HIDE DEF ax, ay, px, py, q
<1>4. px \in Int /\ py \in Int
  BY <1>1, <1>2, <1>3
<1>5. M!Item(q, 0) = ax /\ M!Item(q, 1) = ay
  <2>1. IsColumn(M!Column(<<ax, ay>>), 2, <<ax, ay>>)
    BY <1>1, Column2Is
  <2>2. \A k \in 0 .. 2 - 1 : M!Item(q, k) = <<ax, ay>>[k + 1]
    BY <1>1, <2>1 DEF IsColumn
  <2> QED
    BY <2>2
<1>6. M!WorldToGrid(g, M!Item(q, 0)) = px /\ M!WorldToGrid(g, M!Item(q, 1)) = py
  <2>1. 1 \div 2 = 0
    OBVIOUS
  <2>2. M!WorldToGrid(g, ax) = ax \div g.scale - 0 /\ M!WorldToGrid(g, ay) = ay \div g.scale - 0
    BY <2>1 DEF M!WorldToGrid
  <2> QED
    BY <1>3, <1>4, <1>5, <2>2
<1>7. M!Residual(g, at, p) = Value(g, px, py)
  <2>1. M!BilinearLookup(g, px, py) = Value(g, px, py)
    <3>1. M!BilinearLookupEx(g, px, py, 0, 0) = Value(g, px, py)
      BY <1>4, ValueIs
    <3> QED
      BY <1>4, <3>1, WholePixels DEF M!BilinearLookup
  <2> QED
    BY <1>6, <2>1 DEF M!Residual, M!ReadAt, q
<1>8. M!ReadAt(g, at, p, M!CalcGradient) = M!Gradient(g, px, py, Slope)
  BY <1>6, KernelsAre DEF M!ReadAt, M!CalcGradient, q
<1>9. M!ReadAt(g, at, p, M!CalcGradient2) = M!Gradient(g, px, py, Curve)
  BY <1>6, KernelsAre DEF M!ReadAt, M!CalcGradient2, q
<1>10. M!Gradient(g, px, py, Slope) = <<SumX(g, px, py, Slope), SumY(g, px, py, Slope)>>
  BY <1>4, GradientReads, KernelsAre
<1>11. M!Gradient(g, px, py, Curve) = <<SumX(g, px, py, Curve), SumY(g, px, py, Curve)>>
  BY <1>4, GradientReads, KernelsAre
<1> QED
  BY <1>4, <1>7, <1>8, <1>9, <1>10, <1>11 DEF px, py

-----------------------------------------------------------------------------
(* Positive definite matrices.                                              *)

\* The quadratic form of a symmetric matrix, a row after another.
Form(a, b, c, d, e, f, x, y, z) ==
    a * x * x + d * y * y + f * z * z + 2 * (b * x * y) + 2 * (c * x * z) + 2 * (e * y * z)
SymmetricDet(a, b, c, d, e, f) == a * (d * f - e * e) - b * (b * f - e * c) + c * (b * e - d * c)

\* It is so with the damping at least everywhere.
Definite(a, b, c, d, e, f) ==
    /\ a \in Int /\ b \in Int /\ c \in Int /\ d \in Int /\ e \in Int /\ f \in Int
    /\ \A x, y, z \in Int : Form(a, b, c, d, e, f, x, y, z) >= x * x + y * y + z * z

LEMMA Squares == \A x \in Int : x * x >= 0 /\ (x # 0 => x * x > 0)
OBVIOUS

\* A product of which one factor is positive ...
LEMMA SignOfFactor ==
    ASSUME NEW x \in Int, NEW y \in Int, x > 0
    PROVE  (x * y > 0 => y > 0) /\ (x * y >= 0 => y >= 0)
OBVIOUS

LEMMA DefiniteMinor ==
    ASSUME NEW a, NEW b, NEW c, NEW d, NEW e, NEW f, Definite(a, b, c, d, e, f)
    PROVE  a > 0 /\ a * d - b * b > 0
<1>0. /\ a \in Int /\ b \in Int /\ c \in Int /\ d \in Int /\ e \in Int /\ f \in Int
  BY DEF Definite
<1>1. a > 0
  <2>1. Form(a, b, c, d, e, f, 1, 0, 0) >= 1 * 1 + 0 * 0 + 0 * 0
    BY DEF Definite
  <2>2. Form(a, b, c, d, e, f, 1, 0, 0) = a
    BY <1>0 DEF Form
  <2> QED
    BY <1>0, <2>1, <2>2
<1>2. a * (a * d - b * b) > 0
  <2> DEFINE m == -b
  <2>1. m \in Int /\ 0 \in Int /\ m = -b
    BY <1>0
  <2> HIDE DEF m
  <2>2. Form(a, b, c, d, e, f, m, a, 0) >= m * m + a * a + 0 * 0
    BY <1>0, <2>1 DEF Definite
  <2>3. Form(a, b, c, d, e, f, m, a, 0) = a * (a * d - b * b)
    BY <1>0, <2>1 DEF Form
  <2>4. m * m >= 0 /\ a * a > 0 /\ m * m \in Int /\ a * a \in Int
    BY <1>0, <1>1, <2>1, Squares
  <2>5. a * (a * d - b * b) \in Int
    BY <1>0
  <2> QED
    BY <2>2, <2>3, <2>4, <2>5
<1>3. a * d - b * b \in Int
  BY <1>0
<1> QED
  BY <1>0, <1>1, <1>2, <1>3, SignOfFactor

LEMMA DefiniteDet ==
    ASSUME NEW a, NEW b, NEW c, NEW d, NEW e, NEW f, Definite(a, b, c, d, e, f)
    PROVE  SymmetricDet(a, b, c, d, e, f) \in Int /\ SymmetricDet(a, b, c, d, e, f) > 0
<1>0. /\ a \in Int /\ b \in Int /\ c \in Int /\ d \in Int /\ e \in Int /\ f \in Int
  BY DEF Definite
<1> DEFINE x == b * e - c * d
           y == c * b - a * e
           z == a * d - b * b
           det == SymmetricDet(a, b, c, d, e, f)
<1>1. x \in Int /\ y \in Int /\ z \in Int /\ z > 0
  BY <1>0, DefiniteMinor
<1>2. det \in Int
  BY <1>0 DEF SymmetricDet
<1>3. Form(a, b, c, d, e, f, x, y, z) = z * det
  BY <1>0 DEF Form, SymmetricDet
<1> HIDE DEF x, y, z, det
<1>4. Form(a, b, c, d, e, f, x, y, z) >= x * x + y * y + z * z
  BY <1>1 DEF Definite
<1>5. x * x >= 0 /\ y * y >= 0 /\ z * z > 0
  BY <1>1, Squares
<1>6. x * x \in Int /\ y * y \in Int /\ z * z \in Int /\ z * det \in Int
  BY <1>1, <1>2
<1>7. z * det > 0
  BY <1>3, <1>4, <1>5, <1>6
<1> QED
  BY <1>1, <1>2, <1>7, SignOfFactor DEF det

\* The solution of A x = det * g by cofactors, and that it does not turn from g.
Cofactors(a, b, c, d, e, f, g, h, i, x, y, z) ==
    /\ x = (d * f - e * e) * g - (b * f - c * e) * h + (b * e - c * d) * i
    /\ y = (a * f - c * c) * h - (b * f - e * c) * g - (a * e - c * b) * i
    /\ z = (a * d - b * b) * i + (b * e - d * c) * g - (a * e - b * c) * h

LEMMA DefiniteSolution ==
    ASSUME NEW a, NEW b, NEW c, NEW d, NEW e, NEW f, Definite(a, b, c, d, e, f),
           NEW g \in Int, NEW h \in Int, NEW i \in Int, NEW x, NEW y, NEW z,
           Cofactors(a, b, c, d, e, f, g, h, i, x, y, z)
    PROVE  LET det == SymmetricDet(a, b, c, d, e, f)
           IN  /\ x \in Int /\ y \in Int /\ z \in Int
               /\ a * x + b * y + c * z = det * g
               /\ b * x + d * y + e * z = det * h
               /\ c * x + e * y + f * z = det * i
               /\ g * x + h * y + i * z >= 0
<1> DEFINE det == SymmetricDet(a, b, c, d, e, f)
<1>0. /\ a \in Int /\ b \in Int /\ c \in Int /\ d \in Int /\ e \in Int /\ f \in Int
  BY DEF Definite
<1>1. x \in Int /\ y \in Int /\ z \in Int
  BY <1>0 DEF Cofactors
<1>2. a * x + b * y + c * z = det * g
  BY <1>0 DEF SymmetricDet, Cofactors
<1>3. b * x + d * y + e * z = det * h
  BY <1>0 DEF SymmetricDet, Cofactors
<1>4. c * x + e * y + f * z = det * i
  BY <1>0 DEF SymmetricDet, Cofactors
<1>5. det \in Int /\ det > 0
  BY DefiniteDet
<1>6. det * (g * x + h * y + i * z) >= 0
  <2>1. Form(a, b, c, d, e, f, x, y, z)
          = x * (a * x + b * y + c * z) + y * (b * x + d * y + e * z) + z * (c * x + e * y + f * z)
    <3>1. \A u, v, w \in Int : Form(a, b, c, d, e, f, u, v, w)
            = u * (a * u + b * v + c * w) + v * (b * u + d * v + e * w) + w * (c * u + e * v + f * w)
      BY <1>0 DEF Form
    <3> QED
      BY <1>1, <3>1
  <2> HIDE DEF det
  <2>2. Form(a, b, c, d, e, f, x, y, z) = x * (det * g) + y * (det * h) + z * (det * i)
    BY <1>2, <1>3, <1>4, <2>1
  <2>3. x * (det * g) + y * (det * h) + z * (det * i) = det * (g * x + h * y + i * z)
    <3>1. \A u, v, w, t \in Int : u * (t * g) + v * (t * h) + w * (t * i) = t * (g * u + h * v + i * w)
      OBVIOUS
    <3> QED
      BY <1>1, <1>5, <3>1
  <2>4. Form(a, b, c, d, e, f, x, y, z) >= x * x + y * y + z * z
    BY <1>1 DEF Definite
  <2>5. x * x >= 0 /\ y * y >= 0 /\ z * z >= 0 /\ x * x \in Int /\ y * y \in Int /\ z * z \in Int
    BY <1>1, Squares
  <2>6. det * (g * x + h * y + i * z) \in Int
    <3>1. \A u, v, w, t \in Int : t * (g * u + h * v + i * w) \in Int
      OBVIOUS
    <3> QED
      BY <1>1, <1>5, <3>1
  <2> QED
    BY <2>2, <2>3, <2>4, <2>5, <2>6
<1>7. g * x + h * y + i * z \in Int
  <2>1. \A u, v, w \in Int : g * u + h * v + i * w \in Int
    OBVIOUS
  <2> QED
    BY <1>1, <2>1
<1>8. g * x + h * y + i * z >= 0
  BY <1>5, <1>6, <1>7, SignOfFactor
<1> QED
  BY <1>1, <1>2, <1>3, <1>4, <1>8

-----------------------------------------------------------------------------
(* The sums over the scan.                                                  *)

LEMMA Tuples ==
    ASSUME NEW n \in Nat, NEW f, DOMAIN f = 1 .. n, f = [k \in DOMAIN f |-> f[k]]
    PROVE  <<>> \o f = f
<1> DEFINE S == {f[k] : k \in 1 .. n}
<1>1. f \in [1 .. n -> S]
  OBVIOUS
<1>2. f \in Seq(S)
  BY <1>1
<1> QED
  BY <1>2, ConcatEmptySeq

\* The Jacobians of n points, and one number for each of them.
Derived(J, n) == n \in Nat \ {0} /\ DOMAIN J = 1 .. n /\ \A k \in 1 .. n : IsMatrix(J[k], 3, 1)
Numbers(r, n) == \A k \in 1 .. n : r[k] \in Int
WithNumber(J, r, n, i) == [k \in 1 .. n |-> M!Item(J[k], i) * r[k]]
WithOther(J, n, i, j) == [k \in 1 .. n |-> M!Item(J[k], i) * M!Item(J[k], j)]

LEMMA DerivedItems ==
    ASSUME NEW J, NEW n, Derived(J, n), NEW k \in 1 .. n, NEW i \in 0 .. 2
    PROVE  M!Item(J[k], i) \in Int
<1>1. IsMatrix(J[k], 3, 1) /\ i \in 0 .. 3 - 1
  BY DEF Derived
<1> QED
  BY <1>1, ItemIs

LEMMA SumGEntries ==
    ASSUME NEW J, NEW r, NEW n, Derived(J, n), Numbers(r, n)
    PROVE  /\ IsMatrix(M!SumG(J, r), 3, 1)
           /\ \A i \in 0 .. 2 : M!Item(M!SumG(J, r), i) = SumFunctionOnSet(WithNumber(J, r, n, i), 1 .. n)
<1> DEFINE S(i) == SumFunctionOnSet(WithNumber(J, r, n, i), 1 .. n)
           e == [p \in (0 .. 3 - 1) \X (0 .. 1 - 1) |-> S(p[1])]
           m == M!SumG(J, r)
           d == [k \in 1 .. 3 * 1 |-> S((k - 1) % 3)]
<1>1. n \in Nat \ {0} /\ DOMAIN J = 1 .. n /\ IsFiniteSet(1 .. n)
  <2>1. n \in Nat \ {0} /\ DOMAIN J = 1 .. n
    BY DEF Derived
  <2> QED
    BY <2>1, FS_Interval
<1>2. ASSUME NEW i \in 0 .. 3 - 1 PROVE S(i) \in Int
  <2>1. \A k \in 1 .. n : WithNumber(J, r, n, i)[k] \in Int
    <3>1. \A k \in 1 .. n : M!Item(J[k], i) \in Int /\ r[k] \in Int
      BY DerivedItems DEF Numbers
    <3> QED
      BY <3>1 DEF WithNumber
  <2> QED
    BY <1>1, <2>1, SumType
<1>3. ASSUME NEW i PROVE M!SumFunction([k \in DOMAIN J |-> M!Item(J[k], i) * r[k]]) = S(i)
  <2>1. [k \in DOMAIN J |-> M!Item(J[k], i) * r[k]] = WithNumber(J, r, n, i)
    BY <1>1 DEF WithNumber
  <2>2. DOMAIN WithNumber(J, r, n, i) = 1 .. n
    BY DEF WithNumber
  <2> QED
    BY <2>1, <2>2, SumsAgree
<1>4. m = [rows |-> 3, cols |-> 1,
           data |-> <<>> \o [k \in 1 .. 3 * 1 |-> M!SumFunction([l \in DOMAIN J |-> M!Item(J[l], (k - 1) % 3) * r[l]])]]
  BY DEF M!SumG, M!MatrixOf, M!SumOver
<1> HIDE DEF S, m
<1>5. [k \in 1 .. 3 * 1 |-> M!SumFunction([l \in DOMAIN J |-> M!Item(J[l], (k - 1) % 3) * r[l]])] = d
  BY <1>3
<1>6. d = [k \in 1 .. 3 * 1 |-> e[<<(k - 1) % 3, (k - 1) \div 3>>]]
  <2>1. \A k \in 1 .. 3 * 1 : (k - 1) % 3 \in 0 .. 3 - 1 /\ (k - 1) \div 3 \in 0 .. 1 - 1
    OBVIOUS
  <2>2. \A i \in 0 .. 3 - 1, j \in 0 .. 1 - 1 : e[<<i, j>>] = S(i)
    OBVIOUS
  <2> HIDE DEF e
  <2> QED
    BY <2>1, <2>2
<1>7. \A i \in 0 .. 3 - 1, j \in 0 .. 1 - 1 : e[<<i, j>>] = S(i) /\ e[<<i, j>>] \in Int
  BY <1>2
<1> HIDE DEF d, e
<1>8. Built(m, 3, 1, d, e)
  BY <1>4, <1>5, <1>6, <1>7 DEF Built
<1>9. IsMatrix(m, 3, 1) /\ \A i \in 0 .. 3 - 1, j \in 0 .. 1 - 1 : M!Entry(m, i, j) = e[<<i, j>>]
  BY <1>8, EntriesBuilt
<1>10. ASSUME NEW i \in 0 .. 2 PROVE M!Item(m, i) = S(i)
  <2>1. 0 \in 0 .. 1 - 1 /\ i \in 0 .. 3 - 1
    OBVIOUS
  <2>2. M!Entry(m, i, 0) = S(i)
    BY <1>7, <1>9, <2>1
  <2> QED
    BY <1>9, <2>1, <2>2, ItemIs
<1> QED
  BY <1>9, <1>10 DEF m, S

LEMMA SumHEntries ==
    ASSUME NEW J, NEW n, Derived(J, n)
    PROVE  /\ IsMatrix(M!SumH(J), 3, 3)
           /\ \A i, j \in 0 .. 2 : M!Entry(M!SumH(J), i, j) = SumFunctionOnSet(WithOther(J, n, i, j), 1 .. n)
<1> DEFINE S(i, j) == SumFunctionOnSet(WithOther(J, n, i, j), 1 .. n)
           e == [p \in (0 .. 3 - 1) \X (0 .. 3 - 1) |-> S(p[1], p[2])]
           m == M!SumH(J)
           d == [k \in 1 .. 3 * 3 |-> S((k - 1) % 3, (k - 1) \div 3)]
<1>1. n \in Nat \ {0} /\ DOMAIN J = 1 .. n /\ IsFiniteSet(1 .. n)
  <2>1. n \in Nat \ {0} /\ DOMAIN J = 1 .. n
    BY DEF Derived
  <2> QED
    BY <2>1, FS_Interval
<1>2. ASSUME NEW i \in 0 .. 3 - 1, NEW j \in 0 .. 3 - 1 PROVE S(i, j) \in Int
  <2>1. \A k \in 1 .. n : WithOther(J, n, i, j)[k] \in Int
    <3>1. \A k \in 1 .. n : M!Item(J[k], i) \in Int /\ M!Item(J[k], j) \in Int
      BY DerivedItems
    <3> QED
      BY <3>1 DEF WithOther
  <2> QED
    BY <1>1, <2>1, SumType
<1>3. ASSUME NEW i, NEW j
      PROVE  M!SumFunction([k \in DOMAIN J |-> M!Item(J[k], i) * M!Item(J[k], j)]) = S(i, j)
  <2>1. [k \in DOMAIN J |-> M!Item(J[k], i) * M!Item(J[k], j)] = WithOther(J, n, i, j)
    BY <1>1 DEF WithOther
  <2>2. DOMAIN WithOther(J, n, i, j) = 1 .. n
    BY DEF WithOther
  <2> QED
    BY <2>1, <2>2, SumsAgree
<1>4. m = [rows |-> 3, cols |-> 3,
           data |-> <<>> \o [k \in 1 .. 3 * 3 |->
             M!SumFunction([l \in DOMAIN J |-> M!Item(J[l], (k - 1) % 3) * M!Item(J[l], (k - 1) \div 3)])]]
  BY DEF M!SumH, M!MatrixOf, M!SumOver
<1> HIDE DEF S, m
<1>5. [k \in 1 .. 3 * 3 |->
         M!SumFunction([l \in DOMAIN J |-> M!Item(J[l], (k - 1) % 3) * M!Item(J[l], (k - 1) \div 3)])] = d
  BY <1>3
<1>6. d = [k \in 1 .. 3 * 3 |-> e[<<(k - 1) % 3, (k - 1) \div 3>>]]
  <2>1. \A k \in 1 .. 3 * 3 : (k - 1) % 3 \in 0 .. 3 - 1 /\ (k - 1) \div 3 \in 0 .. 3 - 1
    OBVIOUS
  <2>2. \A i \in 0 .. 3 - 1, j \in 0 .. 3 - 1 : e[<<i, j>>] = S(i, j)
    OBVIOUS
  <2> HIDE DEF e
  <2> QED
    BY <2>1, <2>2
<1>7. \A i \in 0 .. 3 - 1, j \in 0 .. 3 - 1 : e[<<i, j>>] = S(i, j) /\ e[<<i, j>>] \in Int
  BY <1>2
<1> HIDE DEF d, e
<1>8. Built(m, 3, 3, d, e)
  BY <1>4, <1>5, <1>6, <1>7 DEF Built
<1>9. IsMatrix(m, 3, 3) /\ \A i \in 0 .. 3 - 1, j \in 0 .. 3 - 1 : M!Entry(m, i, j) = e[<<i, j>>]
  BY <1>8, EntriesBuilt
<1>10. ASSUME NEW i \in 0 .. 2, NEW j \in 0 .. 2 PROVE M!Entry(m, i, j) = S(i, j)
  BY <1>7, <1>9
<1> QED
  BY <1>9, <1>10 DEF m, S

LEMMA ScaleEntries ==
    ASSUME NEW r \in Nat \ {0}, NEW c \in Nat \ {0}, NEW a, IsMatrix(a, r, c), NEW x \in Int
    PROVE  /\ IsMatrix(M!Scale(a, x), r, c)
           /\ \A i \in 0 .. r - 1, j \in 0 .. c - 1 : M!Entry(M!Scale(a, x), i, j) = x * M!Entry(a, i, j)
<1> DEFINE e == [p \in (0 .. r - 1) \X (0 .. c - 1) |-> x * M!Entry(a, p[1], p[2])]
           d == [k \in 1 .. r * c |-> x * M!Entry(a, (k - 1) % r, (k - 1) \div r)]
           m == M!Scale(a, x)
<1>1. ASSUME NEW i \in 0 .. r - 1, NEW j \in 0 .. c - 1
      PROVE  e[<<i, j>>] = x * M!Entry(a, i, j) /\ e[<<i, j>>] \in Int
  <2>1. M!Entry(a, i, j) \in Int
    BY EntryIs
  <2> QED
    BY <2>1
<1>2. m = [rows |-> r, cols |-> c, data |-> <<>> \o d]
  BY DEF M!Scale, M!MatrixOf, IsMatrix
<1>3. d = [k \in 1 .. r * c |-> e[<<(k - 1) % r, (k - 1) \div r>>]]
  BY EntryOfPlace
<1> HIDE DEF d, e, m
<1>4. Built(m, r, c, d, e)
  BY <1>1, <1>2, <1>3 DEF Built
<1>5. IsMatrix(m, r, c) /\ \A i \in 0 .. r - 1, j \in 0 .. c - 1 : M!Entry(m, i, j) = e[<<i, j>>]
  BY <1>4, EntriesBuilt
<1> QED
  BY <1>1, <1>5 DEF m

LEMMA PlusEntries ==
    ASSUME NEW r \in Nat \ {0}, NEW c \in Nat \ {0}, NEW a, IsMatrix(a, r, c), NEW b, IsMatrix(b, r, c)
    PROVE  /\ IsMatrix(M!Plus(a, b), r, c)
           /\ \A i \in 0 .. r - 1, j \in 0 .. c - 1 :
                M!Entry(M!Plus(a, b), i, j) = M!Entry(a, i, j) + M!Entry(b, i, j)
<1> DEFINE e == [p \in (0 .. r - 1) \X (0 .. c - 1) |-> M!Entry(a, p[1], p[2]) + M!Entry(b, p[1], p[2])]
           d == [k \in 1 .. r * c |-> M!Entry(a, (k - 1) % r, (k - 1) \div r)
                                        + M!Entry(b, (k - 1) % r, (k - 1) \div r)]
           m == M!Plus(a, b)
<1>1. ASSUME NEW i \in 0 .. r - 1, NEW j \in 0 .. c - 1
      PROVE  e[<<i, j>>] = M!Entry(a, i, j) + M!Entry(b, i, j) /\ e[<<i, j>>] \in Int
  <2>1. M!Entry(a, i, j) \in Int /\ M!Entry(b, i, j) \in Int
    BY EntryIs
  <2> QED
    BY <2>1
<1>2. m = [rows |-> r, cols |-> c, data |-> <<>> \o d]
  <2>1. a.rows = r /\ a.cols = c
    BY DEF IsMatrix
  <2> QED
    BY <2>1 DEF M!Plus, M!MatrixOf
<1>3. d = [k \in 1 .. r * c |-> e[<<(k - 1) % r, (k - 1) \div r>>]]
  BY EntryOfPlace
<1> HIDE DEF d, e, m
<1>4. Built(m, r, c, d, e)
  BY <1>1, <1>2, <1>3 DEF Built
<1>5. IsMatrix(m, r, c) /\ \A i \in 0 .. r - 1, j \in 0 .. c - 1 : M!Entry(m, i, j) = e[<<i, j>>]
  BY <1>4, EntriesBuilt
<1> QED
  BY <1>1, <1>5 DEF m

LEMMA IdentityEntries ==
    ASSUME NEW n \in Nat \ {0}
    PROVE  /\ IsMatrix(M!Identity(n), n, n)
           /\ \A i, j \in 0 .. n - 1 : M!Entry(M!Identity(n), i, j) = IF i = j THEN 1 ELSE 0
<1> DEFINE e == [p \in (0 .. n - 1) \X (0 .. n - 1) |-> IF p[1] = p[2] THEN 1 ELSE 0]
           d == [k \in 1 .. n * n |-> IF (k - 1) % n = (k - 1) \div n THEN 1 ELSE 0]
           m == M!Identity(n)
<1>1. ASSUME NEW i \in 0 .. n - 1, NEW j \in 0 .. n - 1
      PROVE  e[<<i, j>>] = (IF i = j THEN 1 ELSE 0) /\ e[<<i, j>>] \in Int
  OBVIOUS
<1>2. m = [rows |-> n, cols |-> n, data |-> <<>> \o d]
  BY DEF M!Identity, M!MatrixOf
<1>3. d = [k \in 1 .. n * n |-> e[<<(k - 1) % n, (k - 1) \div n>>]]
  BY EntryOfPlace
<1> HIDE DEF d, e, m
<1>4. Built(m, n, n, d, e)
  BY <1>1, <1>2, <1>3 DEF Built
<1>5. IsMatrix(m, n, n) /\ \A i \in 0 .. n - 1, j \in 0 .. n - 1 : M!Entry(m, i, j) = e[<<i, j>>]
  BY <1>4, EntriesBuilt
<1>6. \A i, j \in 0 .. n - 1 : M!Entry(m, i, j) = IF i = j THEN 1 ELSE 0
  <2> SUFFICES ASSUME NEW i \in 0 .. n - 1, NEW j \in 0 .. n - 1
               PROVE  M!Entry(m, i, j) = IF i = j THEN 1 ELSE 0
    OBVIOUS
  <2>1. M!Entry(m, i, j) = e[<<i, j>>]
    BY <1>5
  <2> QED
    BY <1>1, <2>1
<1> QED
  BY <1>5, <1>6 DEF m

LEMMA DampedEntries ==
    ASSUME NEW h, IsMatrix(h, 3, 3)
    PROVE  /\ IsMatrix(M!Damped(h), 3, 3)
           /\ \A i, j \in 0 .. 2 :
                M!Entry(M!Damped(h), i, j) = M!Entry(h, i, j) + IF i = j THEN Damping ELSE 0
<1> DEFINE one == M!Identity(3)
           s == M!Scale(one, Damping)
<1>1. Damping \in Int
  BY MatchAssumption
<1>2. IsMatrix(one, 3, 3)
  BY IdentityEntries
<1>3. \A i, j \in 0 .. 3 - 1 : M!Entry(one, i, j) = IF i = j THEN 1 ELSE 0
  BY IdentityEntries
<1>4. IsMatrix(s, 3, 3)
  BY <1>1, <1>2, ScaleEntries
<1>5. \A i \in 0 .. 3 - 1, j \in 0 .. 3 - 1 : M!Entry(s, i, j) = Damping * M!Entry(one, i, j)
  BY <1>1, <1>2, ScaleEntries
<1> HIDE DEF one
<1>6. IsMatrix(M!Plus(h, s), 3, 3)
  BY <1>4, PlusEntries
<1>7. \A i \in 0 .. 3 - 1, j \in 0 .. 3 - 1 : M!Entry(M!Plus(h, s), i, j) = M!Entry(h, i, j) + M!Entry(s, i, j)
  BY <1>4, PlusEntries
<1> HIDE DEF s
<1>8. \A i, j \in 0 .. 2 : M!Entry(s, i, j) = IF i = j THEN Damping ELSE 0
  BY <1>1, <1>3, <1>5
<1>9. M!Damped(h) = M!Plus(h, s)
  BY DEF M!Damped, s, one
<1> QED
  BY <1>6, <1>7, <1>8, <1>9

\* A sum of three products, ...
LEMMA Dot3Is ==
    ASSUME NEW a, NEW b, IsMatrix(a, 3, 1), IsMatrix(b, 3, 1)
    PROVE  M!Dot(a, b) = M!Item(a, 0) * M!Item(b, 0) + M!Item(a, 1) * M!Item(b, 1)
                           + M!Item(a, 2) * M!Item(b, 2)
<1> DEFINE f == [k \in DOMAIN a.data |-> a.data[k] * b.data[k]]
<1>1. a.data \in [1 .. 3 -> Int] /\ b.data \in [1 .. 3 -> Int]
  BY DEF IsMatrix
<1>2. /\ f[1] = M!Item(a, 0) * M!Item(b, 0) /\ f[2] = M!Item(a, 1) * M!Item(b, 1)
      /\ f[3] = M!Item(a, 2) * M!Item(b, 2) /\ DOMAIN f = 1 .. 3
  BY <1>1 DEF M!Item
<1>3. M!Dot(a, b) = SumFunctionOnSet(f, 1 .. 3)
  <2>1. M!Dot(a, b) = M!SumFunction(f)
    BY DEF M!Dot
  <2> QED
    BY <1>2, <2>1, SumsAgree
<1>4. \A k \in 1 .. 3 : f[k] \in Int
  BY <1>1
<1> HIDE DEF f
<1>5. SumFunctionOnSet(f, 1 .. 1) = f[1]
  BY <1>4, SumAt
<1>6. ASSUME NEW n \in 2 .. 3
      PROVE  SumFunctionOnSet(f, 1 .. n) = SumFunctionOnSet(f, 1 .. n - 1) + f[n]
  <2>1. n \in Int /\ 1 \in Int /\ 1 <= n /\ \A k \in 1 .. n : f[k] \in Int
    BY <1>4
  <2> QED
    BY <2>1, SumAlong
<1>7. SumFunctionOnSet(f, 1 .. 3) = f[1] + f[2] + f[3]
  BY <1>5, <1>6
<1> QED
  BY <1>2, <1>3, <1>7

\* ... and the cofactors of a 3 x 3 matrix.
Minor(m, i, j) ==
    M!Entry(m, Skip(0, i), Skip(0, j)) * M!Entry(m, Skip(1, i), Skip(1, j))
      - M!Entry(m, Skip(0, i), Skip(1, j)) * M!Entry(m, Skip(1, i), Skip(0, j))

LEMMA Adjugate3 ==
    ASSUME NEW m, IsMatrix(m, 3, 3)
    PROVE  /\ IsMatrix(M!Adjugate(m), 3, 3)
           /\ \A i, j \in 0 .. 2 : M!Entry(M!Adjugate(m), i, j) = M!Sign(i, j) * Minor(m, j, i)
<1>1. Square(m, 3, 2)
  BY DEF Square
<1>2. ASSUME NEW i \in 0 .. 2, NEW j \in 0 .. 2
      PROVE  M!Determinant(M!Without(m, i, j)) = Minor(m, i, j) /\ Minor(m, i, j) \in Int
  <2> DEFINE w == M!Without(m, i, j)
  <2>1. i \in 0 .. 3 - 1 /\ j \in 0 .. 3 - 1
    OBVIOUS
  <2>2. IsMatrix(w, 2, 2) /\ \A k, l \in 0 .. 2 - 1 : M!Entry(w, k, l) = M!Entry(m, Skip(k, i), Skip(l, j))
    BY <1>1, <2>1, WithoutEntries
  <2> HIDE DEF w
  <2>3. M!Determinant(w) = M!Det2(w)
    BY <2>2 DEF M!Determinant, IsMatrix
  <2>4. M!Det2(w) = M!Entry(w, 0, 0) * M!Entry(w, 1, 1) - M!Entry(w, 0, 1) * M!Entry(w, 1, 0)
    BY <2>2, Det2Is
  <2>5. M!Determinant(w) = Minor(m, i, j)
    BY <2>2, <2>3, <2>4 DEF Minor
  <2>6. \A k, l \in 0 .. 1 : M!Entry(w, k, l) \in Int
    BY <2>2 DEF IsMatrix, M!Entry, M!Item
  <2> QED
    BY <2>3, <2>4, <2>5, <2>6 DEF w
<1>3. \A i, j \in 0 .. 3 - 1 : M!Determinant(M!Without(m, i, j)) \in Int
  BY <1>2
<1>4. /\ IsMatrix(M!Adjugate(m), 3, 3)
      /\ \A i, j \in 0 .. 3 - 1 :
           M!Entry(M!Adjugate(m), i, j) = M!Sign(i, j) * M!Determinant(M!Without(m, j, i))
  BY <1>1, <1>3, AdjugateEntries
<1> QED
  BY <1>2, <1>4

\* The Hessian has its six sums, twice three of them, ...
LEMMA HessianForm ==
    ASSUME NEW J, NEW n, Derived(J, n)
    PROVE  LET h == M!SumH(J)
               e(i, j) == M!Entry(h, i, j)
           IN  /\ e(1, 0) = e(0, 1) /\ e(2, 0) = e(0, 2) /\ e(2, 1) = e(1, 2)
               /\ \A x, y, z \in Int :
                    Form(e(0, 0), e(0, 1), e(0, 2), e(1, 1), e(1, 2), e(2, 2), x, y, z) >= 0
<1> DEFINE h == M!SumH(J)
           e(i, j) == M!Entry(h, i, j)
           T == 1 .. n
           S(f) == SumFunctionOnSet(f, T)
           w(i, j) == WithOther(J, n, i, j)
<1>1. IsFiniteSet(T)
  <2>1. n \in Nat \ {0}
    BY DEF Derived
  <2> QED
    BY <2>1, FS_Interval
<1>2. ASSUME NEW i \in 0 .. 2, NEW j \in 0 .. 2 PROVE e(i, j) = S(w(i, j)) /\ e(i, j) \in Int
  <2>1. e(i, j) = S(w(i, j))
    BY SumHEntries
  <2>2. IsMatrix(h, 3, 3)
    BY SumHEntries
  <2>3. e(i, j) \in Int
    BY <2>2, IntEntries3
  <2> QED
    BY <2>1, <2>3
<1>3. ASSUME NEW k \in T, NEW i \in 0 .. 2, NEW j \in 0 .. 2
      PROVE  /\ w(i, j)[k] = M!Item(J[k], i) * M!Item(J[k], j)
             /\ M!Item(J[k], i) \in Int /\ M!Item(J[k], j) \in Int
             /\ w(i, j)[k] \in Int /\ w(j, i)[k] = w(i, j)[k]
  <2>1. M!Item(J[k], i) \in Int /\ M!Item(J[k], j) \in Int
    BY DerivedItems
  <2>2. w(i, j)[k] = M!Item(J[k], i) * M!Item(J[k], j) /\ w(j, i)[k] = M!Item(J[k], j) * M!Item(J[k], i)
    BY DEF WithOther
  <2> HIDE DEF w
  <2> QED
    BY <2>1, <2>2
<1> HIDE DEF e, h, T, w
<1>4. ASSUME NEW i \in 0 .. 2, NEW j \in 0 .. 2 PROVE e(j, i) = e(i, j)
  <2>1. \A k \in T : w(i, j)[k] \in Int /\ w(j, i)[k] = w(i, j)[k]
    BY <1>3
  <2>2. S(w(j, i)) = S(w(i, j))
    BY <1>1, <2>1, SumEqual
  <2> QED
    BY <1>2, <2>2
<1>5. ASSUME NEW x \in Int, NEW y \in Int, NEW z \in Int
      PROVE  Form(e(0, 0), e(0, 1), e(0, 2), e(1, 1), e(1, 2), e(2, 2), x, y, z) >= 0
  <2> DEFINE p(k) == x * M!Item(J[k], 0) + y * M!Item(J[k], 1) + z * M!Item(J[k], 2)
             f == [k \in T |-> p(k) * p(k)]
             f1 == [k \in T |-> (x * x) * w(0, 0)[k] + (y * y) * w(1, 1)[k]]
             f2 == [k \in T |-> (z * z) * w(2, 2)[k] + (2 * x * y) * w(0, 1)[k]]
             f3 == [k \in T |-> (2 * x * z) * w(0, 2)[k] + (2 * y * z) * w(1, 2)[k]]
             f4 == [k \in T |-> f1[k] + f2[k]]
  <2>1. /\ x * x \in Int /\ y * y \in Int /\ z * z \in Int
        /\ 2 * x * y \in Int /\ 2 * x * z \in Int /\ 2 * y * z \in Int
    OBVIOUS
  <2>2. ASSUME NEW k \in T
        PROVE  /\ w(0, 0)[k] \in Int /\ w(0, 1)[k] \in Int /\ w(0, 2)[k] \in Int
               /\ w(1, 1)[k] \in Int /\ w(1, 2)[k] \in Int /\ w(2, 2)[k] \in Int
    BY <1>3
  <2>3. ASSUME NEW k \in T
        PROVE  f[k] \in Nat /\ f[k] = f4[k] + f3[k] /\ f1[k] \in Int /\ f2[k] \in Int /\ f3[k] \in Int
               /\ f4[k] \in Int /\ f4[k] = f1[k] + f2[k]
    <3> DEFINE a == M!Item(J[k], 0)
               b == M!Item(J[k], 1)
               c == M!Item(J[k], 2)
    <3>1. /\ a \in Int /\ b \in Int /\ c \in Int
          /\ w(0, 0)[k] = a * a /\ w(0, 1)[k] = a * b /\ w(0, 2)[k] = a * c
          /\ w(1, 1)[k] = b * b /\ w(1, 2)[k] = b * c /\ w(2, 2)[k] = c * c
      BY <1>3
    <3>2. /\ f[k] = (x * a + y * b + z * c) * (x * a + y * b + z * c)
          /\ f1[k] = (x * x) * w(0, 0)[k] + (y * y) * w(1, 1)[k]
          /\ f2[k] = (z * z) * w(2, 2)[k] + (2 * x * y) * w(0, 1)[k]
          /\ f3[k] = (2 * x * z) * w(0, 2)[k] + (2 * y * z) * w(1, 2)[k]
          /\ f4[k] = f1[k] + f2[k]
      OBVIOUS
    <3> HIDE DEF f, f1, f2, f3, f4, a, b, c
    <3>3. /\ f1[k] = (x * x) * (a * a) + (y * y) * (b * b)
          /\ f2[k] = (z * z) * (c * c) + (2 * x * y) * (a * b)
          /\ f3[k] = (2 * x * z) * (a * c) + (2 * y * z) * (b * c)
      BY <3>1, <3>2
    <3>4. f1[k] \in Int /\ f2[k] \in Int /\ f3[k] \in Int
      BY <3>1, <3>3
    <3>5. (x * a + y * b + z * c) \in Int
      BY <3>1
    <3>6. f[k] \in Int /\ f[k] >= 0
      BY <3>2, <3>5, Squares
    <3>7. f[k] = f4[k] + f3[k]
      <4>1. (x * a + y * b + z * c) * (x * a + y * b + z * c)
              = (x * x) * (a * a) + (y * y) * (b * b) + ((z * z) * (c * c) + (2 * x * y) * (a * b))
                  + ((2 * x * z) * (a * c) + (2 * y * z) * (b * c))
        BY <3>1
      <4> QED
        BY <3>2, <3>3, <4>1
    <3> QED
      BY <3>2, <3>4, <3>6, <3>7
  <2>4. S(f1) = (x * x) * S(w(0, 0)) + (y * y) * S(w(1, 1))
    <3>1. \A k \in T : w(0, 0)[k] \in Int /\ w(1, 1)[k] \in Int
                       /\ f1[k] = (x * x) * w(0, 0)[k] + (y * y) * w(1, 1)[k]
      BY <2>2
    <3> HIDE DEF f1
    <3> DEFINE u == x * x  v == y * y
    <3> HIDE DEF u, v
    <3>2. u \in Int /\ v \in Int
      BY <2>1 DEF u, v
    <3>3. \A k \in T : w(0, 0)[k] \in Int /\ w(1, 1)[k] \in Int
                       /\ f1[k] = u * w(0, 0)[k] + v * w(1, 1)[k]
      BY <3>1 DEF u, v
    <3>4. S(f1) = u * S(w(0, 0)) + v * S(w(1, 1))
      BY <1>1, <3>2, <3>3, SumLinear
    <3> QED
      BY <3>4 DEF u, v
  <2>5. S(f2) = (z * z) * S(w(2, 2)) + (2 * x * y) * S(w(0, 1))
    <3>1. \A k \in T : w(2, 2)[k] \in Int /\ w(0, 1)[k] \in Int
                       /\ f2[k] = (z * z) * w(2, 2)[k] + (2 * x * y) * w(0, 1)[k]
      BY <2>2
    <3> HIDE DEF f2
    <3> DEFINE u == z * z  v == 2 * x * y
    <3> HIDE DEF u, v
    <3>2. u \in Int /\ v \in Int
      BY <2>1 DEF u, v
    <3>3. \A k \in T : w(2, 2)[k] \in Int /\ w(0, 1)[k] \in Int
                       /\ f2[k] = u * w(2, 2)[k] + v * w(0, 1)[k]
      BY <3>1 DEF u, v
    <3>4. S(f2) = u * S(w(2, 2)) + v * S(w(0, 1))
      BY <1>1, <3>2, <3>3, SumLinear
    <3> QED
      BY <3>4 DEF u, v
  <2>6. S(f3) = (2 * x * z) * S(w(0, 2)) + (2 * y * z) * S(w(1, 2))
    <3>1. \A k \in T : w(0, 2)[k] \in Int /\ w(1, 2)[k] \in Int
                       /\ f3[k] = (2 * x * z) * w(0, 2)[k] + (2 * y * z) * w(1, 2)[k]
      BY <2>2
    <3> HIDE DEF f3
    <3> DEFINE u == 2 * x * z  v == 2 * y * z
    <3> HIDE DEF u, v
    <3>2. u \in Int /\ v \in Int
      BY <2>1 DEF u, v
    <3>3. \A k \in T : w(0, 2)[k] \in Int /\ w(1, 2)[k] \in Int
                       /\ f3[k] = u * w(0, 2)[k] + v * w(1, 2)[k]
      BY <3>1 DEF u, v
    <3>4. S(f3) = u * S(w(0, 2)) + v * S(w(1, 2))
      BY <1>1, <3>2, <3>3, SumLinear
    <3> QED
      BY <3>4 DEF u, v
  <2> HIDE DEF f, f1, f2, f3, f4, p
  <2>7. S(f4) = S(f1) + S(f2)
    BY <1>1, <2>3, SumPlus
  <2>8. S(f) = S(f4) + S(f3)
    BY <1>1, <2>3, SumPlus
  <2>9. S(f) >= 0 /\ S(f) \in Int
    BY <1>1, <2>3, SumOfNaturals
  <2>10. /\ S(w(0, 0)) = e(0, 0) /\ S(w(0, 1)) = e(0, 1) /\ S(w(0, 2)) = e(0, 2)
         /\ S(w(1, 1)) = e(1, 1) /\ S(w(1, 2)) = e(1, 2) /\ S(w(2, 2)) = e(2, 2)
         /\ e(0, 0) \in Int /\ e(0, 1) \in Int /\ e(0, 2) \in Int
         /\ e(1, 1) \in Int /\ e(1, 2) \in Int /\ e(2, 2) \in Int
    BY <1>2
  <2> HIDE DEF S
  <2>11. S(f) = (x * x) * e(0, 0) + (y * y) * e(1, 1) + ((z * z) * e(2, 2) + (2 * x * y) * e(0, 1))
                  + ((2 * x * z) * e(0, 2) + (2 * y * z) * e(1, 2))
    BY <2>4, <2>5, <2>6, <2>7, <2>8, <2>10
  <2>12. Form(e(0, 0), e(0, 1), e(0, 2), e(1, 1), e(1, 2), e(2, 2), x, y, z)
           = (x * x) * e(0, 0) + (y * y) * e(1, 1) + ((z * z) * e(2, 2) + (2 * x * y) * e(0, 1))
               + ((2 * x * z) * e(0, 2) + (2 * y * z) * e(1, 2))
    <3> DEFINE a == e(0, 0)  b == e(0, 1)  c == e(0, 2)  d == e(1, 1)  q == e(1, 2)  r == e(2, 2)
    <3>1. a \in Int /\ b \in Int /\ c \in Int /\ d \in Int /\ q \in Int /\ r \in Int
      BY <2>10
    <3> HIDE DEF a, b, c, d, q, r
    <3>2. a * x * x = (x * x) * a /\ d * y * y = (y * y) * d /\ r * z * z = (z * z) * r
          /\ 2 * (b * x * y) = (2 * x * y) * b /\ 2 * (c * x * z) = (2 * x * z) * c
          /\ 2 * (q * y * z) = (2 * y * z) * q
      BY <3>1
    <3>3. Form(a, b, c, d, q, r, x, y, z)
            = (x * x) * a + (y * y) * d + ((z * z) * r + (2 * x * y) * b) + ((2 * x * z) * c + (2 * y * z) * q)
      BY <3>1, <3>2 DEF Form
    <3> QED
      BY <3>3 DEF a, b, c, d, q, r
  <2> QED
    BY <2>9, <2>11, <2>12
<1>6. e(1, 0) = e(0, 1) /\ e(2, 0) = e(0, 2) /\ e(2, 1) = e(1, 2)
  BY <1>4
<1> QED
  BY <1>5, <1>6 DEF e, h

\* ... so that with the damping it is definite, ...
LEMMA DampedDefinite ==
    ASSUME NEW J, NEW n, Derived(J, n)
    PROVE  LET m == M!Damped(M!SumH(J))
               e(i, j) == M!Entry(m, i, j)
           IN  /\ IsMatrix(m, 3, 3)
               /\ e(1, 0) = e(0, 1) /\ e(2, 0) = e(0, 2) /\ e(2, 1) = e(1, 2)
               /\ Definite(e(0, 0), e(0, 1), e(0, 2), e(1, 1), e(1, 2), e(2, 2))
<1> DEFINE h == M!SumH(J)
           m == M!Damped(h)
           a == M!Entry(h, 0, 0)  b == M!Entry(h, 0, 1)  c == M!Entry(h, 0, 2)
           d == M!Entry(h, 1, 1)  q == M!Entry(h, 1, 2)  r == M!Entry(h, 2, 2)
<1>1. /\ M!Entry(h, 1, 0) = b /\ M!Entry(h, 2, 0) = c /\ M!Entry(h, 2, 1) = q
      /\ \A x, y, z \in Int : Form(a, b, c, d, q, r, x, y, z) >= 0
  BY HessianForm
<1>2. IsMatrix(h, 3, 3)
  BY SumHEntries
<1> HIDE DEF h
<1>3. /\ a \in Int /\ b \in Int /\ c \in Int /\ d \in Int /\ q \in Int /\ r \in Int
  BY <1>2, IntEntries3
<1>4. /\ IsMatrix(m, 3, 3)
      /\ \A i, j \in 0 .. 2 : M!Entry(m, i, j) = M!Entry(h, i, j) + IF i = j THEN Damping ELSE 0
  BY <1>2, DampedEntries
<1> HIDE DEF m
<1>5. /\ M!Entry(m, 0, 0) = a + Damping /\ M!Entry(m, 1, 1) = d + Damping /\ M!Entry(m, 2, 2) = r + Damping
      /\ M!Entry(m, 0, 1) = b + 0 /\ M!Entry(m, 0, 2) = c + 0 /\ M!Entry(m, 1, 2) = q + 0
      /\ M!Entry(m, 1, 0) = b + 0 /\ M!Entry(m, 2, 0) = c + 0 /\ M!Entry(m, 2, 1) = q + 0
  BY <1>1, <1>4
<1>6. Damping \in Int /\ Damping >= 1
  BY MatchAssumption
<1> HIDE DEF a, b, c, d, q, r
<1>7. Definite(a + Damping, b, c, d + Damping, q, r + Damping)
  <2>1. ASSUME NEW x \in Int, NEW y \in Int, NEW z \in Int
        PROVE  Form(a + Damping, b, c, d + Damping, q, r + Damping, x, y, z) >= x * x + y * y + z * z
    <3> DEFINE s == x * x + y * y + z * z
               f == Form(a, b, c, d, q, r, x, y, z)
    <3>1. f >= 0
      BY <1>1
    <3>2. Form(a + Damping, b, c, d + Damping, q, r + Damping, x, y, z) = f + Damping * s
      BY <1>3, <1>6 DEF Form
    <3>3. s \in Int /\ s >= 0
      BY Squares
    <3>4. f \in Int
      BY <1>3 DEF Form
    <3> HIDE DEF s, f
    <3>5. Damping * s \in Int /\ Damping * s >= s
      <4>1. (Damping - 1) * s >= 0 /\ (Damping - 1) * s = Damping * s - s
        BY <1>6, <3>3
      <4> QED
        BY <1>6, <3>3, <4>1
    <3>6. f + Damping * s >= s
      BY <3>1, <3>3, <3>4, <3>5
    <3> QED
      BY <3>2, <3>6 DEF s
  <2>2. a + Damping \in Int /\ d + Damping \in Int /\ r + Damping \in Int
    BY <1>3, <1>6
  <2> QED
    BY <1>3, <2>1, <2>2 DEF Definite
<1> QED
  BY <1>3, <1>4, <1>5, <1>7 DEF m, h

\* ... and is solved by its cofactors.
LEMMA SolutionIs ==
    ASSUME NEW J, NEW n, Derived(J, n), NEW G, IsMatrix(G, 3, 1)
    PROVE  LET m == M!Damped(M!SumH(J))
               e(k, l) == M!Entry(m, k, l)
               s == M!Solution(m, G)
           IN  /\ IsMatrix(m, 3, 3)
               /\ e(1, 0) = e(0, 1) /\ e(2, 0) = e(0, 2) /\ e(2, 1) = e(1, 2)
               /\ Definite(e(0, 0), e(0, 1), e(0, 2), e(1, 1), e(1, 2), e(2, 2))
               /\ s.det = SymmetricDet(e(0, 0), e(0, 1), e(0, 2), e(1, 1), e(1, 2), e(2, 2))
               /\ IsMatrix(s.x, 3, 1)
               /\ Cofactors(e(0, 0), e(0, 1), e(0, 2), e(1, 1), e(1, 2), e(2, 2),
                            M!Item(G, 0), M!Item(G, 1), M!Item(G, 2),
                            M!Item(s.x, 0), M!Item(s.x, 1), M!Item(s.x, 2))
<1> DEFINE m == M!Damped(M!SumH(J))
           adj == M!Adjugate(m)
           v == M!Times(adj, G)
           det == M!Determinant(m)
           a == M!Entry(m, 0, 0)  b == M!Entry(m, 0, 1)  c == M!Entry(m, 0, 2)
           d == M!Entry(m, 1, 1)  e == M!Entry(m, 1, 2)  f == M!Entry(m, 2, 2)
           g == M!Item(G, 0)  h == M!Item(G, 1)  i == M!Item(G, 2)
           x == M!Item(v, 0)  y == M!Item(v, 1)  z == M!Item(v, 2)
<1>1. /\ IsMatrix(m, 3, 3)
      /\ M!Entry(m, 1, 0) = b /\ M!Entry(m, 2, 0) = c /\ M!Entry(m, 2, 1) = e
      /\ Definite(a, b, c, d, e, f)
  BY DampedDefinite
<1> HIDE DEF m
<1>2. /\ a \in Int /\ b \in Int /\ c \in Int /\ d \in Int /\ e \in Int /\ f \in Int
  BY <1>1 DEF Definite
<1>3. g \in Int /\ h \in Int /\ i \in Int
  <2>1. \A k \in 0 .. 3 - 1 : M!Item(G, k) \in Int
    BY ItemIs
  <2> QED
    BY <2>1
<1>4. /\ IsMatrix(adj, 3, 3)
      /\ \A k, l \in 0 .. 2 : M!Entry(adj, k, l) = M!Sign(k, l) * Minor(m, l, k)
  BY <1>1, Adjugate3
<1>5. /\ Minor(m, 0, 0) = d * f - e * e /\ Minor(m, 0, 1) = b * f - e * c /\ Minor(m, 0, 2) = b * e - d * c
      /\ Minor(m, 1, 0) = b * f - c * e /\ Minor(m, 1, 1) = a * f - c * c /\ Minor(m, 1, 2) = a * e - b * c
      /\ Minor(m, 2, 0) = b * e - c * d /\ Minor(m, 2, 1) = a * e - c * b /\ Minor(m, 2, 2) = a * d - b * b
  BY <1>1 DEF Minor, Skip
<1>6. /\ M!Sign(0, 0) = 1 /\ M!Sign(0, 1) = -1 /\ M!Sign(0, 2) = 1
      /\ M!Sign(1, 0) = -1 /\ M!Sign(1, 1) = 1 /\ M!Sign(1, 2) = -1
      /\ M!Sign(2, 0) = 1 /\ M!Sign(2, 1) = -1 /\ M!Sign(2, 2) = 1
  BY DEF M!Sign
<1>7. /\ M!Entry(adj, 0, 0) = d * f - e * e /\ M!Entry(adj, 0, 1) = -(b * f - c * e)
      /\ M!Entry(adj, 0, 2) = b * e - c * d
      /\ M!Entry(adj, 1, 0) = -(b * f - e * c) /\ M!Entry(adj, 1, 1) = a * f - c * c
      /\ M!Entry(adj, 1, 2) = -(a * e - c * b)
      /\ M!Entry(adj, 2, 0) = b * e - d * c /\ M!Entry(adj, 2, 1) = -(a * e - b * c)
      /\ M!Entry(adj, 2, 2) = a * d - b * b
  <2> HIDE DEF a, b, c, d, e, f, adj
  <2>1. /\ M!Entry(adj, 0, 0) = M!Sign(0, 0) * Minor(m, 0, 0)
        /\ M!Entry(adj, 1, 0) = M!Sign(1, 0) * Minor(m, 0, 1)
        /\ M!Entry(adj, 2, 0) = M!Sign(2, 0) * Minor(m, 0, 2)
    BY <1>4
  <2>2. /\ M!Entry(adj, 0, 1) = M!Sign(0, 1) * Minor(m, 1, 0)
        /\ M!Entry(adj, 1, 1) = M!Sign(1, 1) * Minor(m, 1, 1)
        /\ M!Entry(adj, 2, 1) = M!Sign(2, 1) * Minor(m, 1, 2)
    BY <1>4
  <2>3. /\ M!Entry(adj, 0, 2) = M!Sign(0, 2) * Minor(m, 2, 0)
        /\ M!Entry(adj, 1, 2) = M!Sign(1, 2) * Minor(m, 2, 1)
        /\ M!Entry(adj, 2, 2) = M!Sign(2, 2) * Minor(m, 2, 2)
    BY <1>4
  <2> QED
    BY <1>2, <1>5, <1>6, <2>1, <2>2, <2>3
<1> HIDE DEF adj
<1>8. IsMatrix(m, 3, 3) /\ IsMatrix(adj, 3, 3)
  BY <1>1, <1>4
<1>9. IsMatrix(v, 3, 1)
  BY <1>8, TimesEntries
<1>10. ASSUME NEW k \in 0 .. 2
      PROVE  M!Item(v, k) = M!Entry(adj, k, 0) * g + M!Entry(adj, k, 1) * h + M!Entry(adj, k, 2) * i
  <2>1. M!Item(v, k) = M!Entry(v, k, 0)
    BY <1>9, ItemIs
  <2>2. M!Entry(v, k, 0) = M!Entry(adj, k, 0) * M!Entry(G, 0, 0) + M!Entry(adj, k, 1) * M!Entry(G, 1, 0)
                             + M!Entry(adj, k, 2) * M!Entry(G, 2, 0)
    BY <1>8, Times3
  <2>3. M!Entry(G, 0, 0) = g /\ M!Entry(G, 1, 0) = h /\ M!Entry(G, 2, 0) = i
    BY ItemIs
  <2> QED
    BY <2>1, <2>2, <2>3
<1> HIDE DEF v
<1>11. /\ x = (d * f - e * e) * g - (b * f - c * e) * h + (b * e - c * d) * i
       /\ y = (a * f - c * c) * h - (b * f - e * c) * g - (a * e - c * b) * i
       /\ z = (a * d - b * b) * i + (b * e - d * c) * g - (a * e - b * c) * h
  <2>1. /\ x = (d * f - e * e) * g + (-(b * f - c * e)) * h + (b * e - c * d) * i
        /\ y = (-(b * f - e * c)) * g + (a * f - c * c) * h + (-(a * e - c * b)) * i
        /\ z = (b * e - d * c) * g + (-(a * e - b * c)) * h + (a * d - b * b) * i
    BY <1>7, <1>10
  <2> HIDE DEF a, b, c, d, e, f, g, h, i, x, y, z
  <2> QED
    BY <1>2, <1>3, <2>1
<1>12. Cofactors(a, b, c, d, e, f, g, h, i, x, y, z)
  BY <1>11 DEF Cofactors
<1>13. det = SymmetricDet(a, b, c, d, e, f)
  <2>1. det = M!Det3(m)
    BY <1>1 DEF M!Determinant, IsMatrix
  <2>2. M!Det3(m) = Det(a, b, c, b, d, e, c, e, f)
    BY <1>1, Det3Is
  <2> HIDE DEF a, b, c, d, e, f, det
  <2>3. Det(a, b, c, b, d, e, c, e, f) = SymmetricDet(a, b, c, d, e, f)
    BY <1>2 DEF Det, SymmetricDet
  <2> QED
    BY <2>1, <2>2, <2>3
<1>14. M!Solution(m, G) = [x |-> v, det |-> det]
  BY DEF M!Solution, v, det, adj
<1> HIDE DEF v, det, adj
<1> QED
  BY <1>1, <1>9, <1>13, <1>14, <1>12 DEF m, a, b, c, d, e, f, g, h, i, x, y, z

\* So the step exists, solves its system and climbs.
LEMMA Solved ==
    ASSUME NEW J, NEW n, Derived(J, n), NEW G, IsMatrix(G, 3, 1)
    PROVE  LET m == M!Damped(M!SumH(J))
               s == M!Solution(m, G)
           IN  /\ s.det > 0
               /\ M!Dot(G, s.x) >= 0
               /\ M!Times(m, s.x) = M!Scale(G, s.det)
<1> DEFINE m == M!Damped(M!SumH(J))
           s == M!Solution(m, G)
           v == s.x
           det == s.det
           a == M!Entry(m, 0, 0)  b == M!Entry(m, 0, 1)  c == M!Entry(m, 0, 2)
           d == M!Entry(m, 1, 1)  e == M!Entry(m, 1, 2)  f == M!Entry(m, 2, 2)
           g == M!Item(G, 0)  h == M!Item(G, 1)  i == M!Item(G, 2)
           x == M!Item(v, 0)  y == M!Item(v, 1)  z == M!Item(v, 2)
<1>1. /\ IsMatrix(m, 3, 3)
      /\ M!Entry(m, 1, 0) = b /\ M!Entry(m, 2, 0) = c /\ M!Entry(m, 2, 1) = e
      /\ Definite(a, b, c, d, e, f)
  BY SolutionIs
<1>2. IsMatrix(v, 3, 1)
  BY SolutionIs
<1>3. det = SymmetricDet(a, b, c, d, e, f)
  BY SolutionIs
<1>4. Cofactors(a, b, c, d, e, f, g, h, i, x, y, z)
  BY SolutionIs
<1> HIDE DEF m, v, det, s
<1>5. /\ a \in Int /\ b \in Int /\ c \in Int /\ d \in Int /\ e \in Int /\ f \in Int
  BY <1>1 DEF Definite
<1>6. g \in Int /\ h \in Int /\ i \in Int
  <2>1. \A k \in 0 .. 3 - 1 : M!Item(G, k) \in Int
    BY ItemIs
  <2> QED
    BY <2>1
<1>7. IsMatrix(m, 3, 3)
  BY <1>1
<1>8. det \in Int /\ det > 0
  BY <1>1, <1>3, DefiniteDet
<1> HIDE DEF a, b, c, d, e, f, g, h, i, x, y, z, det
<1>9. /\ x \in Int /\ y \in Int /\ z \in Int
       /\ a * x + b * y + c * z = SymmetricDet(a, b, c, d, e, f) * g
       /\ b * x + d * y + e * z = SymmetricDet(a, b, c, d, e, f) * h
       /\ c * x + e * y + f * z = SymmetricDet(a, b, c, d, e, f) * i
       /\ g * x + h * y + i * z >= 0
  BY <1>1, <1>6, <1>4, DefiniteSolution
<1>10. M!Dot(G, v) >= 0
  BY <1>2, <1>9, Dot3Is DEF g, h, i, x, y, z
<1> DEFINE left == M!Times(m, v)
           right == M!Scale(G, det)
<1>11. IsMatrix(left, 3, 1)
  BY <1>2, <1>7, TimesEntries
<1>12. IsMatrix(right, 3, 1) /\ \A k \in 0 .. 3 - 1, l \in 0 .. 1 - 1 : M!Entry(right, k, l) = det * M!Entry(G, k, l)
  BY <1>8, ScaleEntries
<1>13. ASSUME NEW k \in 0 .. 2
       PROVE  M!Entry(left, k, 0) = M!Entry(m, k, 0) * x + M!Entry(m, k, 1) * y + M!Entry(m, k, 2) * z
  <2>1. M!Entry(left, k, 0) = M!Entry(m, k, 0) * M!Entry(v, 0, 0) + M!Entry(m, k, 1) * M!Entry(v, 1, 0)
                                + M!Entry(m, k, 2) * M!Entry(v, 2, 0)
    BY <1>2, <1>7, Times3
  <2>2. M!Entry(v, 0, 0) = x /\ M!Entry(v, 1, 0) = y /\ M!Entry(v, 2, 0) = z
    BY <1>2, ItemIs DEF x, y, z
  <2> QED
    BY <2>1, <2>2
<1> HIDE DEF left, right
<1>14. ASSUME NEW k \in 0 .. 2 PROVE M!Entry(left, k, 0) = M!Entry(right, k, 0)
  <2>1. M!Entry(left, 0, 0) = det * g /\ M!Entry(left, 1, 0) = det * h /\ M!Entry(left, 2, 0) = det * i
    <3>1. /\ M!Entry(left, 0, 0) = a * x + b * y + c * z
          /\ M!Entry(left, 1, 0) = b * x + d * y + e * z
          /\ M!Entry(left, 2, 0) = c * x + e * y + f * z
      BY <1>1, <1>13 DEF a, b, c, d, e, f
    <3> QED
      BY <1>3, <1>9, <3>1
  <2>2. M!Entry(G, 0, 0) = g /\ M!Entry(G, 1, 0) = h /\ M!Entry(G, 2, 0) = i
    BY ItemIs DEF g, h, i
  <2>3. /\ M!Entry(right, 0, 0) = det * M!Entry(G, 0, 0) /\ M!Entry(right, 1, 0) = det * M!Entry(G, 1, 0)
        /\ M!Entry(right, 2, 0) = det * M!Entry(G, 2, 0)
    BY <1>12
  <2>4. k = 0 \/ k = 1 \/ k = 2
    OBVIOUS
  <2> QED
    BY <2>1, <2>2, <2>3, <2>4
<1>15. left = right
  <2>1. \A k \in 0 .. 3 - 1, l \in 0 .. 1 - 1 : M!Entry(left, k, l) = M!Entry(right, k, l)
    BY <1>14
  <2> QED
    BY <1>11, <1>12, <2>1, SameMatrix
<1> QED
  BY <1>8, <1>10, <1>15 DEF left, right, m, v, s, det

\* A scan of n points.
Scanned(scan, n) == n \in Nat \ {0} /\ DOMAIN scan = 1 .. n /\ \A k \in 1 .. n : IsPoint(scan[k])

LEMMA ScanIs ==
    ASSUME NEW scan \in Scans
    PROVE  Scanned(scan, Len(scan))
<1>1. scan \in Seq(Int \X Int) /\ scan # <<>>
  BY InputsAssumption
<1>2. Len(scan) \in Nat \ {0} /\ DOMAIN scan = 1 .. Len(scan)
  BY <1>1
<1>3. \A k \in 1 .. Len(scan) : scan[k] \in Int \X Int
  BY <1>1
<1> QED
  BY <1>2, <1>3 DEF Scanned, IsPoint

LEMMA MatchPoseIs ==
    ASSUME NEW pose \in MatchPoses
    PROVE  pose = <<pose[1], pose[2], pose[3]>> /\ pose[1] \in Int /\ pose[2] \in Int /\ pose[3] \in Int
<1>1. pose \in Int \X Int \X Int
  BY InputsAssumption
<1> QED
  BY <1>1

\* The Jacobian of a point of the scan and its residual.
Along(w, p, dx, dy) ==
    dx * (-M!Sin(w) * p[1] - M!Cos(w) * p[2]) + dy * (M!Cos(w) * p[1] - M!Sin(w) * p[2])
LineOf(g, x, y, w, p) ==
    LET dx == SumX(g, Px(g, x, w, p), Py(g, y, w, p), Slope)
        dy == SumY(g, Px(g, x, w, p), Py(g, y, w, p), Slope)
    IN  <<dx, dy, Along(w, p, dx, dy)>>

LEMMA JacobianIs ==
    ASSUME NEW g, IsGrid(g), NEW x \in Int, NEW y \in Int, NEW w \in Int, NEW p, IsPoint(p)
    PROVE  /\ IsColumn(M!Jacobian(g, M!Column(<<x, y, w>>), p), 3, LineOf(g, x, y, w, p))
           /\ M!Residual(g, M!Column(<<x, y, w>>), p) \in Int
<1> DEFINE at == M!Column(<<x, y, w>>)
           px == Px(g, x, w, p)
           py == Py(g, y, w, p)
           dx == SumX(g, px, py, Slope)
           dy == SumY(g, px, py, Slope)
           dw == Along(w, p, dx, dy)
           u == p[1]
           v == p[2]
<1>1. px \in Int /\ py \in Int
  BY ReadsAt
<1>2. M!ReadAt(g, at, p, M!CalcGradient) = <<dx, dy>>
  BY ReadsAt
<1>3. M!Residual(g, at, p) = Value(g, px, py)
  BY ReadsAt
<1> HIDE DEF px, py
<1>4. Value(g, px, py) \in Int
  BY <1>1, ValueIs
<1>5. dx \in Int /\ dy \in Int
  BY <1>1, GradientReads, KernelsAre
<1>6. M!Item(at, 2) = w
  BY Items3
<1>7. u \in Int /\ v \in Int /\ M!Cos(w) \in Int /\ M!Sin(w) \in Int
  BY Angles DEF IsPoint
<1> HIDE DEF dx, dy, at
<1>8. dw = dx * (-M!Sin(w) * u - M!Cos(w) * v) + dy * (M!Cos(w) * u - M!Sin(w) * v)
  BY DEF Along
<1>9. dw \in Int
  BY <1>5, <1>7, <1>8
<1>10. M!Jacobian(g, at, p) = M!Column(<<dx, dy, dw>>)
  BY <1>2, <1>6 DEF M!Jacobian, Along
<1> HIDE DEF dw
<1>11. IsColumn(M!Column(<<dx, dy, dw>>), 3, <<dx, dy, dw>>)
  BY <1>5, <1>9, Column3Is
<1>12. LineOf(g, x, y, w, p) = <<dx, dy, dw>>
  BY DEF LineOf, dx, dy, dw, px, py
<1> QED
  BY <1>3, <1>4, <1>10, <1>11, <1>12 DEF at

LEMMA ScanDerived ==
    ASSUME NEW g, IsGrid(g), NEW x \in Int, NEW y \in Int, NEW w \in Int,
           NEW scan, NEW n, Scanned(scan, n)
    PROVE  LET at == M!Column(<<x, y, w>>)
               J == M!Jacobians(g, scan, at)
               r == M!Residuals(g, scan, at)
           IN  /\ Derived(J, n) /\ Numbers(r, n)
               /\ \A k \in 1 .. n : /\ IsColumn(J[k], 3, LineOf(g, x, y, w, scan[k]))
                                    /\ r[k] = M!Residual(g, at, scan[k])
<1> DEFINE at == M!Column(<<x, y, w>>)
           J == M!Jacobians(g, scan, at)
           r == M!Residuals(g, scan, at)
           j == [k \in 1 .. n |-> M!Jacobian(g, at, scan[k])]
           s == [k \in 1 .. n |-> M!Residual(g, at, scan[k])]
<1>1. n \in Nat \ {0} /\ DOMAIN scan = 1 .. n /\ \A k \in 1 .. n : IsPoint(scan[k])
  BY DEF Scanned
<1>2. J = <<>> \o j /\ r = <<>> \o s
  BY <1>1 DEF M!Jacobians, M!Residuals
<1>3. DOMAIN j = 1 .. n /\ j = [k \in DOMAIN j |-> j[k]] /\ DOMAIN s = 1 .. n /\ s = [k \in DOMAIN s |-> s[k]]
  OBVIOUS
<1>4. ASSUME NEW k \in 1 .. n
      PROVE  IsColumn(j[k], 3, LineOf(g, x, y, w, scan[k])) /\ s[k] \in Int /\ s[k] = M!Residual(g, at, scan[k])
  BY <1>1, JacobianIs
<1> HIDE DEF j, s, J, r
<1>5. J = j /\ r = s
  BY <1>1, <1>2, <1>3, Tuples
<1>6. Derived(J, n)
  BY <1>1, <1>3, <1>4, <1>5 DEF Derived, IsColumn
<1>7. Numbers(r, n)
  BY <1>4, <1>5 DEF Numbers
<1> QED
  BY <1>4, <1>5, <1>6, <1>7 DEF J, r

\* The step of the solver exists, solves its system and climbs, on every map and
\* for every scan: on the tile just cut, as the run checks it, and on the tile
\* halved and smoothed (Solver.h:82-89).
THEOREM StepClimbsHolds == Spec => [](StepClimbs /\ Climbs)
<1>1. IsGrid(map) => Climbs
  <2> SUFFICES ASSUME IsGrid(map), NEW pose \in MatchPoses, NEW scan \in Scans
               PROVE  LET at == Column3(pose)
                          step == M!Step(map, scan, at)
                          gradient == M!GradientVector(map, scan, at)
                      IN  /\ step.det > 0
                          /\ M!Dot(gradient, step.x) >= 0
                          /\ M!Times(M!Damped(M!Hessian(map, scan, at)), step.x)
                               = M!Scale(gradient, step.det)
    BY DEF Climbs
  <2> DEFINE x == pose[1]  y == pose[2]  w == pose[3]
             at == M!Column(<<x, y, w>>)
             n == Len(scan)
             J == M!Jacobians(map, scan, at)
             r == M!Residuals(map, scan, at)
             G == M!SumG(J, r)
  <2>1. x \in Int /\ y \in Int /\ w \in Int /\ Column3(pose) = at
    BY MatchPoseIs DEF Column3
  <2>2. Scanned(scan, n)
    BY ScanIs
  <2> HIDE DEF x, y, w, n
  <2>3. Derived(J, n) /\ Numbers(r, n)
    BY <2>1, <2>2, ScanDerived
  <2> HIDE DEF J, r
  <2>4. IsMatrix(G, 3, 1)
    BY <2>3, SumGEntries
  <2>5. LET m == M!Damped(M!SumH(J))
            s == M!Solution(m, G)
        IN  s.det > 0 /\ M!Dot(G, s.x) >= 0 /\ M!Times(m, s.x) = M!Scale(G, s.det)
    BY <2>3, <2>4, Solved
  <2> QED
    BY <2>1, <2>5 DEF J, r, M!Step, M!GradientVector, M!Hessian
<1>2. Climbs => StepClimbs
  BY DEF StepClimbs
<1> QED
  BY <1>1, <1>2, TileIsGrid, PTL

-----------------------------------------------------------------------------
(* The world turned by a quarter.                                           *)

LEMMA TurnedGrid ==
    ASSUME IsGrid(map)
    PROVE  /\ IsGrid(Turned)
           /\ Turned.size_x = map.size_y /\ Turned.size_y = map.size_x /\ Turned.scale = map.scale
           /\ \A x \in 0 .. map.size_x - 1 : \A y \in 0 .. map.size_y - 1 :
                At(Turned, map.size_y - 1 - y, x) = At(map, x, y)
<1> DEFINE w == map.size_x
           h == map.size_y
           cells == [i \in 0 .. h * w - 1 |-> At(map, i \div h, h - 1 - (i % h))]
<1>1. w \in Nat \ {0} /\ h \in Nat \ {0}
  BY GridTypes
<1>2. Turned = [size_x |-> h, size_y |-> w, scale |-> map.scale, unit |-> map.unit,
                cells |-> cells]
  BY DEF Turned, Grid
<1>3. cells \in [0 .. h * w - 1 -> Int]
  <2> SUFFICES ASSUME NEW i \in 0 .. h * w - 1 PROVE At(map, i \div h, h - 1 - (i % h)) \in Int
    OBVIOUS
  <2>1. i \div h \in 0 .. w - 1 /\ h - 1 - (i % h) \in 0 .. h - 1
    <3> HIDE DEF w, h
    <3>1. i \div h \in 0 .. w - 1 /\ i % h \in 0 .. h - 1
      BY <1>1, PixelOfIndex
    <3> QED
      BY <1>1, <3>1
  <2> QED
    BY <2>1, AtInside
<1>4. ASSUME NEW x \in 0 .. w - 1, NEW y \in 0 .. h - 1
      PROVE  cells[x * h + (h - 1 - y)] = At(map, x, y)
  <2> DEFINE v == h - 1 - y
  <2>1. v \in 0 .. h - 1 /\ h - 1 - v = y
    BY <1>1
  <2> HIDE DEF v
  <2>2. x * h + v \in 0 .. h * w - 1 /\ (x * h + v) \div h = x /\ (x * h + v) % h = v
    <3> HIDE DEF w, h
    <3>1. x \in Nat /\ x * h \in Nat /\ x * h <= (w - 1) * h /\ (w - 1) * h = h * w - h
          /\ h * w \in Nat
      BY <1>1, SMT
    <3>2. x * h + v <= h * w - 1 /\ x * h + v >= 0
      BY <1>1, <2>1, <3>1
    <3> QED
      BY <1>1, <2>1, <3>1, <3>2, IndexOfPixel
  <2>3. cells[x * h + v] = At(map, x, y)
    BY <2>1, <2>2
  <2> QED
    BY <2>3 DEF v
<1> HIDE DEF cells
<1>5. IsGrid(Turned)
  BY <1>1, <1>2, <1>3, GridTypes DEF IsGrid, NumCells
<1> QED
  BY <1>1, <1>2, <1>4, <1>5 DEF At, Index

\* ... shows the same, also beyond its border, ...
LEMMA ValueTurns ==
    ASSUME IsGrid(map), NEW x \in Int, NEW y \in Int
    PROVE  Value(Turned, map.size_y - 1 - y, x) = Value(map, x, y)
<1> DEFINE w == map.size_x
           h == map.size_y
<1>1. w \in Nat \ {0} /\ h \in Nat \ {0}
  BY GridTypes
<1>2. Turned.size_x = h /\ Turned.size_y = w
  BY TurnedGrid
<1>3. Clamp(x, w) \in 0 .. w - 1 /\ Clamp(y, h) \in 0 .. h - 1
  BY <1>1, Clamped
<1>4. Clamp(h - 1 - y, h) = h - 1 - Clamp(y, h)
  <2> HIDE DEF h
  <2> QED
    BY <1>1 DEF Clamp
<1>5. At(Turned, h - 1 - Clamp(y, h), Clamp(x, w)) = At(map, Clamp(x, w), Clamp(y, h))
  BY <1>3, TurnedGrid
<1> QED
  BY <1>2, <1>4, <1>5 DEF Value

\* ... and its gradient is the turned gradient.
LEMMA GradientTurns ==
    ASSUME IsGrid(map), NEW x \in Int, NEW y \in Int
    PROVE  LET v == map.size_y - 1 - y
           IN  /\ SumX(Turned, v, x, Slope) = -SumY(map, x, y, Slope)
               /\ SumY(Turned, v, x, Slope) = SumX(map, x, y, Slope)
<1> DEFINE v == map.size_y - 1 - y
           A == Across \X Across
           q == [c \in A |-> <<c[2], -c[1]>>]
           thereX == PixelsX(Turned, v, x, Slope)
           thereY == PixelsY(Turned, v, x, Slope)
           hereX == PixelsX(map, x, y, Slope)
           hereY == PixelsY(map, x, y, Slope)
           minus == [c \in A |-> -hereY[c]]
<1>1. IsFiniteSet(A)
  BY AcrossTypes, FS_Product
<1>2. v \in Int /\ map.size_y \in Int
  BY GridTypes
<1>3. ASSUME NEW i \in Across, NEW j \in Across
      PROVE  /\ -i \in Across
             /\ thereX[<<i, j>>] \in Int /\ minus[<<j, -i>>] = thereX[<<i, j>>]
             /\ thereY[<<i, j>>] \in Int /\ hereX[<<j, -i>>] = thereY[<<i, j>>]
  <2>1. i \in Int /\ j \in Int /\ -i \in Across
    BY DEF Across
  <2>2. Value(Turned, v + i, x + j) = Value(map, x + j, y + (-i))
    <3>1. map.size_y - 1 - (y + (-i)) = v + i /\ x + j \in Int /\ y + (-i) \in Int
      BY <1>2, <2>1
    <3>2. Value(Turned, map.size_y - 1 - (y + (-i)), x + j) = Value(map, x + j, y + (-i))
      BY <3>1, ValueTurns
    <3> QED
      BY <3>1, <3>2
  <2> DEFINE k == -i
  <2>3. Slope[k] = -Slope[i] /\ Side[k] = Side[i]
    BY DEF Slope, Side, Across
  <2> HIDE DEF k
  <2>4. k \in Across /\ k = -i
    BY <2>1 DEF k
  <2>5. /\ thereX[<<i, j>>] = Slope[i] * Side[j] * Value(Turned, v + i, x + j) /\ thereX[<<i, j>>] \in Int
        /\ thereY[<<i, j>>] = Slope[j] * Side[i] * Value(Turned, v + i, x + j) /\ thereY[<<i, j>>] \in Int
    BY <1>2, TurnedGrid, KernelsAre, PixelTerms
  <2>6. /\ hereX[<<j, k>>] = Slope[j] * Side[k] * Value(map, x + j, y + k)
        /\ hereY[<<j, k>>] = Slope[k] * Side[j] * Value(map, x + j, y + k)
        /\ Value(map, x + j, y + k) \in Int
    <3>1. j \in Across /\ k \in Across /\ Coefficients(Slope)
      BY <2>4, KernelsAre
    <3> HIDE DEF hereX, hereY
    <3>2. /\ PixelsX(map, x, y, Slope)[<<j, k>>] = Slope[j] * Side[k] * Value(map, x + j, y + k)
          /\ PixelsY(map, x, y, Slope)[<<j, k>>] = Slope[k] * Side[j] * Value(map, x + j, y + k)
          /\ Value(map, x + j, y + k) \in Int
      BY <3>1, PixelTerms
    <3> QED
      BY <3>2 DEF hereX, hereY
  <2>7. minus[<<j, k>>] = -hereY[<<j, k>>]
    BY <2>4
  <2> HIDE DEF thereX, thereY, hereX, hereY, minus, v
  <2>8. Slope[i] \in Int /\ Side[j] \in Int
    BY AcrossTypes
  <2>9. minus[<<j, k>>] = Slope[i] * Side[j] * Value(map, x + j, y + k)
    BY <2>3, <2>6, <2>7, <2>8
  <2> QED
    BY <2>2, <2>3, <2>4, <2>5, <2>6, <2>9
<1>4. \A c \in A : hereY[c] \in Int
  BY KernelsAre, PixelTerms
<1>5. \A c \in A : minus[c] = -hereY[c]
  OBVIOUS
<1>6. /\ SumX(Turned, v, x, Slope) = SumFunctionOnSet(thereX, A)
      /\ SumY(Turned, v, x, Slope) = SumFunctionOnSet(thereY, A)
      /\ SumX(map, x, y, Slope) = SumFunctionOnSet(hereX, A)
      /\ SumY(map, x, y, Slope) = SumFunctionOnSet(hereY, A)
  BY DEF SumX, SumY
<1> HIDE DEF thereX, thereY, hereX, hereY, minus, v
<1>7. ASSUME NEW c \in A
      PROVE  /\ thereX[c] \in Int /\ minus[q[c]] = thereX[c]
             /\ thereY[c] \in Int /\ hereX[q[c]] = thereY[c]
  <2>1. c[1] \in Across /\ c[2] \in Across /\ c = <<c[1], c[2]>> /\ q[c] = <<c[2], -c[1]>>
    OBVIOUS
  <2> QED
    BY <1>3, <2>1
<1>8. \A c, d \in A : q[c] = q[d] => c = d
  BY DEF Across
<1>9. {q[c] : c \in A} = A
  <2>1. \A c \in A : q[c] \in A
    BY DEF Across
  <2>2. ASSUME NEW c \in A PROVE \E d \in A : q[d] = c
    <3>1. <<-c[2], c[1]>> \in A /\ q[<<-c[2], c[1]>>] = c
      BY DEF Across
    <3> QED
      BY <3>1
  <2> HIDE DEF q, A
  <2> QED
    BY <2>1, <2>2
<1> HIDE DEF q
<1>10. SumFunctionOnSet(minus, A) = SumFunctionOnSet(thereX, A)
  <2>1. SumFunctionOnSet(minus, {q[c] : c \in A}) = SumFunctionOnSet(thereX, A)
    BY <1>1, <1>7, <1>8, SumRenamed
  <2> QED
    BY <1>9, <2>1
<1>11. SumFunctionOnSet(hereX, A) = SumFunctionOnSet(thereY, A)
  <2>1. SumFunctionOnSet(hereX, {q[c] : c \in A}) = SumFunctionOnSet(thereY, A)
    BY <1>1, <1>7, <1>8, SumRenamed
  <2> QED
    BY <1>9, <2>1
<1>12. SumFunctionOnSet(minus, A) = -SumFunctionOnSet(hereY, A)
  <2>1. \A c \in A : hereY[c] \in Int /\ minus[c] = -hereY[c]
    BY <1>4, <1>5
  <2> HIDE DEF A
  <2> QED
    BY <1>1, <2>1, SumOpposite
<1>13. SumFunctionOnSet(hereY, A) \in Int
  BY <1>1, <1>4, SumType
<1> QED
  BY <1>6, <1>10, <1>11, <1>12, <1>13 DEF v

\* A point of the scan falls on the turned place, with the turned line.
LEMMA LineTurns ==
    ASSUME IsGrid(map), map.scale = 1, NEW x \in Int, NEW y \in Int, NEW w \in Int, NEW p, IsPoint(p)
    PROVE  LET here == LineOf(map, x, y, w, p)
               v == map.size_y - 1 - y
               there == LineOf(Turned, v, x, w + 1, p)
           IN  /\ there[1] = -here[2] /\ there[2] = here[1] /\ there[3] = here[3]
               /\ M!Residual(Turned, M!Column(<<v, x, w + 1>>), p) = M!Residual(map, M!Column(<<x, y, w>>), p)
<1> DEFINE c == M!Cos(w)
           s == M!Sin(w)
           a == p[1]
           b == p[2]
           v == map.size_y - 1 - y
           px == Px(map, x, w, p)
           py == Py(map, y, w, p)
           qx == Px(Turned, v, w + 1, p)
           qy == Py(Turned, x, w + 1, p)
           dx == SumX(map, px, py, Slope)
           dy == SumY(map, px, py, Slope)
           ex == SumX(Turned, qx, qy, Slope)
           ey == SumY(Turned, qx, qy, Slope)
<1>1. a \in Int /\ b \in Int /\ v \in Int /\ w + 1 \in Int /\ map.size_y \in Int
  BY GridTypes DEF IsPoint
<1>2. IsGrid(Turned) /\ Turned.scale = 1
  BY TurnedGrid
<1>3. c \in Int /\ s \in Int /\ M!Cos(w + 1) = -s /\ M!Sin(w + 1) = c
  <2>1. PICK one \in Int : one = 1
    OBVIOUS
  <2>2. M!Cos(one) = 0 /\ M!Sin(one) = 1
    BY <2>1, Quarters
  <2>3. c \in Int /\ s \in Int
    BY Angles
  <2>4. M!Cos(w + one) = c * M!Cos(one) - s * M!Sin(one) /\ M!Sin(w + one) = s * M!Cos(one) + c * M!Sin(one)
    BY <2>1, AnglesAdd
  <2> HIDE DEF c, s
  <2> QED
    BY <2>1, <2>2, <2>3, <2>4
<1>4. px = x + c * a - s * b /\ py = y + s * a + c * b
  <2>1. AtX(x, w, p[1], p[2]) = x + c * a - s * b /\ AtY(y, w, p[1], p[2]) = y + s * a + c * b
    BY DEF AtX, AtY
  <2> HIDE DEF c, s, a, b
  <2> QED
    BY <1>1, <1>3, <2>1 DEF Px, Py
<1>5. qx = v - s * a - c * b /\ qy = x + c * a - s * b
  <2>1. AtX(v, w + 1, p[1], p[2]) = v + (-s) * a - c * b /\ AtY(x, w + 1, p[1], p[2]) = x + c * a + (-s) * b
    BY <1>3 DEF AtX, AtY
  <2> HIDE DEF c, s, a, b, v
  <2> QED
    BY <1>1, <1>2, <1>3, <2>1 DEF Px, Py
<1>6. px \in Int /\ py \in Int /\ qy = px /\ qx = map.size_y - 1 - py
  <2> HIDE DEF c, s, a, b, px, py, qx, qy
  <2> QED
    BY <1>1, <1>3, <1>4, <1>5 DEF v
<1>7. M!Residual(map, M!Column(<<x, y, w>>), p) = Value(map, px, py)
  BY ReadsAt
<1>8. M!Residual(Turned, M!Column(<<v, x, w + 1>>), p) = Value(Turned, qx, qy)
  <2> HIDE DEF v, qx, qy
  <2>1. M!Residual(Turned, M!Column(<<v, x, w + 1>>), p)
          = Value(Turned, Px(Turned, v, w + 1, p), Py(Turned, x, w + 1, p))
    BY <1>1, <1>2, ReadsAt
  <2> QED
    BY <2>1 DEF qx, qy
<1> HIDE DEF px, py, qx, qy, v
<1>9. Value(Turned, qx, qy) = Value(map, px, py)
  BY <1>6, ValueTurns
<1>10. ex = -dy /\ ey = dx
  BY <1>6, GradientTurns
<1>11. dx \in Int /\ dy \in Int
  BY <1>6, GradientReads, KernelsAre
<1>12. LineOf(map, x, y, w, p) = <<dx, dy, Along(w, p, dx, dy)>>
  BY DEF LineOf, dx, dy, px, py
<1>13. LineOf(Turned, v, x, w + 1, p) = <<ex, ey, Along(w + 1, p, ex, ey)>>
  BY DEF LineOf, ex, ey, qx, qy
<1> HIDE DEF dx, dy, ex, ey
<1>14. Along(w + 1, p, ex, ey) = Along(w, p, dx, dy)
  <2>1. Along(w, p, dx, dy) = dx * (-s * a - c * b) + dy * (c * a - s * b)
    BY DEF Along
  <2>2. Along(w + 1, p, ex, ey) = ex * (-c * a - (-s) * b) + ey * ((-s) * a - c * b)
    BY <1>3 DEF Along
  <2> HIDE DEF a, b, c, s
  <2> QED
    BY <1>1, <1>3, <1>10, <1>11, <2>1, <2>2
<1> QED
  BY <1>7, <1>8, <1>9, <1>10, <1>12, <1>13, <1>14 DEF v

\* Jacobians of a scan, and those turned.
Turns3(J, K, n) ==
    \A k \in 1 .. n : /\ M!Item(K[k], 0) = -M!Item(J[k], 1)
                      /\ M!Item(K[k], 1) = M!Item(J[k], 0)
                      /\ M!Item(K[k], 2) = M!Item(J[k], 2)

LEMMA GradientSumsTurn ==
    ASSUME NEW J, NEW K, NEW r, NEW n, Derived(J, n), Derived(K, n), Turns3(J, K, n), Numbers(r, n)
    PROVE  /\ M!Item(M!SumG(K, r), 0) = -M!Item(M!SumG(J, r), 1)
           /\ M!Item(M!SumG(K, r), 1) = M!Item(M!SumG(J, r), 0)
           /\ M!Item(M!SumG(K, r), 2) = M!Item(M!SumG(J, r), 2)
<1> DEFINE T == 1 .. n
           f(i) == WithNumber(J, r, n, i)
           g(i) == WithNumber(K, r, n, i)
<1>1. IsFiniteSet(T)
  <2>1. n \in Nat \ {0}
    BY DEF Derived
  <2> QED
    BY <2>1, FS_Interval
<1>2. ASSUME NEW k \in T
      PROVE  /\ \A i \in 0 .. 2 : M!Item(J[k], i) \in Int
             /\ r[k] \in Int
             /\ M!Item(K[k], 0) = -M!Item(J[k], 1) /\ M!Item(K[k], 1) = M!Item(J[k], 0)
             /\ M!Item(K[k], 2) = M!Item(J[k], 2)
  BY DerivedItems DEF Numbers, Turns3
<1>3. ASSUME NEW i \in 0 .. 2, NEW k \in T
      PROVE  f(i)[k] = M!Item(J[k], i) * r[k] /\ g(i)[k] = M!Item(K[k], i) * r[k]
  BY DEF WithNumber
<1> HIDE DEF f, g
<1>4. \A i \in 0 .. 2 : \A k \in T : f(i)[k] \in Int
  BY <1>2, <1>3
<1>5. \A k \in T : g(0)[k] = -f(1)[k] /\ g(1)[k] = f(0)[k] /\ g(2)[k] = f(2)[k]
  BY <1>2, <1>3
<1>6. SumFunctionOnSet(g(0), T) = -SumFunctionOnSet(f(1), T)
  <2>1. \A k \in T : f(1)[k] \in Int /\ g(0)[k] = -f(1)[k]
    BY <1>4, <1>5
  <2> HIDE DEF T
  <2> QED
    BY <1>1, <2>1, SumOpposite
<1>7. SumFunctionOnSet(g(1), T) = SumFunctionOnSet(f(0), T)
  <2>1. \A k \in T : f(0)[k] \in Int /\ g(1)[k] = f(0)[k]
    BY <1>4, <1>5
  <2> HIDE DEF T
  <2> QED
    BY <1>1, <2>1, SumEqual
<1>8. SumFunctionOnSet(g(2), T) = SumFunctionOnSet(f(2), T)
  <2>1. \A k \in T : f(2)[k] \in Int /\ g(2)[k] = f(2)[k]
    BY <1>4, <1>5
  <2> HIDE DEF T
  <2> QED
    BY <1>1, <2>1, SumEqual
<1>9. \A i \in 0 .. 2 : /\ M!Item(M!SumG(J, r), i) = SumFunctionOnSet(f(i), T)
                        /\ M!Item(M!SumG(K, r), i) = SumFunctionOnSet(g(i), T)
  BY SumGEntries DEF f, g
<1> QED
  BY <1>6, <1>7, <1>8, <1>9

LEMMA HessianSumsTurn ==
    ASSUME NEW J, NEW K, NEW n, Derived(J, n), Derived(K, n), Turns3(J, K, n)
    PROVE  LET e(i, j) == M!Entry(M!SumH(J), i, j)
               o(i, j) == M!Entry(M!SumH(K), i, j)
           IN  /\ o(0, 0) = e(1, 1) /\ o(0, 1) = -e(0, 1) /\ o(0, 2) = -e(1, 2)
               /\ o(1, 1) = e(0, 0) /\ o(1, 2) = e(0, 2) /\ o(2, 2) = e(2, 2)
<1> DEFINE T == 1 .. n
           f(i, j) == WithOther(J, n, i, j)
           g(i, j) == WithOther(K, n, i, j)
<1>1. IsFiniteSet(T)
  <2>1. n \in Nat \ {0}
    BY DEF Derived
  <2> QED
    BY <2>1, FS_Interval
<1>2. ASSUME NEW k \in T
      PROVE  /\ \A i \in 0 .. 2 : M!Item(J[k], i) \in Int
             /\ M!Item(K[k], 0) = -M!Item(J[k], 1) /\ M!Item(K[k], 1) = M!Item(J[k], 0)
             /\ M!Item(K[k], 2) = M!Item(J[k], 2)
  BY DerivedItems DEF Turns3
<1>3. ASSUME NEW i \in 0 .. 2, NEW j \in 0 .. 2, NEW k \in T
      PROVE  /\ f(i, j)[k] = M!Item(J[k], i) * M!Item(J[k], j)
             /\ g(i, j)[k] = M!Item(K[k], i) * M!Item(K[k], j)
  BY DEF WithOther
<1> HIDE DEF f, g
<1>4. \A i, j \in 0 .. 2 : \A k \in T : f(i, j)[k] \in Int
  BY <1>2, <1>3
<1>5. \A k \in T : g(0, 0)[k] = f(1, 1)[k] /\ g(0, 1)[k] = -f(0, 1)[k] /\ g(0, 2)[k] = -f(1, 2)[k]
  <2> SUFFICES ASSUME NEW k \in T
               PROVE  g(0, 0)[k] = f(1, 1)[k] /\ g(0, 1)[k] = -f(0, 1)[k] /\ g(0, 2)[k] = -f(1, 2)[k]
    OBVIOUS
  <2> DEFINE a == M!Item(J[k], 0)  b == M!Item(J[k], 1)  c == M!Item(J[k], 2)
  <2>1. a \in Int /\ b \in Int /\ c \in Int
    BY <1>2
  <2>2. /\ g(0, 0)[k] = (-b) * (-b) /\ g(0, 1)[k] = (-b) * a /\ g(0, 2)[k] = (-b) * c
        /\ f(1, 1)[k] = b * b /\ f(0, 1)[k] = a * b /\ f(1, 2)[k] = b * c
    BY <1>2, <1>3
  <2> HIDE DEF a, b, c
  <2> QED
    BY <2>1, <2>2
<1>6. \A k \in T : g(1, 1)[k] = f(0, 0)[k] /\ g(1, 2)[k] = f(0, 2)[k] /\ g(2, 2)[k] = f(2, 2)[k]
  BY <1>2, <1>3
<1>7. /\ SumFunctionOnSet(g(0, 0), T) = SumFunctionOnSet(f(1, 1), T)
      /\ SumFunctionOnSet(g(0, 1), T) = -SumFunctionOnSet(f(0, 1), T)
      /\ SumFunctionOnSet(g(0, 2), T) = -SumFunctionOnSet(f(1, 2), T)
  <2>1. SumFunctionOnSet(g(0, 0), T) = SumFunctionOnSet(f(1, 1), T)
    <3>1. \A k \in T : f(1, 1)[k] \in Int /\ g(0, 0)[k] = f(1, 1)[k]
      BY <1>4, <1>5
    <3> HIDE DEF T
    <3> QED
      BY <1>1, <3>1, SumEqual
  <2>2. SumFunctionOnSet(g(0, 1), T) = -SumFunctionOnSet(f(0, 1), T)
    <3>1. \A k \in T : f(0, 1)[k] \in Int /\ g(0, 1)[k] = -f(0, 1)[k]
      BY <1>4, <1>5
    <3> HIDE DEF T
    <3> QED
      BY <1>1, <3>1, SumOpposite
  <2>3. SumFunctionOnSet(g(0, 2), T) = -SumFunctionOnSet(f(1, 2), T)
    <3>1. \A k \in T : f(1, 2)[k] \in Int /\ g(0, 2)[k] = -f(1, 2)[k]
      BY <1>4, <1>5
    <3> HIDE DEF T
    <3> QED
      BY <1>1, <3>1, SumOpposite
  <2> QED
    BY <2>1, <2>2, <2>3
<1>8. /\ SumFunctionOnSet(g(1, 1), T) = SumFunctionOnSet(f(0, 0), T)
      /\ SumFunctionOnSet(g(1, 2), T) = SumFunctionOnSet(f(0, 2), T)
      /\ SumFunctionOnSet(g(2, 2), T) = SumFunctionOnSet(f(2, 2), T)
  <2>1. SumFunctionOnSet(g(1, 1), T) = SumFunctionOnSet(f(0, 0), T)
    <3>1. \A k \in T : f(0, 0)[k] \in Int /\ g(1, 1)[k] = f(0, 0)[k]
      BY <1>4, <1>6
    <3> HIDE DEF T
    <3> QED
      BY <1>1, <3>1, SumEqual
  <2>2. SumFunctionOnSet(g(1, 2), T) = SumFunctionOnSet(f(0, 2), T)
    <3>1. \A k \in T : f(0, 2)[k] \in Int /\ g(1, 2)[k] = f(0, 2)[k]
      BY <1>4, <1>6
    <3> HIDE DEF T
    <3> QED
      BY <1>1, <3>1, SumEqual
  <2>3. SumFunctionOnSet(g(2, 2), T) = SumFunctionOnSet(f(2, 2), T)
    <3>1. \A k \in T : f(2, 2)[k] \in Int /\ g(2, 2)[k] = f(2, 2)[k]
      BY <1>4, <1>6
    <3> HIDE DEF T
    <3> QED
      BY <1>1, <3>1, SumEqual
  <2> QED
    BY <2>1, <2>2, <2>3
<1>9. \A i, j \in 0 .. 2 : /\ M!Entry(M!SumH(J), i, j) = SumFunctionOnSet(f(i, j), T)
                           /\ M!Entry(M!SumH(K), i, j) = SumFunctionOnSet(g(i, j), T)
  BY SumHEntries DEF f, g
<1> QED
  BY <1>7, <1>8, <1>9

\* The system of the turned world has the same determinant, and a turned solution.
LEMMA SolutionTurns ==
    ASSUME NEW J, NEW K, NEW r, NEW n, Derived(J, n), Derived(K, n), Turns3(J, K, n), Numbers(r, n)
    PROVE  LET here == M!Solution(M!Damped(M!SumH(J)), M!SumG(J, r))
               there == M!Solution(M!Damped(M!SumH(K)), M!SumG(K, r))
           IN  /\ IsMatrix(here.x, 3, 1) /\ IsMatrix(there.x, 3, 1)
               /\ there.det = here.det
               /\ M!Item(there.x, 0) = -M!Item(here.x, 1)
               /\ M!Item(there.x, 1) = M!Item(here.x, 0)
               /\ M!Item(there.x, 2) = M!Item(here.x, 2)
<1> DEFINE hh == M!SumH(J)  hk == M!SumH(K)
           G == M!SumG(J, r)  T == M!SumG(K, r)
           m == M!Damped(hh)  o == M!Damped(hk)
           u == M!Solution(m, G).x  v == M!Solution(o, T).x
           du == M!Solution(m, G).det  dv == M!Solution(o, T).det
           a == M!Entry(m, 0, 0)  b == M!Entry(m, 0, 1)  c == M!Entry(m, 0, 2)
           d == M!Entry(m, 1, 1)  e == M!Entry(m, 1, 2)  f == M!Entry(m, 2, 2)
           g == M!Item(G, 0)  h == M!Item(G, 1)  i == M!Item(G, 2)
<1>1. IsMatrix(G, 3, 1) /\ IsMatrix(T, 3, 1) /\ IsMatrix(hh, 3, 3) /\ IsMatrix(hk, 3, 3)
  BY SumGEntries, SumHEntries
<1>2. M!Item(T, 0) = -h /\ M!Item(T, 1) = g /\ M!Item(T, 2) = i
  BY GradientSumsTurn
<1>3. /\ M!Entry(hk, 0, 0) = M!Entry(hh, 1, 1) /\ M!Entry(hk, 0, 1) = -M!Entry(hh, 0, 1)
      /\ M!Entry(hk, 0, 2) = -M!Entry(hh, 1, 2) /\ M!Entry(hk, 1, 1) = M!Entry(hh, 0, 0)
      /\ M!Entry(hk, 1, 2) = M!Entry(hh, 0, 2) /\ M!Entry(hk, 2, 2) = M!Entry(hh, 2, 2)
  BY HessianSumsTurn
<1>4. /\ IsMatrix(u, 3, 1) /\ du = SymmetricDet(a, b, c, d, e, f) /\ Definite(a, b, c, d, e, f)
      /\ Cofactors(a, b, c, d, e, f, g, h, i, M!Item(u, 0), M!Item(u, 1), M!Item(u, 2))
  <2> HIDE DEF G
  <2> QED
    BY <1>1, SolutionIs
<1>5. /\ IsMatrix(v, 3, 1)
      /\ dv = SymmetricDet(M!Entry(o, 0, 0), M!Entry(o, 0, 1), M!Entry(o, 0, 2),
                           M!Entry(o, 1, 1), M!Entry(o, 1, 2), M!Entry(o, 2, 2))
      /\ Cofactors(M!Entry(o, 0, 0), M!Entry(o, 0, 1), M!Entry(o, 0, 2),
                   M!Entry(o, 1, 1), M!Entry(o, 1, 2), M!Entry(o, 2, 2),
                   M!Item(T, 0), M!Item(T, 1), M!Item(T, 2), M!Item(v, 0), M!Item(v, 1), M!Item(v, 2))
  <2> HIDE DEF T
  <2> QED
    BY <1>1, SolutionIs
<1> HIDE DEF hh, hk, G, T, u, v, du, dv
<1>6. \A k, l \in 0 .. 2 : /\ M!Entry(m, k, l) = M!Entry(hh, k, l) + IF k = l THEN Damping ELSE 0
                           /\ M!Entry(o, k, l) = M!Entry(hk, k, l) + IF k = l THEN Damping ELSE 0
  BY <1>1, DampedEntries
<1> HIDE DEF m, o
<1>7. /\ a \in Int /\ b \in Int /\ c \in Int /\ d \in Int /\ e \in Int /\ f \in Int
  BY <1>4 DEF Definite
<1>8. g \in Int /\ h \in Int /\ i \in Int
  <2>1. \A k \in 0 .. 3 - 1 : M!Item(G, k) \in Int
    BY <1>1, ItemIs
  <2> QED
    BY <2>1
<1>9. /\ M!Entry(o, 0, 0) = d /\ M!Entry(o, 0, 1) = -b /\ M!Entry(o, 0, 2) = -e
      /\ M!Entry(o, 1, 1) = a /\ M!Entry(o, 1, 2) = c /\ M!Entry(o, 2, 2) = f
  <2>1. \A k, l \in 0 .. 2 : M!Entry(hh, k, l) \in Int
    BY <1>1, IntEntries3
  <2>2. Damping \in Int
    BY MatchAssumption
  <2>3. M!Entry(o, 0, 0) = d /\ M!Entry(o, 1, 1) = a /\ M!Entry(o, 2, 2) = f
    BY <1>3, <1>6
  <2>4. M!Entry(o, 0, 1) = -b /\ M!Entry(o, 0, 2) = -e /\ M!Entry(o, 1, 2) = c
    BY <1>3, <1>6, <2>1
  <2> QED
    BY <2>3, <2>4
<1> DEFINE nb == -b  ne == -e  nh == -h
<1>10. dv = SymmetricDet(d, nb, ne, a, c, f)
       /\ Cofactors(d, nb, ne, a, c, f, nh, g, i, M!Item(v, 0), M!Item(v, 1), M!Item(v, 2))
  BY <1>2, <1>5, <1>9
<1> HIDE DEF a, b, c, d, e, f, g, h, i
<1>11. SymmetricDet(d, nb, ne, a, c, f) = SymmetricDet(a, b, c, d, e, f)
  BY <1>7 DEF SymmetricDet
<1>12. /\ M!Item(u, 0) = (d * f - e * e) * g - (b * f - c * e) * h + (b * e - c * d) * i
       /\ M!Item(u, 1) = (a * f - c * c) * h - (b * f - e * c) * g - (a * e - c * b) * i
       /\ M!Item(u, 2) = (a * d - b * b) * i + (b * e - d * c) * g - (a * e - b * c) * h
  BY <1>4 DEF Cofactors
<1>13. /\ M!Item(v, 0) = (a * f - c * c) * (-h) - ((-b) * f - (-e) * c) * g + ((-b) * c - (-e) * a) * i
       /\ M!Item(v, 1) = (d * f - (-e) * (-e)) * g - ((-b) * f - c * (-e)) * (-h) - (d * c - (-e) * (-b)) * i
       /\ M!Item(v, 2) = (d * a - (-b) * (-b)) * i + ((-b) * c - a * (-e)) * (-h) - (d * c - (-b) * (-e)) * g
  BY <1>10 DEF Cofactors
<1> DEFINE u0 == M!Item(u, 0)  u1 == M!Item(u, 1)  u2 == M!Item(u, 2)
           v0 == M!Item(v, 0)  v1 == M!Item(v, 1)  v2 == M!Item(v, 2)
<1> HIDE DEF u0, u1, u2, v0, v1, v2
<1>14. v0 = -u1
  BY <1>7, <1>8, <1>12, <1>13 DEF u1, v0
<1>15. v1 = u0
  BY <1>7, <1>8, <1>12, <1>13 DEF u0, v1
<1>16. v2 = u2
  BY <1>7, <1>8, <1>12, <1>13 DEF u2, v2
<1> QED
  BY <1>4, <1>5, <1>10, <1>11, <1>14, <1>15, <1>16
     DEF u, v, du, dv, m, o, hh, hk, G, T, u0, u1, u2, v0, v1, v2

\* A quarter turn of a vector.
LEMMA QuarterTurn ==
    ASSUME NEW u, NEW v, IsMatrix(u, 3, 1), IsMatrix(v, 3, 1),
           M!Item(v, 0) = -M!Item(u, 1), M!Item(v, 1) = M!Item(u, 0), M!Item(v, 2) = M!Item(u, 2)
    PROVE  v = M!Times(M!Rotate2(1), u)
<1> DEFINE a == M!Rotate2(1)
           m == M!Times(a, u)
<1>1. IsFlat(a, 0, 1, 0, 0)
  <2>1. PICK one \in Int : one = 1
    OBVIOUS
  <2>2. M!Cos(one) = 0 /\ M!Sin(one) = 1 /\ M!Cos(one) \in Int /\ M!Sin(one) \in Int
    BY <2>1, Quarters
  <2>3. M!Rotate2(one) = M!FromList(3, 3, <<M!Cos(one), -M!Sin(one), 0, M!Sin(one), M!Cos(one), 0, 0, 0, 1>>)
    BY DEF M!Rotate2
  <2>4. IsFlat(M!Rotate2(one), M!Cos(one), M!Sin(one), 0, 0)
    BY <2>2, <2>3, FlatEntries
  <2> QED
    BY <2>1, <2>2, <2>4
<1>2. IsMatrix(a, 3, 3)
  BY <1>1 DEF IsFlat
<1> HIDE DEF a
<1>3. IsMatrix(m, 3, 1)
  BY <1>2, TimesEntries
<1>4. ASSUME NEW k \in 0 .. 2
      PROVE  M!Entry(m, k, 0) = M!Entry(a, k, 0) * M!Item(u, 0) + M!Entry(a, k, 1) * M!Item(u, 1)
                                  + M!Entry(a, k, 2) * M!Item(u, 2)
  <2>1. M!Entry(m, k, 0) = M!Entry(a, k, 0) * M!Entry(u, 0, 0) + M!Entry(a, k, 1) * M!Entry(u, 1, 0)
                             + M!Entry(a, k, 2) * M!Entry(u, 2, 0)
    BY <1>2, Times3
  <2>2. M!Entry(u, 0, 0) = M!Item(u, 0) /\ M!Entry(u, 1, 0) = M!Item(u, 1) /\ M!Entry(u, 2, 0) = M!Item(u, 2)
    BY ItemIs
  <2> QED
    BY <2>1, <2>2
<1> HIDE DEF m
<1>5. M!Item(u, 0) \in Int /\ M!Item(u, 1) \in Int /\ M!Item(u, 2) \in Int
  <2>1. \A k \in 0 .. 3 - 1 : M!Item(u, k) \in Int
    BY ItemIs
  <2> QED
    BY <2>1
<1>6. /\ M!Entry(m, 0, 0) = -M!Item(u, 1) /\ M!Entry(m, 1, 0) = M!Item(u, 0) /\ M!Entry(m, 2, 0) = M!Item(u, 2)
  BY <1>1, <1>4, <1>5 DEF IsFlat
<1>7. /\ M!Entry(v, 0, 0) = -M!Item(u, 1) /\ M!Entry(v, 1, 0) = M!Item(u, 0) /\ M!Entry(v, 2, 0) = M!Item(u, 2)
  BY ItemIs
<1>8. \A k \in 0 .. 3 - 1, l \in 0 .. 1 - 1 : M!Entry(v, k, l) = M!Entry(m, k, l)
  BY <1>6, <1>7
<1>9. v = m
  BY <1>3, <1>8, SameMatrix
<1> QED
  BY <1>9 DEF m, a

\* A tile just cut has the scale of its world.
FreshInv ==
    /\ count \in Nat
    /\ pc = "downscale" => MapDownscale > 0
    /\ pc = "smooth" => NumSmooth > 0
    /\ Fresh => map.scale = 1

LEMMA FreshIsCut == Spec => []FreshInv
<1> USE TileAssumption
<1>1. Init => FreshInv
  BY DEF Init, FreshInv, Cut, Grid, AfterCut
<1>2. FreshInv /\ [Next]_vars => FreshInv'
  <2> SUFFICES ASSUME FreshInv, [Next]_vars PROVE FreshInv'
    OBVIOUS
  <2>1. CASE DownscaleMap
    BY <2>1 DEF DownscaleMap, FreshInv, Fresh, AfterCut
  <2>2. CASE SmoothMap
    BY <2>2 DEF SmoothMap, FreshInv, Fresh, AfterCut
  <2>3. CASE UpdateMap
    BY <2>3 DEF UpdateMap, FreshInv, Cut, Grid, AfterCut
  <2>4. CASE UNCHANGED vars
    BY <2>4 DEF vars, FreshInv, Fresh, AfterCut
  <2> QED
    BY <2>1, <2>2, <2>3, <2>4 DEF Next
<1> QED
  BY <1>1, <1>2, PTL DEF Spec

\* Turning map and robot turns the step, for every tile that is not halved,
\* smoothed or not, every scan and every pose at a whole pixel: there no axis and
\* no heading is treated differently by the solver (Solver.h:112-160).
THEOREM StepTurnsWithWorldHolds == Spec => [](StepTurnsWithWorld /\ (map.scale = 1 => TurnsWithWorld))
<1>1. IsGrid(map) /\ map.scale = 1 => TurnsWithWorld
  <2> SUFFICES ASSUME IsGrid(map), map.scale = 1, NEW pose \in MatchPoses, NEW scan \in Scans
               PROVE  LET here == M!Step(map, scan, Column3(pose))
                          there == M!Step(Turned, scan, Column3(TurnedPose(pose)))
                      IN  there.det = here.det /\ there.x = M!Times(M!Rotate2(1), here.x)
    BY DEF TurnsWithWorld
  <2> DEFINE x == pose[1]  y == pose[2]  w == pose[3]
             v == map.size_y - 1 - y
             at == M!Column(<<x, y, w>>)
             to == M!Column(<<v, x, w + 1>>)
             n == Len(scan)
             J == M!Jacobians(map, scan, at)
             r == M!Residuals(map, scan, at)
             K == M!Jacobians(Turned, scan, to)
             s == M!Residuals(Turned, scan, to)
  <2>1. x \in Int /\ y \in Int /\ w \in Int /\ Column3(pose) = at
    BY MatchPoseIs DEF Column3
  <2>2. Column3(TurnedPose(pose)) = to
    BY DEF Column3, TurnedPose
  <2>3. Scanned(scan, n)
    BY ScanIs
  <2>4. v \in Int /\ w + 1 \in Int
    BY <2>1, GridTypes
  <2>5. IsGrid(Turned)
    BY TurnedGrid
  <2> HIDE DEF x, y, w, n
  <2>6. Derived(J, n) /\ Numbers(r, n)
        /\ \A k \in 1 .. n : /\ IsColumn(J[k], 3, LineOf(map, x, y, w, scan[k]))
                             /\ r[k] = M!Residual(map, at, scan[k])
    BY <2>1, <2>3, ScanDerived
  <2> DEFINE z == w + 1
  <2>7. Derived(K, n) /\ Numbers(s, n)
        /\ \A k \in 1 .. n : /\ IsColumn(K[k], 3, LineOf(Turned, v, x, w + 1, scan[k]))
                             /\ s[k] = M!Residual(Turned, to, scan[k])
    <3> DEFINE q == M!Column(<<v, x, z>>)
    <3> HIDE DEF v, z
    <3>1. z \in Int /\ v \in Int
      BY <2>4 DEF z, v
    <3>2. Derived(M!Jacobians(Turned, scan, q), n) /\ Numbers(M!Residuals(Turned, scan, q), n)
          /\ \A k \in 1 .. n : /\ IsColumn(M!Jacobians(Turned, scan, q)[k], 3, LineOf(Turned, v, x, z, scan[k]))
                               /\ M!Residuals(Turned, scan, q)[k] = M!Residual(Turned, q, scan[k])
      BY <2>1, <2>3, <2>5, <3>1, ScanDerived
    <3> QED
      BY <3>2 DEF z, v
  <2>8. ASSUME NEW k \in 1 .. n
        PROVE  /\ LineOf(Turned, v, x, w + 1, scan[k])[1] = -LineOf(map, x, y, w, scan[k])[2]
               /\ LineOf(Turned, v, x, w + 1, scan[k])[2] = LineOf(map, x, y, w, scan[k])[1]
               /\ LineOf(Turned, v, x, w + 1, scan[k])[3] = LineOf(map, x, y, w, scan[k])[3]
               /\ M!Residual(Turned, to, scan[k]) = M!Residual(map, at, scan[k])
    <3>1. IsPoint(scan[k])
      BY <2>3 DEF Scanned
    <3> QED
      BY <2>1, <3>1, LineTurns
  <2> HIDE DEF J, r, K, s, at, to, v
  <2>9. Turns3(J, K, n)
    <3> SUFFICES ASSUME NEW k \in 1 .. n
                 PROVE  /\ M!Item(K[k], 0) = -M!Item(J[k], 1)
                        /\ M!Item(K[k], 1) = M!Item(J[k], 0)
                        /\ M!Item(K[k], 2) = M!Item(J[k], 2)
      BY DEF Turns3
    <3>1. \A l \in 0 .. 3 - 1 : M!Item(J[k], l) = LineOf(map, x, y, w, scan[k])[l + 1]
      BY <2>6 DEF IsColumn
    <3>2. \A l \in 0 .. 3 - 1 : M!Item(K[k], l) = LineOf(Turned, v, x, w + 1, scan[k])[l + 1]
      BY <2>7 DEF IsColumn
    <3>3. /\ M!Item(J[k], 0) = LineOf(map, x, y, w, scan[k])[1]
          /\ M!Item(J[k], 1) = LineOf(map, x, y, w, scan[k])[2]
          /\ M!Item(J[k], 2) = LineOf(map, x, y, w, scan[k])[3]
      BY <3>1
    <3>4. /\ M!Item(K[k], 0) = LineOf(Turned, v, x, w + 1, scan[k])[1]
          /\ M!Item(K[k], 1) = LineOf(Turned, v, x, w + 1, scan[k])[2]
          /\ M!Item(K[k], 2) = LineOf(Turned, v, x, w + 1, scan[k])[3]
      BY <3>2
    <3> QED
      BY <2>8, <3>3, <3>4
  <2>10. M!SumG(K, s) = M!SumG(K, r)
    <3>1. \A k \in 1 .. n : s[k] = r[k]
      BY <2>6, <2>7, <2>8
    <3>2. DOMAIN K = 1 .. n
      BY <2>7 DEF Derived
    <3>3. ASSUME NEW i
          PROVE  M!SumOver(K, LAMBDA k : M!Item(K[k], i) * s[k]) = M!SumOver(K, LAMBDA k : M!Item(K[k], i) * r[k])
      <4>1. [k \in DOMAIN K |-> M!Item(K[k], i) * s[k]] = [k \in DOMAIN K |-> M!Item(K[k], i) * r[k]]
        BY <3>1, <3>2
      <4> QED
        BY <4>1 DEF M!SumOver
    <3> QED
      BY <3>3 DEF M!SumG, M!MatrixOf, M!SumOver
  <2> DEFINE here == M!Solution(M!Damped(M!SumH(J)), M!SumG(J, r))
             there == M!Solution(M!Damped(M!SumH(K)), M!SumG(K, r))
  <2>11. /\ IsMatrix(here.x, 3, 1) /\ IsMatrix(there.x, 3, 1)
         /\ there.det = here.det
         /\ M!Item(there.x, 0) = -M!Item(here.x, 1)
         /\ M!Item(there.x, 1) = M!Item(here.x, 0)
         /\ M!Item(there.x, 2) = M!Item(here.x, 2)
    BY <2>6, <2>7, <2>9, SolutionTurns
  <2>12. M!Step(map, scan, Column3(pose)) = here
    BY <2>1 DEF M!Step, M!GradientVector, M!Hessian, J, r
  <2>13. M!Step(Turned, scan, Column3(TurnedPose(pose))) = there
    BY <2>2, <2>10 DEF M!Step, M!GradientVector, M!Hessian, K, s
  <2> HIDE DEF here, there
  <2>14. there.x = M!Times(M!Rotate2(1), here.x)
    BY <2>11, QuarterTurn
  <2> QED
    BY <2>11, <2>12, <2>13, <2>14
<1>2. FreshInv /\ (map.scale = 1 => TurnsWithWorld) => StepTurnsWithWorld
  BY DEF FreshInv, StepTurnsWithWorld
<1> QED
  BY <1>1, <1>2, TileIsGrid, FreshIsCut, PTL

-----------------------------------------------------------------------------
(* Along a wall.                                                            *)

\* The tile does not change along x, or along y.
AlongX(g) == \A i \in DOMAIN g.cells : g.cells[i] = At(g, 0, i \div g.size_x)
AlongY(g) == \A i \in DOMAIN g.cells : g.cells[i] = At(g, i % g.size_x, 0)

LEMMA ValueAlong ==
    ASSUME NEW g, IsGrid(g), NEW x \in Int, NEW y \in Int
    PROVE  /\ AlongX(g) => Value(g, x, y) = Value(g, 0, y)
           /\ AlongY(g) => Value(g, x, y) = Value(g, x, 0)
<1> DEFINE i == Clamp(x, g.size_x)
           j == Clamp(y, g.size_y)
<1>1. g.size_x \in Nat \ {0} /\ g.size_y \in Nat \ {0}
  BY GridTypes
<1>2. i \in 0 .. g.size_x - 1 /\ j \in 0 .. g.size_y - 1
  BY <1>1, Clamped
<1>3. Clamp(0, g.size_x) = 0 /\ Clamp(0, g.size_y) = 0
  BY <1>1 DEF Clamp
<1> HIDE DEF i, j
<1>4. Index(g, i, j) \in DOMAIN g.cells
  BY <1>2, AtInside
<1>5. Index(g, i, j) % g.size_x = i /\ Index(g, i, j) \div g.size_x = j
  <2> DEFINE w == g.size_x
  <2>1. w \in Nat \ {0} /\ i \in 0 .. w - 1 /\ j \in Nat
    BY <1>1, <1>2
  <2>2. Index(g, i, j) = j * w + i
    BY DEF Index
  <2> HIDE DEF w
  <2>3. Index(g, i, j) % w = i /\ Index(g, i, j) \div w = j
    BY <2>1, <2>2, IndexOfPixel
  <2> QED
    BY <2>3 DEF w
<1>6. AlongX(g) => At(g, i, j) = At(g, 0, j)
  BY <1>4, <1>5 DEF AlongX, At
<1>7. AlongY(g) => At(g, i, j) = At(g, i, 0)
  BY <1>4, <1>5 DEF AlongY, At
<1> QED
  BY <1>3, <1>6, <1>7 DEF Value, i, j

\* The nine terms around a pixel, three after three.
Row(f, j) == f[<<-1, j>>] + f[<<0, j>>] + f[<<1, j>>]

LEMMA SumOfNine ==
    ASSUME NEW f, \A c \in Across \X Across : f[c] \in Int
    PROVE  SumFunctionOnSet(f, Across \X Across) = Row(f, -1) + Row(f, 0) + Row(f, 1)
<1> DEFINE a == <<-1, -1>>  b == <<0, -1>>  c == <<1, -1>>
           d == <<-1, 0>>   e == <<0, 0>>   h == <<1, 0>>
           k == <<-1, 1>>   l == <<0, 1>>   m == <<1, 1>>
           S1 == {} \cup {a}   S2 == S1 \cup {b}   S3 == S2 \cup {c}
           S4 == S3 \cup {d}   S5 == S4 \cup {e}   S6 == S5 \cup {h}
           S7 == S6 \cup {k}   S8 == S7 \cup {l}   S9 == S8 \cup {m}
<1>1. Across = {-1, 0, 1}
  BY DEF Across
<1>2. Across \X Across = S9
  BY <1>1
<1>3. /\ b \notin S1 /\ c \notin S2 /\ d \notin S3 /\ e \notin S4 /\ h \notin S5
      /\ k \notin S6 /\ l \notin S7 /\ m \notin S8
  OBVIOUS
<1>4. /\ f[a] \in Int /\ f[b] \in Int /\ f[c] \in Int /\ f[d] \in Int /\ f[e] \in Int
      /\ f[h] \in Int /\ f[k] \in Int /\ f[l] \in Int /\ f[m] \in Int
  BY <1>1
<1>5. /\ Row(f, -1) = f[a] + f[b] + f[c] /\ Row(f, 0) = f[d] + f[e] + f[h]
      /\ Row(f, 1) = f[k] + f[l] + f[m]
  BY DEF Row
<1>6. /\ IsFiniteSet(S1) /\ IsFiniteSet(S2) /\ IsFiniteSet(S3) /\ IsFiniteSet(S4)
      /\ IsFiniteSet(S5) /\ IsFiniteSet(S6) /\ IsFiniteSet(S7) /\ IsFiniteSet(S8)
  <2>1. IsFiniteSet(S9)
    BY <1>2, AcrossTypes, FS_Product
  <2>2. /\ S1 \subseteq S9 /\ S2 \subseteq S9 /\ S3 \subseteq S9 /\ S4 \subseteq S9
        /\ S5 \subseteq S9 /\ S6 \subseteq S9 /\ S7 \subseteq S9 /\ S8 \subseteq S9
    OBVIOUS
  <2> HIDE DEF S1, S2, S3, S4, S5, S6, S7, S8, S9
  <2> QED
    BY <2>1, <2>2, FS_Subset
<1> HIDE DEF a, b, c, d, e, h, k, l, m
<1>7. SumFunctionOnSet(f, S1) = f[a]
  BY <1>4, FS_EmptySet, SumEmpty, SumMore
<1> DEFINE Adds(S, T, y) == SumFunctionOnSet(f, T) = SumFunctionOnSet(f, S) + f[y]
<1>8. ASSUME NEW S, IsFiniteSet(S), \A x \in S : f[x] \in Int, NEW y, y \notin S, f[y] \in Int
      PROVE  Adds(S, S \cup {y}, y)
  BY <1>8, SumMore
<1>9. /\ (\A x \in S1 : f[x] \in Int) /\ (\A x \in S2 : f[x] \in Int) /\ (\A x \in S3 : f[x] \in Int)
      /\ (\A x \in S4 : f[x] \in Int) /\ (\A x \in S5 : f[x] \in Int) /\ (\A x \in S6 : f[x] \in Int)
      /\ (\A x \in S7 : f[x] \in Int) /\ (\A x \in S8 : f[x] \in Int)
  BY <1>4
<1> HIDE DEF S1, S2, S3, S4, S5, S6, S7, S8, S9, Adds
<1>10. Adds(S1, S2, b) /\ Adds(S2, S3, c) /\ Adds(S3, S4, d) /\ Adds(S4, S5, e)
  BY <1>3, <1>4, <1>6, <1>8, <1>9 DEF S2, S3, S4, S5
<1>11. Adds(S5, S6, h) /\ Adds(S6, S7, k) /\ Adds(S7, S8, l) /\ Adds(S8, S9, m)
  BY <1>3, <1>4, <1>6, <1>8, <1>9 DEF S6, S7, S8, S9
<1>12. SumFunctionOnSet(f, S5) = f[a] + f[b] + f[c] + f[d] + f[e]
  BY <1>4, <1>7, <1>10 DEF Adds
<1>13. SumFunctionOnSet(f, S9) = SumFunctionOnSet(f, S5) + f[h] + f[k] + f[l] + f[m]
  BY <1>4, <1>11, <1>12 DEF Adds
<1> DEFINE s == SumFunctionOnSet(f, Across \X Across)
           r == Row(f, -1)  t == Row(f, 0)  u == Row(f, 1)
<1>14. s = r + t + u
  <2>1. s = f[a] + f[b] + f[c] + f[d] + f[e] + f[h] + f[k] + f[l] + f[m]
    BY <1>2, <1>12, <1>13
  <2>2. r = f[a] + f[b] + f[c] /\ t = f[d] + f[e] + f[h] /\ u = f[k] + f[l] + f[m]
    BY <1>5
  <2> HIDE DEF s, r, t, u
  <2> QED
    BY <1>4, <2>1, <2>2
<1> QED
  BY <1>14

\* There the second derivative along the wall is zero.
LEMMA CurveAlong ==
    ASSUME NEW g, IsGrid(g), NEW x \in Int, NEW y \in Int
    PROVE  /\ AlongX(g) => SumX(g, x, y, Curve) = 0
           /\ AlongY(g) => SumY(g, x, y, Curve) = 0
<1> DEFINE fx == PixelsX(g, x, y, Curve)
           fy == PixelsY(g, x, y, Curve)
           v(i, j) == Value(g, x + i, y + j)
<1>1. Across = {-1, 0, 1}
  BY DEF Across
<1>2. Curve[-1] = 1 /\ Curve[0] = -2 /\ Curve[1] = 1 /\ Side[-1] = 2 /\ Side[0] = 3 /\ Side[1] = 2
  BY DEF Curve, Side, Across
<1>3. ASSUME NEW i \in Across, NEW j \in Across
      PROVE  /\ v(i, j) \in Int
             /\ fx[<<i, j>>] = Curve[i] * Side[j] * v(i, j) /\ fx[<<i, j>>] \in Int
             /\ fy[<<i, j>>] = Curve[j] * Side[i] * v(i, j) /\ fy[<<i, j>>] \in Int
  BY PixelTerms, KernelsAre
<1>4. ASSUME NEW i \in Across, NEW j \in Across
      PROVE  /\ AlongX(g) => v(i, j) = v(0, j)
             /\ AlongY(g) => v(i, j) = v(i, 0)
  <2>1. x + i \in Int /\ y + j \in Int /\ x + 0 \in Int /\ y + 0 \in Int
    BY <1>1
  <2> QED
    BY <2>1, ValueAlong
<1> HIDE DEF fx, fy, v
<1>5. ASSUME NEW f, f \in {fx, fy}
      PROVE  SumFunctionOnSet(f, Across \X Across) = Row(f, -1) + Row(f, 0) + Row(f, 1)
  <2>1. ASSUME NEW c \in Across \X Across PROVE f[c] \in Int
    <3>1. PICK i \in Across, j \in Across : c = <<i, j>>
      OBVIOUS
    <3> QED
      BY <1>3, <1>5, <3>1
  <2> QED
    BY <2>1, SumOfNine
<1>6. ASSUME AlongX(g), NEW j \in Across PROVE Row(fx, j) = 0
  <2>1. /\ fx[<<-1, j>>] = Curve[-1] * Side[j] * v(0, j)
        /\ fx[<<0, j>>] = Curve[0] * Side[j] * v(0, j)
        /\ fx[<<1, j>>] = Curve[1] * Side[j] * v(0, j)
    BY <1>1, <1>3, <1>4, <1>6
  <2>2. Side[j] \in Int /\ v(0, j) \in Int
    BY <1>1, <1>2, <1>3
  <2> QED
    BY <1>2, <2>1, <2>2 DEF Row
<1>7. ASSUME AlongY(g) PROVE Row(fy, -1) + Row(fy, 0) + Row(fy, 1) = 0
  <2>1. ASSUME NEW i \in Across
        PROVE  /\ fy[<<i, -1>>] = Side[i] * v(i, 0) /\ fy[<<i, 1>>] = Side[i] * v(i, 0)
               /\ fy[<<i, 0>>] = -2 * (Side[i] * v(i, 0)) /\ Side[i] * v(i, 0) \in Int
    <3>1. /\ fy[<<i, -1>>] = Curve[-1] * Side[i] * v(i, 0)
          /\ fy[<<i, 0>>] = Curve[0] * Side[i] * v(i, 0)
          /\ fy[<<i, 1>>] = Curve[1] * Side[i] * v(i, 0)
      BY <1>1, <1>3, <1>4, <1>7
    <3>2. Side[i] \in Int /\ v(i, 0) \in Int
      BY <1>1, <1>2, <1>3
    <3> QED
      BY <1>2, <3>1, <3>2
  <2> DEFINE t(i) == Side[i] * v(i, 0)
  <2>2. /\ fy[<<-1, -1>>] = t(-1) /\ fy[<<-1, 0>>] = -2 * t(-1) /\ fy[<<-1, 1>>] = t(-1) /\ t(-1) \in Int
        /\ fy[<<0, -1>>] = t(0) /\ fy[<<0, 0>>] = -2 * t(0) /\ fy[<<0, 1>>] = t(0) /\ t(0) \in Int
        /\ fy[<<1, -1>>] = t(1) /\ fy[<<1, 0>>] = -2 * t(1) /\ fy[<<1, 1>>] = t(1) /\ t(1) \in Int
    BY <1>1, <2>1
  <2> HIDE DEF t
  <2> QED
    BY <2>2 DEF Row
<1>8. AlongX(g) => SumX(g, x, y, Curve) = 0
  BY <1>1, <1>5, <1>6 DEF SumX, fx
<1>9. AlongY(g) => SumY(g, x, y, Curve) = 0
  BY <1>5, <1>7 DEF SumY, fy
<1> QED
  BY <1>8, <1>9

\* The top left block of a matrix.
LEMMA GetEntries ==
    ASSUME NEW r \in Nat \ {0}, NEW c \in Nat \ {0}, NEW a, IsMatrix(a, r, c),
           NEW s \in 1 .. r, NEW t \in 1 .. c
    PROVE  /\ IsMatrix(M!Get(a, s, t, 0, 0), s, t)
           /\ \A i \in 0 .. s - 1, j \in 0 .. t - 1 : M!Entry(M!Get(a, s, t, 0, 0), i, j) = M!Entry(a, i, j)
<1> DEFINE e == [p \in (0 .. s - 1) \X (0 .. t - 1) |-> M!Entry(a, p[1], p[2])]
           d == [k \in 1 .. s * t |-> M!Entry(a, (k - 1) % s, (k - 1) \div s)]
           m == M!Get(a, s, t, 0, 0)
<1>0. s \in Nat \ {0} /\ t \in Nat \ {0}
  OBVIOUS
<1>1. ASSUME NEW i \in 0 .. s - 1, NEW j \in 0 .. t - 1
      PROVE  e[<<i, j>>] = M!Entry(a, i, j) /\ e[<<i, j>>] \in Int
  <2>1. M!Entry(a, i, j) \in Int
    <3>1. i \in 0 .. r - 1 /\ j \in 0 .. c - 1
      OBVIOUS
    <3> QED
      BY <3>1, EntryIs
  <2> QED
    BY <2>1
<1>2. m = [rows |-> s, cols |-> t, data |-> <<>> \o d]
  <2>1. \A k \in 1 .. s * t : ((k - 1) % s) + 0 = (k - 1) % s /\ ((k - 1) \div s) + 0 = (k - 1) \div s
    <3>1. ASSUME NEW k \in 1 .. s * t PROVE (k - 1) % s \in Int /\ (k - 1) \div s \in Int
      <4>1. (k - 1) % s \in 0 .. s - 1 /\ (k - 1) \div s \in 0 .. t - 1
        BY <1>0, EntryOfPlace
      <4> QED
        BY <4>1
    <3> QED
      BY <3>1
  <2>2. [k \in 1 .. s * t |-> M!Entry(a, ((k - 1) % s) + 0, ((k - 1) \div s) + 0)] = d
    BY <2>1
  <2> HIDE DEF d
  <2> QED
    BY <2>2 DEF M!Get, M!MatrixOf
<1>3. d = [k \in 1 .. s * t |-> e[<<(k - 1) % s, (k - 1) \div s>>]]
  BY <1>0, EntryOfPlace
<1> HIDE DEF d, e, m
<1>4. Built(m, s, t, d, e)
  BY <1>0, <1>1, <1>2, <1>3 DEF Built
<1>5. IsMatrix(m, s, t) /\ \A i \in 0 .. s - 1, j \in 0 .. t - 1 : M!Entry(m, i, j) = e[<<i, j>>]
  BY <1>4, EntriesBuilt
<1> QED
  BY <1>1, <1>5 DEF m

\* The position in a pose, and what two positions differ by.
LEMMA PositionIs ==
    ASSUME NEW a, NEW n, IsMatrix(a, n, 1), n \in Nat, n >= 2
    PROVE  /\ IsMatrix(M!Get(a, 2, 1, 0, 0), 2, 1)
           /\ \A k \in 0 .. 1 : M!Item(M!Get(a, 2, 1, 0, 0), k) = M!Item(a, k)
<1>1. PICK s : s = 2
  OBVIOUS
<1>2. PICK t : t = 1
  OBVIOUS
<1> DEFINE m == M!Get(a, s, t, 0, 0)
<1>3. n \in Nat \ {0} /\ t \in Nat \ {0} /\ s \in 1 .. n /\ t \in 1 .. t /\ IsMatrix(a, n, t)
  BY <1>1, <1>2
<1>4. IsMatrix(m, s, t) /\ \A i \in 0 .. s - 1, j \in 0 .. t - 1 : M!Entry(m, i, j) = M!Entry(a, i, j)
  BY <1>3, GetEntries
<1> HIDE DEF m
<1>5. IsMatrix(m, 2, 1)
  BY <1>1, <1>2, <1>4
<1>6. ASSUME NEW k \in 0 .. 1 PROVE M!Item(m, k) = M!Item(a, k)
  <2>1. M!Entry(m, k, 0) = M!Entry(a, k, 0)
    BY <1>1, <1>2, <1>4
  <2>2. k \in 0 .. 2 - 1 /\ k \in 0 .. n - 1
    OBVIOUS
  <2>3. M!Item(m, k) = M!Entry(m, k, 0)
    BY <1>5, <2>2, ItemIs
  <2>4. M!Item(a, k) = M!Entry(a, k, 0)
    BY <1>3, <2>2, ItemIs
  <2> QED
    BY <2>1, <2>3, <2>4
<1> QED
  BY <1>1, <1>2, <1>5, <1>6 DEF m

LEMMA DifferenceIs ==
    ASSUME NEW a, NEW b, IsMatrix(a, 2, 1), IsMatrix(b, 2, 1)
    PROVE  IsMatrix(M!Minus(a, b), 2, 1)
<1>1. PICK m \in Int : m = -1
  OBVIOUS
<1>2. PICK c \in Nat \ {0} : c = 1
  OBVIOUS
<1>3. IsMatrix(M!Scale(b, m), 2, c)
  BY <1>2, ScaleEntries
<1>4. IsMatrix(M!Plus(a, M!Scale(b, m)), 2, c)
  BY <1>2, <1>3, PlusEntries
<1> QED
  BY <1>1, <1>2, <1>4 DEF M!Minus

LEMMA Dot2Is ==
    ASSUME NEW a, NEW b, IsMatrix(a, 2, 1), IsMatrix(b, 2, 1)
    PROVE  M!Dot(a, b) = M!Item(a, 0) * M!Item(b, 0) + M!Item(a, 1) * M!Item(b, 1)
           /\ M!Dot(a, b) \in Int
<1> DEFINE f == [k \in DOMAIN a.data |-> a.data[k] * b.data[k]]
<1>1. a.data \in [1 .. 2 -> Int] /\ b.data \in [1 .. 2 -> Int]
  BY DEF IsMatrix
<1>2. /\ f[1] = M!Item(a, 0) * M!Item(b, 0) /\ f[2] = M!Item(a, 1) * M!Item(b, 1) /\ DOMAIN f = 1 .. 2
  BY <1>1 DEF M!Item
<1>3. M!Dot(a, b) = SumFunctionOnSet(f, 1 .. 2)
  <2>1. M!Dot(a, b) = M!SumFunction(f)
    BY DEF M!Dot
  <2> QED
    BY <1>2, <2>1, SumsAgree
<1>4. \A k \in 1 .. 2 : f[k] \in Int
  BY <1>1
<1> HIDE DEF f
<1>5. SumFunctionOnSet(f, 1 .. 1) = f[1]
  BY <1>4, SumAt
<1>6. ASSUME NEW n \in 2 .. 2
      PROVE  SumFunctionOnSet(f, 1 .. n) = SumFunctionOnSet(f, 1 .. n - 1) + f[n]
  <2>1. n \in Int /\ 1 \in Int /\ 1 <= n /\ \A k \in 1 .. n : f[k] \in Int
    BY <1>4
  <2> QED
    BY <2>1, SumAlong
<1>7. SumFunctionOnSet(f, 1 .. 2) = f[1] + f[2]
  BY <1>5, <1>6
<1> QED
  BY <1>2, <1>3, <1>4, <1>7

\* The second derivatives at a point of the scan.
LEMMA CurvatureIs ==
    ASSUME NEW g, IsGrid(g), NEW x \in Int, NEW y \in Int, NEW w \in Int, NEW p, IsPoint(p)
    PROVE  LET d == M!Curvature(g, M!Column(<<x, y, w>>), p)
           IN  /\ d[1] \in Int /\ d[2] \in Int /\ d[3] \in Int
               /\ AlongX(g) => d[1] = 0
               /\ AlongY(g) => d[2] = 0
<1> DEFINE at == M!Column(<<x, y, w>>)
           px == Px(g, x, w, p)
           py == Py(g, y, w, p)
           dx == SumX(g, px, py, Curve)
           dy == SumY(g, px, py, Curve)
           q == M!ToGrid(at, p)
           b == M!Get(at, 2, 1, 0, 0)
           v == M!Minus(q, b)
<1>1. px \in Int /\ py \in Int
  BY ReadsAt
<1>2. M!ReadAt(g, at, p, M!CalcGradient2) = <<dx, dy>>
  BY ReadsAt
<1> HIDE DEF px, py
<1>3. dx \in Int /\ dy \in Int
  BY <1>1, GradientReads, KernelsAre
<1>4. (AlongX(g) => dx = 0) /\ (AlongY(g) => dy = 0)
  BY <1>1, CurveAlong
<1>5. IsMatrix(q, 2, 1)
  <2> DEFINE ax == AtX(x, w, p[1], p[2])
             ay == AtY(y, w, p[1], p[2])
  <2>1. ax \in Int /\ ay \in Int /\ q = M!Column(<<ax, ay>>)
    BY ToGridIs
  <2> HIDE DEF ax, ay, q
  <2>2. IsColumn(M!Column(<<ax, ay>>), 2, <<ax, ay>>)
    BY <2>1, Column2Is
  <2> QED
    BY <2>1, <2>2 DEF IsColumn
<1>6. IsMatrix(at, 3, 1)
  BY Column3Is DEF IsColumn
<1> HIDE DEF dx, dy, at, q
<1>7. IsMatrix(b, 2, 1)
  BY <1>6, PositionIs
<1> HIDE DEF b
<1>8. IsMatrix(v, 2, 1)
  BY <1>5, <1>7, DifferenceIs
<1> HIDE DEF v
<1>9. M!Item(v, 0) \in Int /\ M!Item(v, 1) \in Int
  <2>1. 0 \in 0 .. 2 - 1 /\ 1 \in 0 .. 2 - 1
    OBVIOUS
  <2> QED
    BY <1>8, <2>1, ItemIs
<1>10. M!Curvature(g, at, p) = <<dx, dy, M!Item(v, 1) * dx + M!Item(v, 0) * dy>>
  BY <1>2 DEF M!Curvature, v, b, q
<1> QED
  BY <1>3, <1>4, <1>9, <1>10 DEF at

\* The curvatures of n points, and the sums of their products.
Curved(D, n) ==
    /\ n \in Nat \ {0} /\ DOMAIN D = 1 .. n
    /\ \A k \in 1 .. n : D[k][1] \in Int /\ D[k][2] \in Int /\ D[k][3] \in Int
CrossSum(D, n, i, j) == SumFunctionOnSet([k \in 1 .. n |-> D[k][i] * D[k][j]], 1 .. n)

LEMMA CrossSumType ==
    ASSUME NEW D, NEW n, Curved(D, n), NEW i \in 1 .. 3, NEW j \in 1 .. 3
    PROVE  /\ CrossSum(D, n, i, j) \in Int
           /\ (\A k \in 1 .. n : D[k][i] = 0) => CrossSum(D, n, i, j) = 0 /\ CrossSum(D, n, j, i) = 0
           /\ CrossSum(D, n, i, i) >= 0
<1> DEFINE f == [k \in 1 .. n |-> D[k][i] * D[k][j]]
           h == [k \in 1 .. n |-> D[k][j] * D[k][i]]
           s == [k \in 1 .. n |-> D[k][i] * D[k][i]]
<1>1. IsFiniteSet(1 .. n)
  BY FS_Interval DEF Curved
<1>2. \A k \in 1 .. n : D[k][i] \in Int /\ D[k][j] \in Int
  BY DEF Curved
<1>3. \A k \in 1 .. n : f[k] \in Int
  BY <1>2
<1>4. \A k \in 1 .. n : s[k] \in Nat
  <2>1. ASSUME NEW k \in 1 .. n PROVE D[k][i] * D[k][i] \in Nat
    BY <1>2, Squares
  <2> QED
    BY <2>1
<1>5. (\A k \in 1 .. n : D[k][i] = 0) => \A k \in 1 .. n : f[k] = 0 /\ h[k] = 0
  BY <1>2
<1> HIDE DEF f, s, h
<1>6. SumFunctionOnSet(f, 1 .. n) \in Int
  BY <1>1, <1>3, SumType
<1>7. SumFunctionOnSet(s, 1 .. n) \in Nat
  BY <1>1, <1>4, SumOfNaturals
<1>8. (\A k \in 1 .. n : D[k][i] = 0)
        => SumFunctionOnSet(f, 1 .. n) = 0 /\ SumFunctionOnSet(h, 1 .. n) = 0
  BY <1>1, <1>5, SumOfZeros
<1>9. CrossSum(D, n, i, j) = SumFunctionOnSet(f, 1 .. n) /\ CrossSum(D, n, i, i) = SumFunctionOnSet(s, 1 .. n)
      /\ CrossSum(D, n, j, i) = SumFunctionOnSet(h, 1 .. n)
  BY DEF CrossSum, f, s, h
<1> QED
  BY <1>6, <1>7, <1>8, <1>9

LEMMA CovarianceIs ==
    ASSUME NEW D, NEW n, Curved(D, n)
    PROVE  LET c == M!Covariance(D)
           IN  /\ IsMatrix(c, 3, 3)
               /\ M!Entry(c, 0, 0) = CrossSum(D, n, 1, 1) /\ M!Entry(c, 0, 1) = CrossSum(D, n, 1, 2)
               /\ M!Entry(c, 1, 0) = CrossSum(D, n, 2, 1) /\ M!Entry(c, 1, 1) = CrossSum(D, n, 2, 2)
<1> DEFINE S(i, j) == CrossSum(D, n, i, j)
           list == <<S(1, 1), S(1, 2), 0, S(2, 1), S(2, 2), 0, 0, 0, S(3, 3)>>
           c == M!FromList(3, 3, list)
<1>1. ASSUME NEW i, NEW j
      PROVE  M!SumOver(D, LAMBDA k : D[k][i] * D[k][j]) = S(i, j)
  <2> DEFINE f == [k \in 1 .. n |-> D[k][i] * D[k][j]]
  <2>1. [k \in DOMAIN D |-> D[k][i] * D[k][j]] = f
    BY DEF Curved
  <2>2. DOMAIN f = 1 .. n
    OBVIOUS
  <2> HIDE DEF f
  <2>3. M!SumFunction(f) = SumFunctionOnSet(f, 1 .. n)
    BY <2>2, SumsAgree
  <2> QED
    BY <2>1, <2>3 DEF M!SumOver, CrossSum, f
<1>2. S(1, 1) \in Int /\ S(1, 2) \in Int /\ S(2, 1) \in Int /\ S(2, 2) \in Int /\ S(3, 3) \in Int
  BY CrossSumType
<1> HIDE DEF S
<1>3. M!Covariance(D) = c
  BY <1>1 DEF M!Covariance
<1>4. /\ list[1] = S(1, 1) /\ list[2] = S(1, 2) /\ list[3] = 0
      /\ list[4] = S(2, 1) /\ list[5] = S(2, 2) /\ list[6] = 0
      /\ list[7] = 0 /\ list[8] = 0 /\ list[9] = S(3, 3)
  OBVIOUS
<1> HIDE DEF list
<1>5. Lists(list, 3, 3)
  <2>1. \A k \in 1 .. 9 : list[k] \in Int
    BY <1>2, <1>4
  <2> QED
    BY <2>1 DEF Lists
<1>6. /\ IsMatrix(c, 3, 3)
      /\ \A i \in 0 .. 3 - 1, j \in 0 .. 3 - 1 : M!Entry(c, i, j) = list[i * 3 + j + 1]
  BY <1>5, ListEntries
<1> HIDE DEF c
<1>7. /\ M!Entry(c, 0, 0) = list[1] /\ M!Entry(c, 0, 1) = list[2]
      /\ M!Entry(c, 1, 0) = list[4] /\ M!Entry(c, 1, 1) = list[5]
  BY <1>6
<1> QED
  BY <1>3, <1>4, <1>6, <1>7 DEF S

LEMMA ScanCurved ==
    ASSUME NEW g, IsGrid(g), NEW x \in Int, NEW y \in Int, NEW w \in Int,
           NEW scan, NEW n, Scanned(scan, n)
    PROVE  LET c == M!VirtualScanCovariance(g, scan, M!Column(<<x, y, w>>))
           IN  /\ IsMatrix(c, 3, 3)
               /\ M!Entry(c, 0, 0) >= 0 /\ M!Entry(c, 1, 1) >= 0
               /\ AlongX(g) => M!Entry(c, 0, 0) = 0 /\ M!Entry(c, 0, 1) = 0 /\ M!Entry(c, 1, 0) = 0
               /\ AlongY(g) => M!Entry(c, 0, 1) = 0 /\ M!Entry(c, 1, 0) = 0 /\ M!Entry(c, 1, 1) = 0
<1> DEFINE at == M!Column(<<x, y, w>>)
           d == [k \in 1 .. n |-> M!Curvature(g, at, scan[k])]
           D == <<>> \o d
<1>1. n \in Nat \ {0} /\ DOMAIN scan = 1 .. n /\ \A k \in 1 .. n : IsPoint(scan[k])
  BY DEF Scanned
<1>2. ASSUME NEW k \in 1 .. n
      PROVE  /\ d[k][1] \in Int /\ d[k][2] \in Int /\ d[k][3] \in Int
             /\ AlongX(g) => d[k][1] = 0
             /\ AlongY(g) => d[k][2] = 0
  <2>1. d[k] = M!Curvature(g, at, scan[k]) /\ IsPoint(scan[k])
    BY <1>1
  <2> HIDE DEF d
  <2> QED
    BY <2>1, CurvatureIs
<1>3. DOMAIN d = 1 .. n /\ d = [k \in DOMAIN d |-> d[k]]
  OBVIOUS
<1>4. M!VirtualScanCovariance(g, scan, at) = M!Covariance(D)
  BY <1>1 DEF M!VirtualScanCovariance
<1> HIDE DEF d, at
<1>5. D = d
  BY <1>1, <1>3, Tuples
<1>6. Curved(d, n)
  BY <1>1, <1>2, <1>3 DEF Curved
<1>7. /\ AlongX(g) => \A k \in 1 .. n : d[k][1] = 0
      /\ AlongY(g) => \A k \in 1 .. n : d[k][2] = 0
  BY <1>2
<1>8. /\ AlongX(g) => CrossSum(d, n, 1, 1) = 0 /\ CrossSum(d, n, 1, 2) = 0 /\ CrossSum(d, n, 2, 1) = 0
      /\ AlongY(g) => CrossSum(d, n, 2, 1) = 0 /\ CrossSum(d, n, 1, 2) = 0 /\ CrossSum(d, n, 2, 2) = 0
      /\ CrossSum(d, n, 1, 1) >= 0 /\ CrossSum(d, n, 2, 2) >= 0
  <2> DEFINE Flat(i) == \A k \in 1 .. n : d[k][i] = 0
             Sum(i, j) == CrossSum(d, n, i, j)
  <2>1. \A i, j \in 1 .. 3 : /\ Flat(i) => Sum(i, j) = 0 /\ Sum(j, i) = 0
                             /\ Sum(i, i) >= 0
    BY <1>6, CrossSumType
  <2>2. (AlongX(g) => Flat(1)) /\ (AlongY(g) => Flat(2))
    BY <1>7
  <2> HIDE DEF Flat, Sum
  <2>3. 1 \in 1 .. 3 /\ 2 \in 1 .. 3
    OBVIOUS
  <2>4. /\ AlongX(g) => Sum(1, 1) = 0 /\ Sum(1, 2) = 0 /\ Sum(2, 1) = 0
        /\ AlongY(g) => Sum(2, 1) = 0 /\ Sum(1, 2) = 0 /\ Sum(2, 2) = 0
        /\ Sum(1, 1) >= 0 /\ Sum(2, 2) >= 0
    BY <2>1, <2>2, <2>3
  <2> QED
    BY <2>4 DEF Sum
<1> DEFINE c == M!Covariance(d)
<1>9. /\ IsMatrix(c, 3, 3)
      /\ M!Entry(c, 0, 0) = CrossSum(d, n, 1, 1) /\ M!Entry(c, 0, 1) = CrossSum(d, n, 1, 2)
      /\ M!Entry(c, 1, 0) = CrossSum(d, n, 2, 1) /\ M!Entry(c, 1, 1) = CrossSum(d, n, 2, 2)
  BY <1>6, CovarianceIs
<1> HIDE DEF c
<1> QED
  BY <1>4, <1>5, <1>8, <1>9 DEF c, at

\* The square root.
LEMMA RootOfSquare ==
    ASSUME NEW s \in Nat
    PROVE  M!Root(s * s) = s
<1> DEFINE n == s * s
<1>1. n \in Nat /\ s <= n
  BY SMT
<1>2. s * s <= n /\ n < (s + 1) * (s + 1)
  OBVIOUS
<1>3. ASSUME NEW r \in 0 .. n, r * r <= n, n < (r + 1) * (r + 1)
      PROVE  r = s
  <2>1. CASE r < s
    <3>1. r + 1 <= s /\ (r + 1) * (r + 1) <= (r + 1) * s /\ (r + 1) * s <= s * s
      BY <2>1, SMT
    <3> QED
      BY <1>1, <1>3, <3>1
  <2>2. CASE s < r
    <3>1. s * s <= s * r /\ s * r + r <= r * r
      <4>1. PICK t \in Nat : r = s + 1 + t
        <5>1. r - s - 1 \in Nat /\ r = s + 1 + (r - s - 1)
          BY <1>1, <2>2
        <5> QED
          BY <5>1
      <4> QED
        BY <4>1, SMT
    <3> QED
      BY <1>1, <1>3, <2>2, <3>1
  <2> QED
    BY <1>1, <2>1, <2>2
<1> HIDE DEF n
<1>4. s \in 0 .. n
  BY <1>1
<1>5. M!Root(n) = s
  BY <1>2, <1>3, <1>4 DEF M!Root
<1> QED
  BY <1>5 DEF n

\* The first eigenvector of a covariance along an axis.
LEMMA FirstVector ==
    ASSUME NEW c, NEW s \in Nat, IsMatrix(c, 2, 2),
           \/ /\ M!Entry(c, 0, 0) = 0 /\ M!Entry(c, 1, 1) = s
           \/ /\ M!Entry(c, 0, 0) = s /\ M!Entry(c, 1, 1) = 0,
           M!Entry(c, 0, 1) = 0, M!Entry(c, 1, 0) = 0
    PROVE  LET e == M!Eigen(c)
               v == e.vectors[1]
           IN  /\ e.values[1] = 2 * s /\ e.values[2] = 0
               /\ s > 0 => /\ IsMatrix(v, 2, 1) /\ M!SquaredNorm(v) > 0
                           /\ M!Entry(c, 0, 0) = 0 => M!Item(v, 0) = 0
                           /\ M!Entry(c, 1, 1) = 0 => M!Item(v, 1) = 0
<1> DEFINE a == M!Entry(c, 0, 0)
           d == M!Entry(c, 1, 1)
           e == M!Eigen(c)
           root == M!Root((a + d) * (a + d) - 4 * (a * d - 0 * 0))
           t == a + d + root
           u == M!Column(<<-2 * 0, 2 * a - t>>)
           v == M!Column(<<2 * d - t, -2 * 0>>)
           w == IF M!SquaredNorm(u) > M!SquaredNorm(v) THEN u ELSE v
<1>1. a \in Int /\ d \in Int /\ a + d = s /\ a * d = 0 /\ ((a = 0 /\ d = s) \/ (a = s /\ d = 0))
  BY DEF IsMatrix, M!Entry, M!Item
<1>2. (a + d) * (a + d) - 4 * (a * d - 0 * 0) = s * s
  BY <1>1
<1>3. root = s
  BY <1>2, RootOfSquare
<1>4. e.values = <<t, a + d - root>> /\ e.vectors[1] = IF root > 0 THEN w ELSE M!Column(<<1, 0>>)
  BY DEF M!Eigen
<1> HIDE DEF root, e, a, d
<1>5. t = 2 * s /\ a + d - root = 0
  BY <1>1, <1>3
<1>6. e.values[1] = 2 * s /\ e.values[2] = 0
  BY <1>4, <1>5
<1>7. ASSUME s > 0
      PROVE  /\ IsMatrix(w, 2, 1) /\ M!SquaredNorm(w) > 0
             /\ a = 0 => M!Item(w, 0) = 0
             /\ d = 0 => M!Item(w, 1) = 0
  <2> DEFINE x == 2 * a - t
             y == 2 * d - t
  <2>1. x \in Int /\ y \in Int
    BY <1>1, <1>5
  <2>2. (a = 0 /\ d = s /\ x = -(2 * s) /\ y = 0) \/ (a = s /\ d = 0 /\ x = 0 /\ y = -(2 * s))
    BY <1>1, <1>5
  <2>3. u = M!Column(<<0, x>>) /\ v = M!Column(<<y, 0>>)
    OBVIOUS
  <2> HIDE DEF t, x, y, u, v
  <2>4. IsColumn(u, 2, <<0, x>>) /\ IsColumn(v, 2, <<y, 0>>)
    BY <2>1, <2>3, Column2Is
  <2>5. /\ IsMatrix(u, 2, 1) /\ M!Item(u, 0) = 0 /\ M!Item(u, 1) = x
        /\ IsMatrix(v, 2, 1) /\ M!Item(v, 0) = y /\ M!Item(v, 1) = 0
    <3>1. \A k \in 0 .. 2 - 1 : M!Item(u, k) = <<0, x>>[k + 1] /\ M!Item(v, k) = <<y, 0>>[k + 1]
      BY <2>4 DEF IsColumn
    <3> QED
      BY <2>4, <3>1 DEF IsColumn
  <2>6. M!SquaredNorm(u) = 0 * 0 + x * x /\ M!SquaredNorm(v) = y * y + 0 * 0
    BY <2>5, Dot2Is DEF M!SquaredNorm
  <2>7. 4 * (s * s) > 0 /\ (-(2 * s)) * (-(2 * s)) = 4 * (s * s)
    BY <1>7, SMT
  <2>8. CASE a = 0 /\ d = s /\ x = -(2 * s) /\ y = 0
    <3>1. M!SquaredNorm(u) = 4 * (s * s) /\ M!SquaredNorm(v) = 0
      BY <2>6, <2>7, <2>8
    <3>2. w = u
      BY <2>7, <3>1
    <3> QED
      BY <1>7, <2>5, <2>7, <2>8, <3>1, <3>2
  <2>9. CASE a = s /\ d = 0 /\ x = 0 /\ y = -(2 * s)
    <3>1. M!SquaredNorm(u) = 0 /\ M!SquaredNorm(v) = 4 * (s * s)
      BY <2>6, <2>7, <2>9
    <3>2. w = v
      BY <2>7, <3>1
    <3> QED
      BY <1>7, <2>5, <2>7, <2>9, <3>1, <3>2
  <2> QED
    BY <2>2, <2>8, <2>9
<1> HIDE DEF w
<1>8. s > 0 => e.vectors[1] = w
  BY <1>3, <1>4
<1> QED
  BY <1>6, <1>7, <1>8 DEF a, d, e

Direction(vectors) == IsMatrix(vectors[1], 2, 1) /\ M!SquaredNorm(vectors[1]) > 0

Kept(xy, vectors, pose) ==
    \A k \in 0 .. 1 : /\ M!Item(xy, k) \in Int
                      /\ M!Item(vectors[1], k) = 0 => M!Item(xy, k) = M!Item(pose, k)

\* Back on the line, a coordinate stays that the line does not change.
LEMMA OnLineKeeps ==
    ASSUME NEW vectors, NEW predicted, NEW best,
           Direction(vectors), IsMatrix(predicted, 3, 1), IsMatrix(best, 3, 1)
    PROVE  Kept(M!OnLine(predicted, best, vectors), vectors, predicted)
<1> DEFINE v == vectors[1]
           a == M!Get(best, 2, 1, 0, 0)
           b == M!Get(predicted, 2, 1, 0, 0)
           along == M!Dot(v, M!Minus(a, b))
           norm == M!SquaredNorm(v)
           list == [l \in 1 .. 2 |-> predicted.data[l] + (along * v.data[l]) \div norm]
<1>1. IsMatrix(a, 2, 1) /\ IsMatrix(b, 2, 1)
  BY PositionIs
<1>11. IsMatrix(v, 2, 1) /\ norm > 0
  BY DEF Direction
<1> HIDE DEF a, b
<1>2. along \in Int
  BY <1>1, <1>11, DifferenceIs, Dot2Is
<1>3. norm \in Int /\ norm > 0
  BY <1>11, Dot2Is DEF M!SquaredNorm
<1>4. v.data \in [1 .. 2 -> Int] /\ predicted.data \in [1 .. 3 -> Int]
  BY <1>11 DEF IsMatrix
<1>5. M!OnLine(predicted, best, vectors) = M!Column(list)
  BY DEF M!OnLine, a, b
<1> HIDE DEF along, norm
<1>7. ASSUME NEW l \in 1 .. 2 PROVE list[l] \in Int
  <2>1. along * v.data[l] \in Int /\ predicted.data[l] \in Int
    BY <1>2, <1>4
  <2> DEFINE m == along * v.data[l]
  <2> HIDE DEF m
  <2>2. m \div norm \in Int
    BY <1>3, <2>1 DEF m
  <2> QED
    BY <2>1, <2>2 DEF m
<1>8. ASSUME NEW k \in 0 .. 1, M!Item(v, k) = 0
      PROVE  list[k + 1] = M!Item(predicted, k)
  <2>1. along * v.data[k + 1] = 0 /\ k + 1 \in 1 .. 2 /\ predicted.data[k + 1] \in Int
    BY <1>2, <1>4, <1>8 DEF M!Item
  <2>2. 0 \div norm = 0
    BY <1>3
  <2>3. list[k + 1] = predicted.data[k + 1] + 0
    BY <2>1, <2>2
  <2> QED
    BY <2>1, <2>3 DEF M!Item
<1>9. Listed(list, 2)
  <2>1. Len(list) = 2
    <3>1. list \in [1 .. 2 -> Int]
      BY <1>7
    <3>2. list \in Seq(Int)
      BY <3>1
    <3> QED
      BY <3>1, <3>2
  <2> QED
    BY <1>7, <2>1 DEF Listed
<1> HIDE DEF list
<1>10. ASSUME NEW k \in 0 .. 1 PROVE M!Item(M!Column(list), k) = list[k + 1] /\ list[k + 1] \in Int
  <2>1. k \in 0 .. 2 - 1
    OBVIOUS
  <2> QED
    BY <1>9, <2>1, ColumnIs DEF IsColumn
<1> QED
  BY <1>5, <1>8, <1>10 DEF Kept

\* What is used of a match, when its covariance is along an axis.
LEMMA UsedKeeps ==
    ASSUME NEW cov, NEW c, NEW s \in Nat, NEW n \in Nat \ {0}, NEW score, NEW predicted, NEW best,
           IsMatrix(c, 2, 2), IsMatrix(predicted, 3, 1), IsMatrix(best, 3, 1),
           \/ /\ M!Entry(c, 0, 0) = 0 /\ M!Entry(c, 1, 1) = s
           \/ /\ M!Entry(c, 0, 0) = s /\ M!Entry(c, 1, 1) = 0,
           M!Entry(c, 0, 1) = 0, M!Entry(c, 1, 0) = 0
    PROVE  LET used == M!Used(cov, M!Eigen(c), n, predicted, best, score)
           IN  /\ M!Entry(c, 0, 0) = 0 => M!Item(used, 0) = M!Item(predicted, 0)
               /\ M!Entry(c, 1, 1) = 0 => M!Item(used, 1) = M!Item(predicted, 1)
<1> DEFINE e == M!Eigen(c)
           a == M!Entry(c, 0, 0)
           d == M!Entry(c, 1, 1)
           mode == M!Mode(score, cov, e, n)
           used == M!Used(cov, e, n, predicted, best, score)
           back == M!OnLine(predicted, best, e.vectors)
           yaw == IF mode < 2 THEN M!Item(predicted, 2) ELSE M!Item(best, 2)
           limit == 2 * n * ConstrainThreshold * ConstrainThreshold
<1>1. e.values[1] = 2 * s /\ e.values[2] = 0
  BY FirstVector
<1>2. s > 0 => /\ IsMatrix(e.vectors[1], 2, 1) /\ M!SquaredNorm(e.vectors[1]) > 0
               /\ a = 0 => M!Item(e.vectors[1], 0) = 0
               /\ d = 0 => M!Item(e.vectors[1], 1) = 0
  BY FirstVector
<1> HIDE DEF e, a, d
<1>3. limit \in Nat
  BY MatchAssumption, SMT
<1>4. mode \in 0 .. 2 /\ (mode # 0 => s > 0)
  <2>1. ~(e.values[2] > limit) /\ (~(e.values[1] <= limit) => s > 0)
    <3> HIDE DEF limit
    <3> QED
      BY <1>1, <1>3
  <2> QED
    BY <2>1 DEF M!Mode
<1>5. used = IF mode = 0 THEN predicted ELSE M!Column(<<M!Item(back, 0), M!Item(back, 1), yaw>>)
  BY <1>4 DEF M!Used
<1> HIDE DEF mode, used, back, limit
<1>6. CASE mode = 0
  BY <1>5, <1>6 DEF used, e, a, d
<1>7. CASE mode # 0
  <2>1. Kept(back, e.vectors, predicted)
    <3> DEFINE vectors == e.vectors
    <3>1. Direction(vectors)
      BY <1>2, <1>4, <1>7 DEF Direction
    <3> HIDE DEF vectors
    <3>2. Kept(M!OnLine(predicted, best, vectors), vectors, predicted)
      BY <3>1, OnLineKeeps
    <3> QED
      BY <3>2 DEF vectors, back
  <2>2. /\ M!Item(back, 0) \in Int /\ M!Item(back, 1) \in Int
        /\ a = 0 => M!Item(back, 0) = M!Item(predicted, 0)
        /\ d = 0 => M!Item(back, 1) = M!Item(predicted, 1)
    <3>1. 0 \in 0 .. 1 /\ 1 \in 0 .. 1
      OBVIOUS
    <3>2. (a = 0 => M!Item(e.vectors[1], 0) = 0) /\ (d = 0 => M!Item(e.vectors[1], 1) = 0)
      BY <1>2, <1>4, <1>7
    <3>3. M!Item(back, 0) \in Int /\ M!Item(back, 1) \in Int
      BY <2>1, <3>1 DEF Kept
    <3>4. M!Item(e.vectors[1], 0) = 0 => M!Item(back, 0) = M!Item(predicted, 0)
      BY <2>1, <3>1 DEF Kept
    <3>5. M!Item(e.vectors[1], 1) = 0 => M!Item(back, 1) = M!Item(predicted, 1)
      BY <2>1, <3>1 DEF Kept
    <3> QED
      BY <3>2, <3>3, <3>4, <3>5
  <2>3. yaw \in Int
    <3>1. 2 \in 0 .. 3 - 1
      OBVIOUS
    <3> QED
      BY <3>1, ItemIs
  <2> HIDE DEF yaw
  <2>4. M!Item(used, 0) = M!Item(back, 0) /\ M!Item(used, 1) = M!Item(back, 1)
    BY <1>5, <1>7, <2>2, <2>3, Items3
  <2> QED
    BY <2>2, <2>4 DEF used, e, a, d
<1> QED
  BY <1>6, <1>7

\* On a tile that does not change in one direction no match moves the robot in
\* that direction, for every scan and sample, on the tile just cut and on the tile
\* halved and smoothed (neo_localization_node.cpp:384-428).
THEOREM CorridorKeepsAxisHolds == Spec => [](CorridorKeepsAxis /\ KeepsAxis)
<1>1. IsGrid(map) => KeepsAxis
  <2> SUFFICES ASSUME IsGrid(map), NEW pose \in MatchPoses, NEW best \in MatchPoses, NEW scan \in Scans
               PROVE  LET matched == M!Matched(map, scan, Column3(pose), Column3(best),
                                               M!SquaredScore(map, scan, Column3(best)))
                      IN  /\ AlongX(map) => M!Item(matched, 0) = pose[1]
                          /\ AlongY(map) => M!Item(matched, 1) = pose[2]
    BY DEF KeepsAxis, AlongX, AlongY
  <2> DEFINE x == best[1]  y == best[2]  w == best[3]
             n == Len(scan)
             at == M!Column(<<x, y, w>>)
             from == M!Column(<<pose[1], pose[2], pose[3]>>)
             score == M!SquaredScore(map, scan, at)
             cov == M!VirtualScanCovariance(map, scan, at)
             c == M!Get(cov, 2, 2, 0, 0)
             matched == M!Used(cov, M!Eigen(c), n, from, at, score)
  <2>1. x \in Int /\ y \in Int /\ w \in Int /\ Column3(best) = at
    BY MatchPoseIs DEF Column3
  <2>2. pose[1] \in Int /\ pose[2] \in Int /\ pose[3] \in Int /\ Column3(pose) = from
    BY MatchPoseIs DEF Column3
  <2>3. Scanned(scan, n) /\ n \in Nat \ {0}
    BY ScanIs DEF Scanned
  <2>4. M!Matched(map, scan, Column3(pose), Column3(best), M!SquaredScore(map, scan, Column3(best))) = matched
    BY <2>1, <2>2 DEF M!Matched
  <2> HIDE DEF x, y, w, n, score
  <2>5. /\ IsMatrix(cov, 3, 3)
        /\ M!Entry(cov, 0, 0) >= 0 /\ M!Entry(cov, 1, 1) >= 0
        /\ AlongX(map) => M!Entry(cov, 0, 0) = 0 /\ M!Entry(cov, 0, 1) = 0 /\ M!Entry(cov, 1, 0) = 0
        /\ AlongY(map) => M!Entry(cov, 0, 1) = 0 /\ M!Entry(cov, 1, 0) = 0 /\ M!Entry(cov, 1, 1) = 0
    BY <2>1, <2>3, ScanCurved
  <2>6. IsMatrix(at, 3, 1) /\ IsMatrix(from, 3, 1)
    BY <2>1, <2>2, Column3Is DEF IsColumn
  <2>7. M!Item(from, 0) = pose[1] /\ M!Item(from, 1) = pose[2]
    BY <2>2, Items3
  <2> HIDE DEF at, from, cov
  <2>8. /\ IsMatrix(c, 2, 2)
        /\ M!Entry(c, 0, 0) = M!Entry(cov, 0, 0) /\ M!Entry(c, 0, 1) = M!Entry(cov, 0, 1)
        /\ M!Entry(c, 1, 0) = M!Entry(cov, 1, 0) /\ M!Entry(c, 1, 1) = M!Entry(cov, 1, 1)
    <3>1. PICK b \in 1 .. 3 : b = 2
      OBVIOUS
    <3>2. IsMatrix(M!Get(cov, b, b, 0, 0), b, b)
          /\ \A i \in 0 .. b - 1, j \in 0 .. b - 1 : M!Entry(M!Get(cov, b, b, 0, 0), i, j) = M!Entry(cov, i, j)
      BY <2>5, GetEntries
    <3>3. 0 \in 0 .. b - 1 /\ 1 \in 0 .. b - 1
      BY <3>1
    <3> QED
      BY <3>1, <3>2, <3>3
  <2> HIDE DEF c
  <2>9. M!Entry(cov, 0, 0) \in Nat /\ M!Entry(cov, 1, 1) \in Nat
    <3>1. M!Entry(cov, 0, 0) \in Int /\ M!Entry(cov, 1, 1) \in Int
      BY <2>5, IntEntries3
    <3> QED
      BY <2>5, <3>1
  <2>10. ASSUME AlongX(map) PROVE M!Item(matched, 0) = pose[1]
    <3> DEFINE s == M!Entry(cov, 1, 1)
    <3>1. s \in Nat /\ M!Entry(c, 0, 0) = 0 /\ M!Entry(c, 1, 1) = s /\ M!Entry(c, 0, 1) = 0 /\ M!Entry(c, 1, 0) = 0
      BY <2>5, <2>8, <2>9, <2>10
    <3> HIDE DEF s, matched
    <3>2. M!Item(matched, 0) = M!Item(from, 0)
      BY <2>3, <2>6, <2>8, <3>1, UsedKeeps DEF matched
    <3> QED
      BY <2>7, <3>2
  <2>11. ASSUME AlongY(map) PROVE M!Item(matched, 1) = pose[2]
    <3> DEFINE s == M!Entry(cov, 0, 0)
    <3>1. s \in Nat /\ M!Entry(c, 0, 0) = s /\ M!Entry(c, 1, 1) = 0 /\ M!Entry(c, 0, 1) = 0 /\ M!Entry(c, 1, 0) = 0
      BY <2>5, <2>8, <2>9, <2>11
    <3> HIDE DEF s, matched
    <3>2. M!Item(matched, 1) = M!Item(from, 1)
      BY <2>3, <2>6, <2>8, <3>1, UsedKeeps DEF matched
    <3> QED
      BY <2>7, <3>2
  <2> HIDE DEF matched
  <2> QED
    BY <2>4, <2>10, <2>11
<1>2. KeepsAxis => CorridorKeepsAxis
  BY DEF CorridorKeepsAxis
<1> QED
  BY <1>1, <1>2, TileIsGrid, PTL

-----------------------------------------------------------------------------
(* The filters along a line of pixels and what they do to its moments: a     *)
(* line is a function of all the integers that is zero outside the grid.     *)

Line == [Int -> Int]
LineSum(P, v, n) == SumFunctionOnSet([x \in 0 .. n - 1 |-> P[x] * v[x]], 0 .. n - 1)

LEMMA LineTypes ==
    ASSUME NEW P \in Line, NEW x \in Int
    PROVE  P[x] \in Int
BY DEF Line

LEMMA LineSumType ==
    ASSUME NEW P \in Line, NEW v \in Line, NEW n \in Nat
    PROVE  LineSum(P, v, n) \in Int
<1> DEFINE T == 0 .. n - 1
           f == [x \in T |-> P[x] * v[x]]
<1>1. \A x \in T : f[x] \in Int
  BY LineTypes
<1>2. IsFiniteSet(T)
  BY FS_Interval
<1>3. LineSum(P, v, n) = SumFunctionOnSet(f, T)
  BY DEF LineSum
<1> HIDE DEF T, f
<1> QED
  BY <1>1, <1>2, <1>3, SumType

LEMMA LineSumEmpty ==
    ASSUME NEW P, NEW v PROVE LineSum(P, v, 0) = 0
<1>1. 0 .. 0 - 1 = {}
  OBVIOUS
<1> QED
  BY <1>1, SumEmpty DEF LineSum

LEMMA LineSumAdds ==
    ASSUME NEW P \in Line, NEW v \in Line, NEW n \in Nat
    PROVE  LineSum(P, v, n + 1) = LineSum(P, v, n) + P[n] * v[n]
<1> DEFINE T == 0 .. n
           S == 0 .. n - 1
           f == [x \in T |-> P[x] * v[x]]
           g == [x \in S |-> P[x] * v[x]]
<1>1. \A x \in T : f[x] \in Int
  BY LineTypes
<1>2. f[n] = P[n] * v[n]
  OBVIOUS
<1>3. IsFiniteSet(S) /\ \A x \in S : g[x] \in Int /\ f[x] = g[x]
  <2>1. IsFiniteSet(S)
    BY FS_Interval
  <2>2. \A x \in S : x \in T /\ x \in Int
    OBVIOUS
  <2> HIDE DEF S, T
  <2> QED
    BY <2>1, <2>2, LineTypes
<1>4. LineSum(P, v, n) = SumFunctionOnSet(g, S)
  BY DEF LineSum
<1>5. LineSum(P, v, n + 1) = SumFunctionOnSet(f, T)
  <2> DEFINE k == (n + 1) - 1
  <2>1. k = n
    OBVIOUS
  <2>2. LineSum(P, v, n + 1) = SumFunctionOnSet([x \in 0 .. k |-> P[x] * v[x]], 0 .. k)
    BY DEF LineSum
  <2> HIDE DEF k
  <2> QED
    BY <2>1, <2>2
<1> HIDE DEF f, g
<1>6. SumFunctionOnSet(f, T) = SumFunctionOnSet(f, S) + f[n]
  <2>1. 0 \in Int /\ n \in Int /\ 0 <= n
    OBVIOUS
  <2> QED
    BY <1>1, <2>1, SumAlong
<1>7. SumFunctionOnSet(f, S) = SumFunctionOnSet(g, S)
  <2> HIDE DEF S
  <2> QED
    BY <1>3, SumEqual
<1> QED
  BY <1>2, <1>4, <1>5, <1>6, <1>7

\* A line mixed of four.
Mixes(u, b, a, c, v1, v2, v3, v4) ==
    \A x \in Int : u[x] = b * v1[x] + a * v2[x] + c * v3[x] + b * v4[x]
MixedSums(P, n, u, b, a, c, v1, v2, v3, v4) ==
    LineSum(P, u, n) = b * LineSum(P, v1, n) + a * LineSum(P, v2, n)
                         + c * LineSum(P, v3, n) + b * LineSum(P, v4, n)
LEMMA LineMixed ==
    ASSUME NEW P \in Line, NEW b \in Int, NEW a \in Int, NEW c \in Int, NEW n \in Nat, NEW u \in Line,
           NEW v1 \in Line, NEW v2 \in Line, NEW v3 \in Line, NEW v4 \in Line,
           Mixes(u, b, a, c, v1, v2, v3, v4)
    PROVE  MixedSums(P, n, u, b, a, c, v1, v2, v3, v4)
<1> USE DEF MixedSums
<1> DEFINE MixedTo(m) == MixedSums(P, m, u, b, a, c, v1, v2, v3, v4)
           S == {m \in Nat : MixedTo(m)}
<1>1. 0 \in S
  BY LineSumEmpty
<1>2. ASSUME NEW m \in Nat, m \in S PROVE m + 1 \in S
  <2> DEFINE s == LineSum(P, u, m)   s1 == LineSum(P, v1, m)  s2 == LineSum(P, v2, m)
             s3 == LineSum(P, v3, m)  s4 == LineSum(P, v4, m)
             p == P[m]  x1 == v1[m]  x2 == v2[m]  x3 == v3[m]  x4 == v4[m]
  <2>1. /\ s \in Int /\ s1 \in Int /\ s2 \in Int /\ s3 \in Int /\ s4 \in Int
        /\ p \in Int /\ x1 \in Int /\ x2 \in Int /\ x3 \in Int /\ x4 \in Int
    BY LineSumType, LineTypes
  <2>2. s = b * s1 + a * s2 + c * s3 + b * s4
    BY <1>2
  <2>3. /\ LineSum(P, u, m + 1) = s + p * (b * x1 + a * x2 + c * x3 + b * x4)
        /\ LineSum(P, v1, m + 1) = s1 + p * x1
        /\ LineSum(P, v2, m + 1) = s2 + p * x2
        /\ LineSum(P, v3, m + 1) = s3 + p * x3
        /\ LineSum(P, v4, m + 1) = s4 + p * x4
    BY LineSumAdds DEF Mixes
  <2> HIDE DEF s, s1, s2, s3, s4, p, x1, x2, x3, x4
  <2>4. s + p * (b * x1 + a * x2 + c * x3 + b * x4)
          = b * (s1 + p * x1) + a * (s2 + p * x2) + c * (s3 + p * x3) + b * (s4 + p * x4)
    BY <2>1, <2>2, SMT
  <2> QED
    BY <2>3, <2>4
<1> HIDE DEF S
<1>3. n \in S
  BY <1>1, <1>2, UpTo
<1> QED
  BY <1>3 DEF S

\* A multiple of a line.
LEMMA LineScaled ==
    ASSUME NEW P \in Line, NEW a \in Int, NEW v \in Line, NEW w \in Line, NEW n \in Nat,
           \A x \in 0 .. n - 1 : w[x] = a * v[x]
    PROVE  LineSum(P, w, n) = a * LineSum(P, v, n)
<1> DEFINE T == 0 .. n - 1
           f == [x \in T |-> P[x] * v[x]]
           g == [x \in T |-> P[x] * w[x]]
<1>1. ASSUME NEW x \in T PROVE f[x] \in Int /\ g[x] = a * f[x]
  <2> DEFINE p == P[x]  q == v[x]  r == w[x]
  <2>1. p \in Int /\ q \in Int /\ r = a * q
    BY LineTypes
  <2>2. f[x] = p * q /\ g[x] = p * r
    OBVIOUS
  <2> HIDE DEF p, q, r, f, g
  <2>3. p * q \in Int /\ p * r = a * (p * q)
    BY <2>1, SMT
  <2> QED
    BY <2>2, <2>3
<1>2. IsFiniteSet(T)
  BY FS_Interval
<1>3. LineSum(P, v, n) = SumFunctionOnSet(f, T) /\ LineSum(P, w, n) = SumFunctionOnSet(g, T)
  BY DEF LineSum
<1> HIDE DEF T, f, g
<1>4. SumFunctionOnSet(g, T) = a * SumFunctionOnSet(f, T)
  BY <1>1, <1>2, SumScaled
<1> QED
  BY <1>3, <1>4

\* A line that is zero but for r pixels off the ends of its n.
Margin(v, n, r) == \A x \in Int : v[x] # 0 => x \in r .. n - 1 - r

\* The filters of one line: Smooth33 and Downscale, each way.
SmoothLine(v) == [x \in Int |-> 2 * v[x - 1] + 3 * v[x] + 2 * v[x + 1]]
HalfLine(v) == [x \in Int |-> 7 * v[2 * x - 1] + 19 * v[2 * x] + 19 * v[2 * x + 1] + 7 * v[2 * x + 2]]

\* Weights of pixels that smoothing respects: of a pixel and its neighbours.
Even(P) == P \in Line /\ \A x \in Int : 7 * P[x] = 2 * P[x - 1] + 3 * P[x] + 2 * P[x + 1]
\* The weights pixels have by those of the halves they go into.
Halves(P, H) ==
    /\ P \in Line /\ H \in Line
    /\ \A x \in Int : /\ P[2 * x] = 19 * H[x] + 7 * H[x - 1]
                      /\ P[2 * x + 1] = 19 * H[x] + 7 * H[x + 1]

LEMMA SmoothLineIs == ASSUME NEW v \in Line PROVE SmoothLine(v) \in Line
BY DEF Line, SmoothLine
LEMMA HalfLineIs == ASSUME NEW v \in Line PROVE HalfLine(v) \in Line
BY DEF Line, HalfLine

\* Smoothing a line keeps its moments, seven times as large, but for what it
\* moves over the ends.
LEMMA SmoothLineSum ==
    ASSUME NEW v \in Line, NEW P, Even(P), NEW n \in Nat, Margin(v, n, 1)
    PROVE  LineSum(P, SmoothLine(v), n) = 7 * LineSum(P, v, n)
<1>0. P \in Line /\ SmoothLine(v) \in Line
  BY SmoothLineIs DEF Even
<1> DEFINE Conserved(m) == LineSum(P, SmoothLine(v), m)
                        = 7 * LineSum(P, v, m) - 2 * (P[m] * v[m - 1]) + 2 * (P[m - 1] * v[m])
           S == {m \in Nat : Conserved(m)}
<1>1. 0 \in S
  <2>1. v[0] = 0 /\ v[0 - 1] = 0 /\ P[0] \in Int /\ P[0 - 1] \in Int
    BY <1>0, LineTypes DEF Margin
  <2> QED
    BY <2>1, LineSumEmpty
<1>2. ASSUME NEW m \in Nat, m \in S PROVE m + 1 \in S
  <2> DEFINE s == LineSum(P, SmoothLine(v), m)  t == LineSum(P, v, m)
             p0 == P[m - 1]  p1 == P[m]  p2 == P[m + 1]
             x0 == v[m - 1]  x1 == v[m]  x2 == v[m + 1]
  <2>1. /\ s \in Int /\ t \in Int /\ p0 \in Int /\ p1 \in Int /\ p2 \in Int
        /\ x0 \in Int /\ x1 \in Int /\ x2 \in Int
    BY <1>0, LineSumType, LineTypes
  <2>2. s = 7 * t - 2 * (p1 * x0) + 2 * (p0 * x1)
    BY <1>2
  <2>3. LineSum(P, SmoothLine(v), m + 1) = s + p1 * (2 * x0 + 3 * x1 + 2 * x2)
    <3>1. SmoothLine(v)[m] = 2 * x0 + 3 * x1 + 2 * x2
      BY DEF SmoothLine
    <3> HIDE DEF s, x0, x1, x2
    <3> QED
      BY <1>0, <3>1, LineSumAdds DEF s
  <2>4. LineSum(P, v, m + 1) = t + p1 * x1
    BY <1>0, LineSumAdds
  <2>5. 7 * p1 = 2 * p0 + 3 * p1 + 2 * p2
    BY DEF Even
  <2>6. (m + 1) - 1 = m
    OBVIOUS
  <2> HIDE DEF s, t, p0, p1, p2, x0, x1, x2
  <2>7. s + p1 * (2 * x0 + 3 * x1 + 2 * x2) = 7 * (t + p1 * x1) - 2 * (p2 * x1) + 2 * (p1 * x2)
    <3>1. p2 = 2 * p1 - p0
      BY <2>1, <2>5
    <3> QED
      BY <2>1, <2>2, <3>1, SMT
  <2>8. LineSum(P, SmoothLine(v), m + 1) = 7 * LineSum(P, v, m + 1) - 2 * (p2 * x1) + 2 * (p1 * x2)
    BY <2>3, <2>4, <2>7
  <2> QED
    BY <2>6, <2>8 DEF p1, p2, x1, x2
<1> HIDE DEF S
<1>3. n \in S
  BY <1>1, <1>2, UpTo
<1>4. Conserved(n)
  BY <1>3 DEF S
<1>5. v[n] = 0 /\ v[n - 1] = 0 /\ P[n] \in Int /\ P[n - 1] \in Int
  BY <1>0, LineTypes DEF Margin
<1>6. LineSum(P, v, n) \in Int
  BY <1>0, LineSumType
<1> QED
  BY <1>4, <1>5, <1>6

\* Halving it gives its moments with the weights of its pixels.
LEMMA HalfLineSum ==
    ASSUME NEW v \in Line, NEW P, NEW H, Halves(P, H), NEW n \in Nat, Margin(v, n, 2)
    PROVE  LineSum(H, HalfLine(v), n \div 2) = LineSum(P, v, n)
<1>0. P \in Line /\ H \in Line /\ HalfLine(v) \in Line
  BY HalfLineIs DEF Halves
<1> DEFINE Conserved(m) == LineSum(H, HalfLine(v), m)
                        = LineSum(P, v, 2 * m) - 7 * (H[m] * v[2 * m - 1]) + 7 * (H[m - 1] * v[2 * m])
           S == {m \in Nat : Conserved(m)}
<1>1. 0 \in S
  <2>1. v[0] = 0 /\ v[0 - 1] = 0 /\ H[0] \in Int /\ H[0 - 1] \in Int
    BY <1>0, LineTypes DEF Margin
  <2> QED
    BY <2>1, LineSumEmpty
<1>2. ASSUME NEW m \in Nat, m \in S PROVE m + 1 \in S
  <2> DEFINE s == LineSum(H, HalfLine(v), m)  t == LineSum(P, v, 2 * m)
             h0 == H[m - 1]  h1 == H[m]  h2 == H[m + 1]
             p0 == P[2 * m]  p1 == P[2 * m + 1]
             x0 == v[2 * m - 1]  x1 == v[2 * m]  x2 == v[2 * m + 1]  x3 == v[2 * m + 2]
  <2>1. /\ s \in Int /\ t \in Int /\ h0 \in Int /\ h1 \in Int /\ h2 \in Int
        /\ p0 \in Int /\ p1 \in Int /\ x0 \in Int /\ x1 \in Int /\ x2 \in Int /\ x3 \in Int
    BY <1>0, LineSumType, LineTypes
  <2>2. s = t - 7 * (h1 * x0) + 7 * (h0 * x1)
    BY <1>2
  <2>3. LineSum(H, HalfLine(v), m + 1) = s + h1 * (7 * x0 + 19 * x1 + 19 * x2 + 7 * x3)
    <3>1. HalfLine(v)[m] = 7 * x0 + 19 * x1 + 19 * x2 + 7 * x3
      BY DEF HalfLine
    <3> HIDE DEF s, x0, x1, x2, x3
    <3> QED
      BY <1>0, <3>1, LineSumAdds DEF s
  <2>4. LineSum(P, v, 2 * (m + 1)) = t + p0 * x1 + p1 * x2
    <3>1. 2 * (m + 1) = (2 * m + 1) + 1 /\ 2 * m \in Nat /\ 2 * m + 1 \in Nat
      OBVIOUS
    <3>2. LineSum(P, v, 2 * m + 1) = t + p0 * x1
      BY <1>0, <3>1, LineSumAdds
    <3>3. LineSum(P, v, (2 * m + 1) + 1) = LineSum(P, v, 2 * m + 1) + p1 * x2
      BY <1>0, <3>1, LineSumAdds
    <3> HIDE DEF t, p0, p1, x1, x2
    <3> QED
      BY <3>1, <3>2, <3>3
  <2>5. p0 = 19 * h1 + 7 * h0 /\ p1 = 19 * h1 + 7 * h2
    <3>1. \A x \in Int : P[2 * x] = 19 * H[x] + 7 * H[x - 1] /\ P[2 * x + 1] = 19 * H[x] + 7 * H[x + 1]
      BY DEF Halves
    <3>2. m \in Int
      OBVIOUS
    <3> HIDE DEF Halves
    <3> QED
      BY <3>1, <3>2, Zenon
  <2>6. (m + 1) - 1 = m /\ 2 * (m + 1) - 1 = 2 * m + 1 /\ 2 * (m + 1) = 2 * m + 2
    OBVIOUS
  <2> HIDE DEF s, t, h0, h1, h2, p0, p1, x0, x1, x2, x3
  <2>7. s + h1 * (7 * x0 + 19 * x1 + 19 * x2 + 7 * x3)
          = (t + p0 * x1 + p1 * x2) - 7 * (h2 * x2) + 7 * (h1 * x3)
    BY <2>1, <2>2, <2>5, SMT
  <2>8. LineSum(H, HalfLine(v), m + 1)
          = LineSum(P, v, 2 * (m + 1)) - 7 * (h2 * x2) + 7 * (h1 * x3)
    BY <2>3, <2>4, <2>7
  <2> QED
    BY <2>6, <2>8 DEF h1, h2, x2, x3
<1> HIDE DEF S
<1> DEFINE m == n \div 2
<1>3. m \in Nat /\ (n = 2 * m \/ n = 2 * m + 1)
  OBVIOUS
<1>4. Conserved(m)
  <2> HIDE DEF m
  <2>1. m \in S
    BY <1>1, <1>2, <1>3, UpTo
  <2> QED
    BY <2>1 DEF S
<1> HIDE DEF m
<1>5. /\ v[2 * m] = 0 /\ v[2 * m - 1] = 0 /\ H[m] \in Int /\ H[m - 1] \in Int
  BY <1>0, <1>3, LineTypes DEF Margin
<1>6. LineSum(P, v, n) \in Int /\ LineSum(P, v, 2 * m) = LineSum(P, v, n)
  <2>1. 2 * m \in Nat /\ LineSum(P, v, 2 * m) \in Int /\ P[2 * m] \in Int
    BY <1>0, <1>3, LineSumType, LineTypes
  <2>2. LineSum(P, v, 2 * m + 1) = LineSum(P, v, 2 * m) + P[2 * m] * v[2 * m]
    BY <1>0, <2>1, LineSumAdds
  <2>3. LineSum(P, v, 2 * m + 1) = LineSum(P, v, 2 * m)
    BY <1>5, <2>1, <2>2
  <2> QED
    BY <1>3, <2>1, <2>3
<1>7. LineSum(H, HalfLine(v), m) = LineSum(P, v, n)
  BY <1>4, <1>5, <1>6
<1> QED
  BY <1>7 DEF m

-----------------------------------------------------------------------------
(* The filters over a plane of pixels, a line of them for each y.            *)

Plane == [Int -> Line]
RowSumsOf(P, V, w) == [y \in Int |-> LineSum(P, V[y], w)]
PlaneSum(P, Q, V, w, h) == LineSum(Q, RowSumsOf(P, V, w), h)
PlaneMargin(V, w, h, r) ==
    \A y, x \in Int : V[y][x] # 0 => x \in r .. w - 1 - r /\ y \in r .. h - 1 - r

SmoothedRows(V, y) == [x \in Int |-> 2 * V[y - 1][x] + 3 * V[y][x] + 2 * V[y + 1][x]]
HalvedRows(V, y) ==
    [x \in Int |-> 7 * V[2 * y - 1][x] + 19 * V[2 * y][x] + 19 * V[2 * y + 1][x] + 7 * V[2 * y + 2][x]]
SmoothPlane(V) == [y \in Int |-> SmoothLine(SmoothedRows(V, y))]
HalfPlane(V) == [y \in Int |-> HalfLine(HalvedRows(V, y))]

LEMMA PlaneTypes ==
    ASSUME NEW V \in Plane, NEW y \in Int
    PROVE  V[y] \in Line /\ \A x \in Int : V[y][x] \in Int
<1>1. V[y] \in Line
  BY DEF Plane
<1> QED
  BY <1>1, LineTypes

LEMMA SmoothedRowsIs ==
    ASSUME NEW V \in Plane, NEW y \in Int
    PROVE  SmoothedRows(V, y) \in Line
<1>1. \A x \in Int : V[y - 1][x] \in Int /\ V[y][x] \in Int /\ V[y + 1][x] \in Int
  BY PlaneTypes
<1> QED
  BY <1>1 DEF SmoothedRows, Line

LEMMA HalvedRowsIs ==
    ASSUME NEW V \in Plane, NEW y \in Int
    PROVE  HalvedRows(V, y) \in Line
<1>1. \A x \in Int : /\ V[2 * y - 1][x] \in Int /\ V[2 * y][x] \in Int
                     /\ V[2 * y + 1][x] \in Int /\ V[2 * y + 2][x] \in Int
  BY PlaneTypes
<1> QED
  BY <1>1 DEF HalvedRows, Line

LEMMA SmoothPlaneIs == ASSUME NEW V \in Plane PROVE SmoothPlane(V) \in Plane
<1>1. \A y \in Int : SmoothLine(SmoothedRows(V, y)) \in Line
  BY SmoothedRowsIs, SmoothLineIs
<1> QED
  BY <1>1 DEF SmoothPlane, Plane

LEMMA HalfPlaneIs == ASSUME NEW V \in Plane PROVE HalfPlane(V) \in Plane
<1>1. \A y \in Int : HalfLine(HalvedRows(V, y)) \in Line
  BY HalvedRowsIs, HalfLineIs
<1> QED
  BY <1>1 DEF HalfPlane, Plane

LEMMA RowSumsAre ==
    ASSUME NEW V \in Plane, NEW P \in Line, NEW w \in Nat
    PROVE  RowSumsOf(P, V, w) \in Line
<1>1. \A y \in Int : LineSum(P, V[y], w) \in Int
  BY PlaneTypes, LineSumType
<1> QED
  BY <1>1 DEF RowSumsOf, Line

LEMMA LineOfZeros ==
    ASSUME NEW P \in Line, NEW v \in Line, NEW n \in Nat, \A x \in Int : v[x] = 0
    PROVE  LineSum(P, v, n) = 0
<1> DEFINE T == 0 .. n - 1
           f == [x \in T |-> P[x] * v[x]]
<1>1. \A x \in T : f[x] = 0
  BY LineTypes
<1>2. IsFiniteSet(T)
  BY FS_Interval
<1>3. LineSum(P, v, n) = SumFunctionOnSet(f, T)
  BY DEF LineSum
<1> HIDE DEF T, f
<1> QED
  BY <1>1, <1>2, <1>3, SumOfZeros

LEMMA RowSumsMargin ==
    ASSUME NEW V \in Plane, NEW P \in Line, NEW w \in Nat, NEW h \in Nat, NEW r \in Nat,
           PlaneMargin(V, w, h, r)
    PROVE  Margin(RowSumsOf(P, V, w), h, r)
<1> SUFFICES ASSUME NEW y \in Int, RowSumsOf(P, V, w)[y] # 0 PROVE y \in r .. h - 1 - r
  BY DEF Margin
<1>1. LineSum(P, V[y], w) # 0
  BY DEF RowSumsOf
<1>2. ~ \A x \in Int : V[y][x] = 0
  BY <1>1, PlaneTypes, LineOfZeros
<1> QED
  BY <1>2 DEF PlaneMargin

\* Smoothing a plane keeps its moments, 49 times as large, ...
LEMMA SmoothPlaneSum ==
    ASSUME NEW V \in Plane, NEW P, NEW Q, NEW w \in Nat, NEW h \in Nat,
           Even(P), Even(Q), PlaneMargin(V, w, h, 1)
    PROVE  PlaneSum(P, Q, SmoothPlane(V), w, h) = 49 * PlaneSum(P, Q, V, w, h)
<1> DEFINE U == RowSumsOf(P, V, w)
           N == SmoothPlane(V)
           R == RowSumsOf(P, N, w)
<1>0. P \in Line /\ Q \in Line /\ U \in Line /\ N \in Plane /\ R \in Line /\ SmoothLine(U) \in Line
  <2>1. P \in Line /\ Q \in Line
    BY DEF Even
  <2>2. N \in Plane
    BY SmoothPlaneIs
  <2> HIDE DEF N
  <2>3. U \in Line /\ R \in Line
    BY <2>1, <2>2, RowSumsAre
  <2> HIDE DEF U, R
  <2> QED
    BY <2>1, <2>2, <2>3, SmoothLineIs
<1>1. ASSUME NEW y \in Int PROVE R[y] = 7 * SmoothLine(U)[y]
  <2> DEFINE W == SmoothedRows(V, y)
  <2>1. W \in Line /\ Margin(W, w, 1)
    <3>1. W \in Line
      BY SmoothedRowsIs
    <3>2. ASSUME NEW x \in Int, W[x] # 0 PROVE x \in 1 .. w - 1 - 1
      <4>1. W[x] = 2 * V[y - 1][x] + 3 * V[y][x] + 2 * V[y + 1][x]
        BY DEF SmoothedRows
      <4>2. V[y - 1][x] # 0 \/ V[y][x] # 0 \/ V[y + 1][x] # 0
        BY <3>2, <4>1
      <4> QED
        BY <4>2 DEF PlaneMargin
    <3> QED
      BY <3>1, <3>2 DEF Margin
  <2>2. R[y] = LineSum(P, SmoothLine(W), w)
    BY DEF RowSumsOf, SmoothPlane
  <2>3. LineSum(P, W, w) = 2 * U[y - 1] + 3 * U[y] + 2 * U[y + 1]
    <3> DEFINE v1 == V[y - 1]  v2 == V[y]  v4 == V[y + 1]
    <3>1. v1 \in Line /\ v2 \in Line /\ v4 \in Line
      BY PlaneTypes
    <3>2. PICK a \in Int : a = 1
      OBVIOUS
    <3>7. PICK b \in Int : b = 2
      OBVIOUS
    <3>3. Mixes(W, b, a, b, v1, v2, v2, v4)
      <4> SUFFICES ASSUME NEW x \in Int PROVE W[x] = b * v1[x] + a * v2[x] + b * v2[x] + b * v4[x]
        BY DEF Mixes
      <4>1. W[x] = 2 * v1[x] + 3 * v2[x] + 2 * v4[x]
        BY DEF SmoothedRows
      <4>2. v1[x] \in Int /\ v2[x] \in Int /\ v4[x] \in Int
        BY <3>1, LineTypes
      <4> HIDE DEF W, v1, v2, v4
      <4> QED
        BY <3>2, <3>7, <4>1, <4>2
    <3>4. U[y - 1] = LineSum(P, v1, w) /\ U[y] = LineSum(P, v2, w) /\ U[y + 1] = LineSum(P, v4, w)
      BY DEF RowSumsOf
    <3> HIDE DEF W, v1, v2, v4, U
    <3>5. MixedSums(P, w, W, b, a, b, v1, v2, v2, v4)
      <4>1. P \in Line /\ a \in Int /\ b \in Int /\ w \in Nat /\ W \in Line
        BY <1>0, <2>1
      <4> HIDE DEF N, R
      <4> QED
        BY <4>1, <3>1, <3>3, LineMixed
    <3>6. LineSum(P, v1, w) \in Int /\ LineSum(P, v2, w) \in Int /\ LineSum(P, v4, w) \in Int
      BY <1>0, <3>1, LineSumType
    <3> QED
      BY <3>2, <3>4, <3>5, <3>6, <3>7 DEF MixedSums
  <2>4. SmoothLine(U)[y] = 2 * U[y - 1] + 3 * U[y] + 2 * U[y + 1]
    BY DEF SmoothLine
  <2> HIDE DEF W, U, R
  <2>5. LineSum(P, SmoothLine(W), w) = 7 * LineSum(P, W, w)
    BY <2>1, SmoothLineSum
  <2> QED
    BY <2>2, <2>3, <2>4, <2>5
<1>2. Margin(U, h, 1)
  <2>1. 1 \in Nat
    OBVIOUS
  <2> QED
    BY <1>0, <2>1, RowSumsMargin
<1>3. PlaneSum(P, Q, N, w, h) = LineSum(Q, R, h) /\ PlaneSum(P, Q, V, w, h) = LineSum(Q, U, h)
  BY DEF PlaneSum
<1> HIDE DEF U, N, R
<1>4. LineSum(Q, R, h) = 7 * LineSum(Q, SmoothLine(U), h)
  <2>1. PICK a \in Int : a = 7
    OBVIOUS
  <2>2. \A x \in 0 .. h - 1 : R[x] = a * SmoothLine(U)[x]
    BY <1>1, <2>1
  <2>3. LineSum(Q, R, h) = a * LineSum(Q, SmoothLine(U), h)
    BY <1>0, <2>2, LineScaled
  <2> QED
    BY <2>1, <2>3
<1>5. LineSum(Q, SmoothLine(U), h) = 7 * LineSum(Q, U, h)
  BY <1>0, <1>2, SmoothLineSum
<1>6. LineSum(Q, U, h) \in Int
  BY <1>0, LineSumType
<1>7. PlaneSum(P, Q, N, w, h) = 49 * PlaneSum(P, Q, V, w, h)
  BY <1>3, <1>4, <1>5, <1>6
<1> QED
  BY <1>7 DEF N

\* ... and halving it gives them with the weights of its pixels.
LEMMA HalfPlaneSum ==
    ASSUME NEW V \in Plane, NEW P, NEW H, NEW Q, NEW L, NEW w \in Nat, NEW h \in Nat,
           Halves(P, H), Halves(Q, L), PlaneMargin(V, w, h, 2)
    PROVE  PlaneSum(H, L, HalfPlane(V), w \div 2, h \div 2) = PlaneSum(P, Q, V, w, h)
<1> DEFINE U == RowSumsOf(P, V, w)
           N == HalfPlane(V)
           m == w \div 2
           R == RowSumsOf(H, N, m)
<1>0. /\ P \in Line /\ H \in Line /\ Q \in Line /\ L \in Line /\ U \in Line /\ N \in Plane
      /\ R \in Line /\ HalfLine(U) \in Line /\ m \in Nat
  <2>1. P \in Line /\ H \in Line /\ Q \in Line /\ L \in Line /\ m \in Nat
    BY DEF Halves
  <2>2. N \in Plane
    BY HalfPlaneIs
  <2> HIDE DEF N, m
  <2>3. U \in Line /\ R \in Line
    BY <2>1, <2>2, RowSumsAre
  <2> HIDE DEF U, R
  <2> QED
    BY <2>1, <2>2, <2>3, HalfLineIs
<1>1. ASSUME NEW y \in Int PROVE R[y] = HalfLine(U)[y]
  <2> DEFINE W == HalvedRows(V, y)
  <2>1. W \in Line /\ Margin(W, w, 2)
    <3>1. W \in Line
      BY HalvedRowsIs
    <3>2. ASSUME NEW x \in Int, W[x] # 0 PROVE x \in 2 .. w - 1 - 2
      <4>1. W[x] = 7 * V[2 * y - 1][x] + 19 * V[2 * y][x] + 19 * V[2 * y + 1][x] + 7 * V[2 * y + 2][x]
        BY DEF HalvedRows
      <4>2. V[2 * y - 1][x] # 0 \/ V[2 * y][x] # 0 \/ V[2 * y + 1][x] # 0 \/ V[2 * y + 2][x] # 0
        BY <3>2, <4>1
      <4>3. 2 * y - 1 \in Int /\ 2 * y \in Int /\ 2 * y + 1 \in Int /\ 2 * y + 2 \in Int
        OBVIOUS
      <4> QED
        BY <4>2, <4>3 DEF PlaneMargin
    <3> QED
      BY <3>1, <3>2 DEF Margin
  <2>2. R[y] = LineSum(H, HalfLine(W), m)
    BY DEF RowSumsOf, HalfPlane
  <2>3. LineSum(P, W, w) = 7 * U[2 * y - 1] + 19 * U[2 * y] + 19 * U[2 * y + 1] + 7 * U[2 * y + 2]
    <3> DEFINE v1 == V[2 * y - 1]  v2 == V[2 * y]  v3 == V[2 * y + 1]  v4 == V[2 * y + 2]
    <3>1. v1 \in Line /\ v2 \in Line /\ v3 \in Line /\ v4 \in Line
      BY PlaneTypes
    <3>2. PICK a \in Int : a = 19
      OBVIOUS
    <3>7. PICK b \in Int : b = 7
      OBVIOUS
    <3>3. Mixes(W, b, a, a, v1, v2, v3, v4)
      <4> SUFFICES ASSUME NEW x \in Int PROVE W[x] = b * v1[x] + a * v2[x] + a * v3[x] + b * v4[x]
        BY DEF Mixes
      <4>1. W[x] = 7 * v1[x] + 19 * v2[x] + 19 * v3[x] + 7 * v4[x]
        BY DEF HalvedRows
      <4> HIDE DEF W, v1, v2, v3, v4
      <4> QED
        BY <3>2, <3>7, <4>1
    <3>4. /\ U[2 * y - 1] = LineSum(P, v1, w) /\ U[2 * y] = LineSum(P, v2, w)
          /\ U[2 * y + 1] = LineSum(P, v3, w) /\ U[2 * y + 2] = LineSum(P, v4, w)
      BY DEF RowSumsOf
    <3> HIDE DEF W, v1, v2, v3, v4, U
    <3>5. MixedSums(P, w, W, b, a, a, v1, v2, v3, v4)
      <4>1. P \in Line /\ a \in Int /\ b \in Int /\ w \in Nat /\ W \in Line
        BY <1>0, <2>1
      <4> HIDE DEF N, R
      <4> QED
        BY <4>1, <3>1, <3>3, LineMixed
    <3> QED
      BY <3>2, <3>4, <3>5, <3>7 DEF MixedSums
  <2>4. HalfLine(U)[y] = 7 * U[2 * y - 1] + 19 * U[2 * y] + 19 * U[2 * y + 1] + 7 * U[2 * y + 2]
    BY DEF HalfLine
  <2>5. LineSum(H, HalfLine(W), m) = LineSum(P, W, w)
    <3> HIDE DEF W
    <3> QED
      BY <2>1, HalfLineSum
  <2> HIDE DEF W, U, R, m
  <2> QED
    BY <2>2, <2>3, <2>4, <2>5
<1>2. Margin(U, h, 2)
  <2>1. 2 \in Nat
    OBVIOUS
  <2> QED
    BY <1>0, <2>1, RowSumsMargin
<1>3. /\ PlaneSum(H, L, N, m, h \div 2) = LineSum(L, R, h \div 2)
      /\ PlaneSum(P, Q, V, w, h) = LineSum(Q, U, h)
  BY DEF PlaneSum
<1>4. h \div 2 \in Nat
  OBVIOUS
<1> HIDE DEF U, N, R, m
<1>5. LineSum(L, R, h \div 2) = LineSum(L, HalfLine(U), h \div 2)
  <2> DEFINE k == h \div 2
  <2>1. PICK a \in Int : a = 1
    OBVIOUS
  <2>2. k \in Nat
    BY <1>4
  <2> HIDE DEF k
  <2>3. \A x \in 0 .. k - 1 : R[x] = a * HalfLine(U)[x]
    <3>1. \A x \in 0 .. k - 1 : HalfLine(U)[x] \in Int
      BY <1>0, LineTypes
    <3> QED
      BY <1>1, <2>1, <2>2, <3>1
  <2> DEFINE v == HalfLine(U)
  <2>4. L \in Line /\ R \in Line /\ v \in Line /\ \A x \in 0 .. k - 1 : R[x] = a * v[x]
    BY <1>0, <2>3
  <2> HIDE DEF v
  <2>5. LineSum(L, R, k) = a * LineSum(L, v, k)
    BY <2>2, <2>4, LineScaled
  <2>6. LineSum(L, v, k) \in Int
    BY <2>2, <2>4, LineSumType
  <2>7. LineSum(L, R, k) = LineSum(L, v, k)
    BY <2>1, <2>5, <2>6
  <2> QED
    BY <2>7 DEF k, v
<1>6. LineSum(L, HalfLine(U), h \div 2) = LineSum(Q, U, h)
  BY <1>0, <1>2, HalfLineSum
<1>7. LineSum(Q, U, h) \in Int
  BY <1>0, LineSumType
<1>8. PlaneSum(H, L, N, m, h \div 2) = PlaneSum(P, Q, V, w, h)
  BY <1>3, <1>5, <1>6, <1>7
<1> QED
  BY <1>8 DEF N, m

\* What they leave free of the border.
LEMMA SmoothPlaneMargin ==
    ASSUME NEW V \in Plane, NEW w \in Nat, NEW h \in Nat, NEW r \in Nat \ {0},
           PlaneMargin(V, w, h, r)
    PROVE  PlaneMargin(SmoothPlane(V), w, h, r - 1)
<1> SUFFICES ASSUME NEW y \in Int, NEW x \in Int, SmoothPlane(V)[y][x] # 0
             PROVE  x \in r - 1 .. w - 1 - (r - 1) /\ y \in r - 1 .. h - 1 - (r - 1)
  BY DEF PlaneMargin
<1> DEFINE W == SmoothedRows(V, y)
<1>1. 2 * W[x - 1] + 3 * W[x] + 2 * W[x + 1] # 0
  BY DEF SmoothPlane, SmoothLine
<1>2. ASSUME NEW z \in Int, W[z] # 0
      PROVE  z \in r .. w - 1 - r /\ y \in r - 1 .. h - 1 - (r - 1)
  <2>1. W[z] = 2 * V[y - 1][z] + 3 * V[y][z] + 2 * V[y + 1][z]
    BY DEF SmoothedRows
  <2>2. V[y - 1][z] # 0 \/ V[y][z] # 0 \/ V[y + 1][z] # 0
    BY <1>2, <2>1
  <2>3. /\ z \in r .. w - 1 - r
        /\ y - 1 \in r .. h - 1 - r \/ y \in r .. h - 1 - r \/ y + 1 \in r .. h - 1 - r
    BY <2>2 DEF PlaneMargin
  <2> QED
    BY <2>3
<1> HIDE DEF W
<1>3. W[x - 1] # 0 \/ W[x] # 0 \/ W[x + 1] # 0
  BY <1>1
<1>4. /\ x - 1 \in r .. w - 1 - r \/ x \in r .. w - 1 - r \/ x + 1 \in r .. w - 1 - r
      /\ y \in r - 1 .. h - 1 - (r - 1)
  BY <1>2, <1>3
<1> QED
  BY <1>4

LEMMA HalfPlaneMargin ==
    ASSUME NEW V \in Plane, NEW w \in Nat, NEW h \in Nat, NEW r \in Nat \ {0},
           PlaneMargin(V, w, h, 2 * r)
    PROVE  PlaneMargin(HalfPlane(V), w \div 2, h \div 2, r - 1)
<1> SUFFICES ASSUME NEW y \in Int, NEW x \in Int, HalfPlane(V)[y][x] # 0
             PROVE  /\ x \in r - 1 .. w \div 2 - 1 - (r - 1)
                    /\ y \in r - 1 .. h \div 2 - 1 - (r - 1)
  BY DEF PlaneMargin
<1> DEFINE W == HalvedRows(V, y)
<1>1. 7 * W[2 * x - 1] + 19 * W[2 * x] + 19 * W[2 * x + 1] + 7 * W[2 * x + 2] # 0
  BY DEF HalfPlane, HalfLine
<1>2. ASSUME NEW z \in Int, W[z] # 0
      PROVE  /\ z \in 2 * r .. w - 1 - 2 * r
             /\ 2 * y + 2 >= 2 * r /\ 2 * y - 1 <= h - 1 - 2 * r
  <2>1. W[z] = 7 * V[2 * y - 1][z] + 19 * V[2 * y][z] + 19 * V[2 * y + 1][z] + 7 * V[2 * y + 2][z]
    BY DEF HalvedRows
  <2>2. V[2 * y - 1][z] # 0 \/ V[2 * y][z] # 0 \/ V[2 * y + 1][z] # 0 \/ V[2 * y + 2][z] # 0
    BY <1>2, <2>1
  <2>3. 2 * y - 1 \in Int /\ 2 * y \in Int /\ 2 * y + 1 \in Int /\ 2 * y + 2 \in Int
    OBVIOUS
  <2>4. z \in 2 * r .. w - 1 - 2 * r
    BY <2>2, <2>3 DEF PlaneMargin
  <2>5. \/ 2 * y - 1 \in 2 * r .. h - 1 - 2 * r \/ 2 * y \in 2 * r .. h - 1 - 2 * r
        \/ 2 * y + 1 \in 2 * r .. h - 1 - 2 * r \/ 2 * y + 2 \in 2 * r .. h - 1 - 2 * r
    BY <2>2, <2>3 DEF PlaneMargin
  <2> QED
    BY <2>4, <2>5
<1> HIDE DEF W
<1>3. W[2 * x - 1] # 0 \/ W[2 * x] # 0 \/ W[2 * x + 1] # 0 \/ W[2 * x + 2] # 0
  BY <1>1
<1>4. 2 * x + 2 >= 2 * r /\ 2 * x - 1 <= w - 1 - 2 * r
  BY <1>2, <1>3
<1>5. 2 * y + 2 >= 2 * r /\ 2 * y - 1 <= h - 1 - 2 * r
  BY <1>2, <1>3
<1>6. x \in r - 1 .. w \div 2 - 1 - (r - 1)
  BY <1>4
<1>7. y \in r - 1 .. h \div 2 - 1 - (r - 1)
  BY <1>5
<1> QED
  BY <1>6, <1>7

-----------------------------------------------------------------------------
(* The plane of a grid, and the filters of a grid as those of its plane.     *)

OnGrid(g, x, y) == x \in 0 .. g.size_x - 1 /\ y \in 0 .. g.size_y - 1
PlaneOf(g) == [y \in Int |-> [x \in Int |-> IF OnGrid(g, x, y) THEN At(g, x, y) ELSE 0]]
Within(g, r) == PlaneMargin(PlaneOf(g), g.size_x, g.size_y, r)

LEMMA PlaneOfIs == ASSUME NEW g, IsGrid(g) PROVE PlaneOf(g) \in Plane
<1>1. \A x, y \in Int : (IF OnGrid(g, x, y) THEN At(g, x, y) ELSE 0) \in Int
  BY AtInside DEF OnGrid
<1> QED
  BY <1>1 DEF PlaneOf, Plane, Line

LEMMA PlaneAt ==
    ASSUME NEW g, NEW x \in Int, NEW y \in Int
    PROVE  PlaneOf(g)[y][x] = IF OnGrid(g, x, y) THEN At(g, x, y) ELSE 0
BY DEF PlaneOf

\* Where the border is empty, repeating it makes no difference.
LEMMA ValueOnPlane ==
    ASSUME NEW g, IsGrid(g), Within(g, 1), NEW x \in Int, NEW y \in Int
    PROVE  Value(g, x, y) = PlaneOf(g)[y][x]
<1> DEFINE w == g.size_x   h == g.size_y   V == PlaneOf(g)
           a == Clamp(x, w)   b == Clamp(y, h)
<1>1. w \in Nat \ {0} /\ h \in Nat \ {0}
  BY GridTypes
<1>2. /\ a \in 0 .. w - 1 /\ b \in 0 .. h - 1
      /\ x \in 0 .. w - 1 => a = x
      /\ y \in 0 .. h - 1 => b = y
      /\ x \notin 0 .. w - 1 => a \in {0, w - 1}
      /\ y \notin 0 .. h - 1 => b \in {0, h - 1}
  <2> HIDE DEF w, h
  <2> QED
    BY <1>1 DEF Clamp
<1>3. V[b][a] = Value(g, x, y)
  <2>1. a \in Int /\ b \in Int /\ OnGrid(g, a, b)
    BY <1>1, <1>2 DEF OnGrid
  <2>2. Value(g, x, y) = At(g, a, b)
    BY DEF Value
  <2> HIDE DEF a, b, w, h, V
  <2>3. PlaneOf(g)[b][a] = At(g, a, b)
    BY <2>1, PlaneAt
  <2> QED
    BY <2>2, <2>3 DEF V
<1>4. CASE OnGrid(g, x, y)
  BY <1>2, <1>3, <1>4 DEF OnGrid
<1>5. CASE ~ OnGrid(g, x, y)
  <2>1. V[y][x] = 0
    BY <1>5, PlaneAt
  <2>2. V[b][a] # 0 => a \in 1 .. w - 1 - 1 /\ b \in 1 .. h - 1 - 1
    <3>1. a \in Int /\ b \in Int
      BY <1>1, <1>2
    <3> HIDE DEF a, b
    <3> QED
      BY <3>1 DEF Within, PlaneMargin
  <2>3. a \in {0, w - 1} \/ b \in {0, h - 1}
    BY <1>2, <1>5 DEF OnGrid
  <2> HIDE DEF a, b, V, w, h
  <2>4. V[b][a] = 0
    BY <1>1, <2>2, <2>3
  <2> QED
    BY <1>3, <2>1, <2>4 DEF V
<1> QED
  BY <1>4, <1>5

\* The taps of a filter, summed.
LEMMA SumOfTaps ==
    ASSUME NEW f, f[-1] \in Int, f[0] \in Int, f[1] \in Int, f[2] \in Int
    PROVE  SumFunctionOnSet(f, -1 .. 2) = f[-1] + f[0] + f[1] + f[2]
<1>1. PICK a \in Int : a = -1
  OBVIOUS
<1>2. PICK b \in Int : b = 0
  OBVIOUS
<1>3. PICK c \in Int : c = 1
  OBVIOUS
<1>4. PICK d \in Int : d = 2
  OBVIOUS
<1>5. SumFunctionOnSet(f, a .. a) = f[a]
  BY <1>1, SumAt
<1>6. \A i \in a .. d : f[i] \in Int
  <2>1. a .. d = {a, b, c, d}
    BY <1>1, <1>2, <1>3, <1>4
  <2>2. f[a] \in Int /\ f[b] \in Int /\ f[c] \in Int /\ f[d] \in Int
    BY <1>1, <1>2, <1>3, <1>4
  <2> QED
    BY <2>1, <2>2
<1>7. /\ a <= b /\ a <= c /\ a <= d /\ b - 1 = a /\ c - 1 = b /\ d - 1 = c
      /\ a .. b \subseteq a .. d /\ a .. c \subseteq a .. d
  BY <1>1, <1>2, <1>3, <1>4
<1>8. SumFunctionOnSet(f, a .. b) = f[a] + f[b]
  <2>0. a <= b /\ \A i \in a .. b : f[i] \in Int
    BY <1>6, <1>7
  <2>1. SumFunctionOnSet(f, a .. b) = SumFunctionOnSet(f, a .. b - 1) + f[b]
    BY <2>0, SumAlong
  <2> QED
    BY <1>5, <1>7, <2>1
<1>9. SumFunctionOnSet(f, a .. c) = f[a] + f[b] + f[c]
  <2>0. a <= c /\ \A i \in a .. c : f[i] \in Int
    BY <1>6, <1>7
  <2>1. SumFunctionOnSet(f, a .. c) = SumFunctionOnSet(f, a .. c - 1) + f[c]
    BY <2>0, SumAlong
  <2> QED
    BY <1>7, <1>8, <2>1
<1>10. SumFunctionOnSet(f, a .. d) = f[a] + f[b] + f[c] + f[d]
  <2>0. a <= d /\ \A i \in a .. d : f[i] \in Int
    BY <1>6, <1>7
  <2>1. SumFunctionOnSet(f, a .. d) = SumFunctionOnSet(f, a .. d - 1) + f[d]
    BY <2>0, SumAlong
  <2> QED
    BY <1>7, <1>9, <2>1
<1>11. SumFunctionOnSet(f, -1 .. 2) = f[-1] + f[0] + f[1] + f[2]
  BY <1>1, <1>2, <1>3, <1>4, <1>10
<1> QED
  BY <1>11

Taps == -1 .. 2
Column(f, j) == f[<<-1, j>>] + f[<<0, j>>] + f[<<1, j>>] + f[<<2, j>>]
LEMMA SumOfSixteen ==
    ASSUME NEW f, \A c \in Taps \X Taps : f[c] \in Int
    PROVE  SumFunctionOnSet(f, Taps \X Taps)
             = Column(f, -1) + Column(f, 0) + Column(f, 1) + Column(f, 2)
<1> DEFINE r == [j \in Taps |-> Column(f, j)]
<1>1. Taps = {-1, 0, 1, 2} /\ IsFiniteSet(Taps)
  BY Kernels DEF Taps
<1>2. ASSUME NEW j \in Taps
      PROVE  r[j] \in Int /\ r[j] = SumFunctionOnSet([i \in Taps |-> f[<<i, j>>]], Taps)
  <2> DEFINE t == [i \in Taps |-> f[<<i, j>>]]
  <2>1. /\ f[<<-1, j>>] \in Int /\ f[<<0, j>>] \in Int
        /\ f[<<1, j>>] \in Int /\ f[<<2, j>>] \in Int
    <3>1. -1 \in Taps /\ 0 \in Taps /\ 1 \in Taps /\ 2 \in Taps
      BY <1>1
    <3> QED
      BY <3>1
  <2>2. t[-1] = f[<<-1, j>>] /\ t[0] = f[<<0, j>>] /\ t[1] = f[<<1, j>>] /\ t[2] = f[<<2, j>>]
    BY <1>1
  <2>3. r[j] = f[<<-1, j>>] + f[<<0, j>>] + f[<<1, j>>] + f[<<2, j>>]
    BY DEF Column
  <2> HIDE DEF t
  <2>4. SumFunctionOnSet(t, -1 .. 2) = t[-1] + t[0] + t[1] + t[2]
    BY <2>1, <2>2, SumOfTaps
  <2>5. r[j] = SumFunctionOnSet(t, Taps)
    BY <2>2, <2>3, <2>4 DEF Taps
  <2>6. r[j] \in Int
    BY <2>1, <2>3
  <2> QED
    BY <2>5, <2>6 DEF t
<1>3. RowSums(f, Taps, Taps, r)
  BY <1>2 DEF RowSums
<1>4. /\ r[-1] = Column(f, -1) /\ r[0] = Column(f, 0) /\ r[1] = Column(f, 1)
      /\ r[2] = Column(f, 2)
  BY <1>1
<1>5. r[-1] \in Int /\ r[0] \in Int /\ r[1] \in Int /\ r[2] \in Int
  BY <1>1, <1>2
<1> HIDE DEF r
<1>6. SumFunctionOnSet(f, Taps \X Taps) = SumFunctionOnSet(r, Taps)
  BY <1>1, <1>3, SumOfPairs
<1>7. SumFunctionOnSet(r, -1 .. 2) = r[-1] + r[0] + r[1] + r[2]
  BY <1>5, SumOfTaps
<1> QED
  BY <1>4, <1>6, <1>7 DEF Taps

LEMMA FilteredSmooth ==
    ASSUME NEW g, IsGrid(g), Within(g, 1), NEW x \in Int, NEW y \in Int
    PROVE  Filtered(g, Kernel33, x, y) = SmoothPlane(PlaneOf(g))[y][x]
<1> DEFINE v(i, j) == PlaneOf(g)[y + j][x + i]
           f == [t \in Across \X Across |-> Kernel33[t[1]] * Kernel33[t[2]] * Value(g, x + t[1], y + t[2])]
<1>1. Across = {-1, 0, 1} /\ Kernel33[-1] = 2 /\ Kernel33[0] = 3 /\ Kernel33[1] = 2
  BY DEF Across, Kernel33
<1>2. Filtered(g, Kernel33, x, y) = SumFunctionOnSet(f, Across \X Across)
  BY Kernels DEF Filtered, SumFunction, Across, Value
<1>3. ASSUME NEW i \in Across, NEW j \in Across
      PROVE  v(i, j) \in Int /\ f[<<i, j>>] = Kernel33[i] * Kernel33[j] * v(i, j)
  <2>1. x + i \in Int /\ y + j \in Int
    BY <1>1
  <2>2. Value(g, x + i, y + j) = v(i, j) /\ v(i, j) \in Int
    <3>1. Value(g, x + i, y + j) = PlaneOf(g)[y + j][x + i]
      BY <2>1, ValueOnPlane
    <3>2. PlaneOf(g)[y + j][x + i] \in Int
      BY <2>1, PlaneOfIs, PlaneTypes
    <3> QED
      BY <3>1, <3>2
  <2>3. f[<<i, j>>] = Kernel33[i] * Kernel33[j] * Value(g, x + i, y + j)
    OBVIOUS
  <2> HIDE DEF f, v
  <2> QED
    BY <2>2, <2>3
<1>4. ASSUME NEW j \in Across
      PROVE  Row(f, j) = Kernel33[j] * (2 * v(-1, j) + 3 * v(0, j) + 2 * v(1, j))
  <2>1. -1 \in Across /\ 0 \in Across /\ 1 \in Across
    BY <1>1
  <2> DEFINE k == Kernel33[j]  v0 == v(-1, j)  v1 == v(0, j)  v2 == v(1, j)
  <2>2. /\ f[<<-1, j>>] = Kernel33[-1] * k * v0
        /\ f[<<0, j>>] = Kernel33[0] * k * v1
        /\ f[<<1, j>>] = Kernel33[1] * k * v2
        /\ v0 \in Int /\ v1 \in Int /\ v2 \in Int
    <3> HIDE DEF f, v
    <3> QED
      BY <1>3, <2>1
  <2>3. k \in Int
    BY <1>1
  <2>4. Row(f, j) = f[<<-1, j>>] + f[<<0, j>>] + f[<<1, j>>]
    BY DEF Row
  <2> HIDE DEF f, v, k, v0, v1, v2
  <2>5. Row(f, j) = 2 * k * v0 + 3 * k * v1 + 2 * k * v2
    BY <1>1, <2>2, <2>4
  <2>6. Row(f, j) = k * (2 * v0 + 3 * v1 + 2 * v2)
    BY <2>2, <2>3, <2>5, SMT
  <2> QED
    BY <2>6 DEF k, v0, v1, v2
<1>5. /\ Row(f, -1) = 2 * (2 * v(-1, -1) + 3 * v(0, -1) + 2 * v(1, -1))
      /\ Row(f, 0) = 3 * (2 * v(-1, 0) + 3 * v(0, 0) + 2 * v(1, 0))
      /\ Row(f, 1) = 2 * (2 * v(-1, 1) + 3 * v(0, 1) + 2 * v(1, 1))
  <2> HIDE DEF f, v
  <2> QED
    BY <1>1, <1>4
<1>6. \A c \in Across \X Across : f[c] \in Int
  <2> SUFFICES ASSUME NEW i \in Across, NEW j \in Across PROVE f[<<i, j>>] \in Int
    OBVIOUS
  <2>1. Kernel33[i] \in Int /\ Kernel33[j] \in Int
    BY <1>1
  <2> HIDE DEF f, v
  <2> QED
    BY <1>3, <2>1
<1>7. SumFunctionOnSet(f, Across \X Across) = Row(f, -1) + Row(f, 0) + Row(f, 1)
  <2> HIDE DEF f
  <2> QED
    BY <1>6, SumOfNine
<1>8. SmoothPlane(PlaneOf(g))[y][x]
        = 2 * (2 * v(-1, -1) + 3 * v(-1, 0) + 2 * v(-1, 1))
            + 3 * (2 * v(0, -1) + 3 * v(0, 0) + 2 * v(0, 1))
            + 2 * (2 * v(1, -1) + 3 * v(1, 0) + 2 * v(1, 1))
  <2> DEFINE V == PlaneOf(g)
             W(z) == 2 * V[y - 1][z] + 3 * V[y][z] + 2 * V[y + 1][z]
  <2>1. SmoothPlane(V)[y][x] = 2 * W(x - 1) + 3 * W(x) + 2 * W(x + 1)
    BY DEF SmoothPlane, SmoothLine, SmoothedRows
  <2>2. /\ x + -1 = x - 1 /\ x + 0 = x /\ y + -1 = y - 1 /\ y + 0 = y
    OBVIOUS
  <2> HIDE DEF V
  <2>3. /\ V[y + -1] = V[y - 1] /\ V[y + 0] = V[y]
    BY <2>2
  <2> QED
    BY <2>1, <2>2, <2>3 DEF V
<1>9. /\ v(-1, -1) \in Int /\ v(-1, 0) \in Int /\ v(-1, 1) \in Int
      /\ v(0, -1) \in Int /\ v(0, 0) \in Int /\ v(0, 1) \in Int
      /\ v(1, -1) \in Int /\ v(1, 0) \in Int /\ v(1, 1) \in Int
  <2> HIDE DEF f, v
  <2> QED
    BY <1>1, <1>3
<1> HIDE DEF f, v
<1> QED
  BY <1>2, <1>5, <1>7, <1>8, <1>9

LEMMA FilteredHalf ==
    ASSUME NEW g, IsGrid(g), Within(g, 1), NEW x \in Int, NEW y \in Int
    PROVE  Filtered(g, Kernel44, 2 * x, 2 * y) = HalfPlane(PlaneOf(g))[y][x]
<1> DEFINE v(i, j) == PlaneOf(g)[2 * y + j][2 * x + i]
           f == [t \in Taps \X Taps |->
                   Kernel44[t[1]] * Kernel44[t[2]] * Value(g, 2 * x + t[1], 2 * y + t[2])]
<1>1. /\ Taps = {-1, 0, 1, 2} /\ Kernel44[-1] = 7 /\ Kernel44[0] = 19 /\ Kernel44[1] = 19
      /\ Kernel44[2] = 7
  BY DEF Taps, Kernel44
<1>2. Filtered(g, Kernel44, 2 * x, 2 * y) = SumFunctionOnSet(f, Taps \X Taps)
  BY Kernels DEF Filtered, SumFunction, Taps, Value
<1>3. ASSUME NEW i \in Taps, NEW j \in Taps
      PROVE  v(i, j) \in Int /\ f[<<i, j>>] = Kernel44[i] * Kernel44[j] * v(i, j)
  <2>1. 2 * x + i \in Int /\ 2 * y + j \in Int
    BY <1>1
  <2>2. Value(g, 2 * x + i, 2 * y + j) = v(i, j) /\ v(i, j) \in Int
    <3>1. Value(g, 2 * x + i, 2 * y + j) = PlaneOf(g)[2 * y + j][2 * x + i]
      BY <2>1, ValueOnPlane
    <3>2. PlaneOf(g)[2 * y + j][2 * x + i] \in Int
      BY <2>1, PlaneOfIs, PlaneTypes
    <3> QED
      BY <3>1, <3>2
  <2>3. f[<<i, j>>] = Kernel44[i] * Kernel44[j] * Value(g, 2 * x + i, 2 * y + j)
    OBVIOUS
  <2> HIDE DEF f, v
  <2> QED
    BY <2>2, <2>3
<1>4. ASSUME NEW j \in Taps
      PROVE  Column(f, j) = Kernel44[j] * (7 * v(-1, j) + 19 * v(0, j) + 19 * v(1, j) + 7 * v(2, j))
  <2>1. -1 \in Taps /\ 0 \in Taps /\ 1 \in Taps /\ 2 \in Taps
    BY <1>1
  <2> DEFINE k == Kernel44[j]  v0 == v(-1, j)  v1 == v(0, j)  v2 == v(1, j)  v3 == v(2, j)
  <2>2. /\ f[<<-1, j>>] = Kernel44[-1] * k * v0
        /\ f[<<0, j>>] = Kernel44[0] * k * v1
        /\ f[<<1, j>>] = Kernel44[1] * k * v2
        /\ f[<<2, j>>] = Kernel44[2] * k * v3
        /\ v0 \in Int /\ v1 \in Int /\ v2 \in Int /\ v3 \in Int
    <3> HIDE DEF f, v
    <3> QED
      BY <1>3, <2>1
  <2>3. k \in Int
    BY <1>1
  <2>4. Column(f, j) = f[<<-1, j>>] + f[<<0, j>>] + f[<<1, j>>] + f[<<2, j>>]
    BY DEF Column
  <2> HIDE DEF f, v, k, v0, v1, v2, v3
  <2>5. Column(f, j) = 7 * k * v0 + 19 * k * v1 + 19 * k * v2 + 7 * k * v3
    BY <1>1, <2>2, <2>4
  <2>6. Column(f, j) = k * (7 * v0 + 19 * v1 + 19 * v2 + 7 * v3)
    BY <2>2, <2>3, <2>5, SMT
  <2> QED
    BY <2>6 DEF k, v0, v1, v2, v3
<1>5. /\ Column(f, -1) = 7 * (7 * v(-1, -1) + 19 * v(0, -1) + 19 * v(1, -1) + 7 * v(2, -1))
      /\ Column(f, 0) = 19 * (7 * v(-1, 0) + 19 * v(0, 0) + 19 * v(1, 0) + 7 * v(2, 0))
      /\ Column(f, 1) = 19 * (7 * v(-1, 1) + 19 * v(0, 1) + 19 * v(1, 1) + 7 * v(2, 1))
      /\ Column(f, 2) = 7 * (7 * v(-1, 2) + 19 * v(0, 2) + 19 * v(1, 2) + 7 * v(2, 2))
  <2> HIDE DEF f, v
  <2> QED
    BY <1>1, <1>4
<1>6. \A c \in Taps \X Taps : f[c] \in Int
  <2> SUFFICES ASSUME NEW i \in Taps, NEW j \in Taps PROVE f[<<i, j>>] \in Int
    OBVIOUS
  <2>1. Kernel44[i] \in Int /\ Kernel44[j] \in Int
    BY <1>1
  <2> HIDE DEF f, v
  <2> QED
    BY <1>3, <2>1
<1>7. SumFunctionOnSet(f, Taps \X Taps)
        = Column(f, -1) + Column(f, 0) + Column(f, 1) + Column(f, 2)
  <2> HIDE DEF f
  <2> QED
    BY <1>6, SumOfSixteen
<1> DEFINE w(i) == 7 * v(i, -1) + 19 * v(i, 0) + 19 * v(i, 1) + 7 * v(i, 2)
<1>8. HalfPlane(PlaneOf(g))[y][x] = 7 * w(-1) + 19 * w(0) + 19 * w(1) + 7 * w(2)
  <2> DEFINE V == PlaneOf(g)
             W(z) == 7 * V[2 * y - 1][z] + 19 * V[2 * y][z] + 19 * V[2 * y + 1][z] + 7 * V[2 * y + 2][z]
  <2>1. HalfPlane(V)[y][x] = 7 * W(2 * x - 1) + 19 * W(2 * x) + 19 * W(2 * x + 1) + 7 * W(2 * x + 2)
    BY DEF HalfPlane, HalfLine, HalvedRows
  <2>2. /\ 2 * x + -1 = 2 * x - 1 /\ 2 * x + 0 = 2 * x
        /\ 2 * y + -1 = 2 * y - 1 /\ 2 * y + 0 = 2 * y
    OBVIOUS
  <2> HIDE DEF V
  <2>3. /\ V[2 * y + -1] = V[2 * y - 1] /\ V[2 * y + 0] = V[2 * y]
    BY <2>2
  <2> QED
    BY <2>1, <2>2, <2>3 DEF V
<1>9. \A i \in Taps, j \in Taps : v(i, j) \in Int
  <2> HIDE DEF f, v
  <2> QED
    BY <1>3
<1>10. /\ v(-1, -1) \in Int /\ v(-1, 0) \in Int /\ v(-1, 1) \in Int /\ v(-1, 2) \in Int
       /\ v(0, -1) \in Int /\ v(0, 0) \in Int /\ v(0, 1) \in Int /\ v(0, 2) \in Int
       /\ v(1, -1) \in Int /\ v(1, 0) \in Int /\ v(1, 1) \in Int /\ v(1, 2) \in Int
       /\ v(2, -1) \in Int /\ v(2, 0) \in Int /\ v(2, 1) \in Int /\ v(2, 2) \in Int
  <2> HIDE DEF f, v
  <2> QED
    BY <1>1, <1>9
<1> HIDE DEF f, v
<1> QED
  BY <1>2, <1>5, <1>7, <1>8, <1>10

\* So the plane of a filtered grid is the filtered plane, on it and around it.
LEMMA SamePlane ==
    ASSUME NEW U \in Plane, NEW V \in Plane, \A y, x \in Int : U[y][x] = V[y][x]
    PROVE  U = V
<1>1. \A y \in Int : U[y] = V[y]
  BY DEF Plane, Line
<1> QED
  BY <1>1 DEF Plane

LEMMA SmoothOnPlane ==
    ASSUME NEW g, IsGrid(g), Within(g, 1)
    PROVE  PlaneOf(Smooth33(g)) = SmoothPlane(PlaneOf(g))
<1> DEFINE w == g.size_x   h == g.size_y   V == PlaneOf(g)   N == Smooth33(g)   U == SmoothPlane(V)
<1>1. w \in Nat \ {0} /\ h \in Nat \ {0} /\ N.size_x = w /\ N.size_y = h /\ V \in Plane
  BY GridTypes, SmoothSize, PlaneOfIs
<1>2. PlaneOf(N) \in Plane /\ U \in Plane
  <2>1. IsGrid(N)
    BY SmoothIsGrid
  <2> HIDE DEF N, V
  <2> QED
    BY <1>1, <2>1, PlaneOfIs, SmoothPlaneIs
<1>3. PlaneMargin(U, w, h, 0)
  <2>1. PICK r \in Nat \ {0} : r = 1
    OBVIOUS
  <2>2. PlaneMargin(V, w, h, r) /\ r - 1 = 0
    BY <2>1 DEF Within
  <2> HIDE DEF w, h, V
  <2>3. PlaneMargin(SmoothPlane(V), w, h, r - 1)
    BY <1>1, <2>1, <2>2, SmoothPlaneMargin
  <2> QED
    BY <2>2, <2>3
<1>4. ASSUME NEW y \in Int, NEW x \in Int PROVE PlaneOf(N)[y][x] = U[y][x]
  <2>1. CASE OnGrid(N, x, y)
    <3>1. x \in 0 .. w - 1 /\ y \in 0 .. h - 1
      BY <1>1, <2>1 DEF OnGrid
    <3>2. PlaneOf(N)[y][x] = At(N, x, y)
      BY <2>1, PlaneAt
    <3>3. At(N, x, y) = Filtered(g, Kernel33, x, y)
      <4>1. y * w + x \in 0 .. w * h - 1
        <5>1. Index(g, x, y) \in 0 .. NumCells(g) - 1
          BY <1>1, <3>1, IndexInside
        <5> QED
          BY <5>1 DEF Index, NumCells
      <4>2. (y * w + x) % w = x /\ (y * w + x) \div w = y
        <5> HIDE DEF w, h
        <5> QED
          BY <1>1, <3>1, IndexOfPixel
      <4>3. N.cells = [i \in 0 .. w * h - 1 |-> Filtered(g, Kernel33, i % w, i \div w)]
        BY DEF Smooth33, Grid
      <4>4. At(N, x, y) = N.cells[y * w + x]
        BY <1>1 DEF At, Index
      <4> HIDE DEF N, w, h
      <4> QED
        BY <4>1, <4>2, <4>3, <4>4
    <3>4. Filtered(g, Kernel33, x, y) = U[y][x]
      BY FilteredSmooth
    <3> QED
      BY <3>2, <3>3, <3>4
  <2>2. CASE ~ OnGrid(N, x, y)
    <3>1. PlaneOf(N)[y][x] = 0
      BY <2>2, PlaneAt
    <3>2. ~ (x \in 0 .. w - 1 - 0 /\ y \in 0 .. h - 1 - 0)
      BY <1>1, <2>2 DEF OnGrid
    <3> HIDE DEF U, w, h, N
    <3> QED
      BY <1>3, <3>1, <3>2 DEF PlaneMargin
  <2> QED
    BY <2>1, <2>2
<1> HIDE DEF U, N
<1>5. PlaneOf(N) = U
  BY <1>2, <1>4, SamePlane
<1> QED
  BY <1>5 DEF U, N

LEMMA HalfOnPlane ==
    ASSUME NEW g, IsGrid(g), Within(g, 2), g.size_x \div 2 > 0, g.size_y \div 2 > 0
    PROVE  PlaneOf(Downscale(g)) = HalfPlane(PlaneOf(g))
<1> DEFINE w == g.size_x   h == g.size_y   V == PlaneOf(g)   N == Downscale(g)
           U == HalfPlane(V)   m == w \div 2   k == h \div 2
<1>1. /\ w \in Nat \ {0} /\ h \in Nat \ {0} /\ N.size_x = m /\ N.size_y = k /\ V \in Plane
      /\ m \in Nat \ {0} /\ k \in Nat \ {0}
  BY GridTypes, DownscaleSize, PlaneOfIs
<1>2. PlaneOf(N) \in Plane /\ U \in Plane
  <2>1. IsGrid(N)
    BY DownscaleIsGrid
  <2> HIDE DEF N, V
  <2> QED
    BY <1>1, <2>1, PlaneOfIs, HalfPlaneIs
<1>3. PlaneMargin(U, m, k, 0)
  <2>1. PICK r \in Nat \ {0} : r = 1
    OBVIOUS
  <2>2. PlaneMargin(V, w, h, 2 * r) /\ r - 1 = 0
    BY <2>1 DEF Within
  <2> HIDE DEF w, h, V
  <2>3. PlaneMargin(HalfPlane(V), w \div 2, h \div 2, r - 1)
    BY <1>1, <2>1, <2>2, HalfPlaneMargin
  <2> QED
    BY <2>2, <2>3
<1>4. Within(g, 1)
  <2> HIDE DEF V, w, h
  <2> SUFFICES ASSUME NEW y \in Int, NEW x \in Int, V[y][x] # 0
               PROVE  x \in 1 .. w - 1 - 1 /\ y \in 1 .. h - 1 - 1
    BY DEF Within, PlaneMargin, V, w, h
  <2>1. x \in 2 .. w - 1 - 2 /\ y \in 2 .. h - 1 - 2
    BY DEF Within, PlaneMargin, V, w, h
  <2> QED
    BY <1>1, <2>1
<1>5. ASSUME NEW y \in Int, NEW x \in Int PROVE PlaneOf(N)[y][x] = U[y][x]
  <2>1. CASE OnGrid(N, x, y)
    <3>1. x \in 0 .. m - 1 /\ y \in 0 .. k - 1
      BY <1>1, <2>1 DEF OnGrid
    <3>2. PlaneOf(N)[y][x] = At(N, x, y)
      BY <2>1, PlaneAt
    <3>3. At(N, x, y) = Filtered(g, Kernel44, 2 * x, 2 * y)
      <4>1. y * m + x \in 0 .. m * k - 1
        <5>1. Index(N, x, y) \in 0 .. NumCells(N) - 1
          <6> HIDE DEF N, m, k
          <6>1. N.size_x \in Nat \ {0} /\ N.size_y \in Nat \ {0}
                /\ x \in 0 .. N.size_x - 1 /\ y \in 0 .. N.size_y - 1
            BY <1>1, <3>1
          <6> QED
            BY <6>1, IndexInside
        <5> HIDE DEF N, m, k
        <5> QED
          BY <1>1, <5>1 DEF Index, NumCells
      <4>2. (y * m + x) % m = x /\ (y * m + x) \div m = y
        <5> HIDE DEF m, k, N
        <5>1. m \in Nat \ {0} /\ x \in 0 .. m - 1 /\ y \in Nat
          BY <1>1, <3>1
        <5> QED
          BY <5>1, IndexOfPixel
      <4>3. N.cells = [i \in 0 .. m * k - 1 |-> Filtered(g, Kernel44, 2 * (i % m), 2 * (i \div m))]
        BY DEF Downscale, Grid
      <4>4. At(N, x, y) = N.cells[y * m + x]
        <5> HIDE DEF N, m, k
        <5> QED
          BY <1>1 DEF At, Index
      <4> HIDE DEF N, m, k
      <4> QED
        BY <4>1, <4>2, <4>3, <4>4
    <3>4. Filtered(g, Kernel44, 2 * x, 2 * y) = U[y][x]
      BY <1>4, FilteredHalf
    <3> QED
      BY <3>2, <3>3, <3>4
  <2>2. CASE ~ OnGrid(N, x, y)
    <3>1. PlaneOf(N)[y][x] = 0
      BY <2>2, PlaneAt
    <3> HIDE DEF U, m, k, N
    <3>2. ~ (x \in 0 .. m - 1 - 0 /\ y \in 0 .. k - 1 - 0)
      BY <1>1, <2>2 DEF OnGrid
    <3> QED
      BY <1>3, <3>1, <3>2 DEF PlaneMargin
  <2> QED
    BY <2>1, <2>2
<1> HIDE DEF U, N
<1>6. PlaneOf(N) = U
  BY <1>2, <1>5, SamePlane
<1> QED
  BY <1>6 DEF U, N

\* The sum over the cells of a grid, weighted by their columns and rows, is
\* that over its plane.
LEMMA SumOverPlane ==
    ASSUME NEW g, NEW P \in Line, NEW Q \in Line, NEW f, IsGrid(g),
           \A i \in DOMAIN g.cells : f[i] = g.cells[i] * (P[i % g.size_x] * Q[i \div g.size_x])
    PROVE  SumFunctionOnSet(f, DOMAIN g.cells)
             = PlaneSum(P, Q, PlaneOf(g), g.size_x, g.size_y)
<1> DEFINE w == g.size_x   h == g.size_y   V == PlaneOf(g)   U == RowSumsOf(P, V, w)
           A == 0 .. w - 1   B == 0 .. h - 1
           F == [c \in A \X B |-> Q[c[2]] * (P[c[1]] * V[c[2]][c[1]])]
           r == [b \in B |-> Q[b] * U[b]]
           q == [c \in A \X B |-> c[2] * w + c[1]]
<1>1. /\ w \in Nat \ {0} /\ h \in Nat \ {0} /\ V \in Plane
      /\ DOMAIN g.cells = 0 .. w * h - 1 /\ IsFiniteSet(A) /\ IsFiniteSet(B)
  <2>1. w \in Nat \ {0} /\ h \in Nat \ {0} /\ V \in Plane /\ DOMAIN g.cells = 0 .. w * h - 1
    BY GridTypes, PlaneOfIs
  <2> HIDE DEF w, h
  <2> QED
    BY <2>1, FS_Interval
<1>2. ASSUME NEW a \in A, NEW b \in B
      PROVE  /\ a \in Int /\ b \in Int /\ P[a] \in Int /\ Q[b] \in Int /\ V[b][a] \in Int
             /\ b * w + a \in DOMAIN g.cells
             /\ (b * w + a) % w = a /\ (b * w + a) \div w = b
             /\ g.cells[b * w + a] = V[b][a]
  <2>1. a \in Int /\ b \in Int /\ b \in Nat
    BY <1>1
  <2>2. P[a] \in Int /\ Q[b] \in Int
    BY <2>1, LineTypes
  <2>3. V[b][a] \in Int
    <3> HIDE DEF V
    <3> QED
      BY <1>1, <2>1, PlaneTypes
  <2>4. Index(g, a, b) \in DOMAIN g.cells
    BY AtInside
  <2>5. V[b][a] = At(g, a, b)
    <3>1. OnGrid(g, a, b)
      BY DEF OnGrid
    <3> QED
      BY <2>1, <3>1, PlaneAt
  <2>6. (b * w + a) % w = a /\ (b * w + a) \div w = b
    <3> HIDE DEF w
    <3> QED
      BY <1>1, <2>1, IndexOfPixel
  <2> QED
    BY <2>1, <2>2, <2>3, <2>4, <2>5, <2>6 DEF Index, At
<1>3. ASSUME NEW b \in B
      PROVE  r[b] = SumFunctionOnSet([a \in A |-> F[<<a, b>>]], A)
  <2> DEFINE t == [a \in A |-> P[a] * V[b][a]]
             s == [a \in A |-> F[<<a, b>>]]
  <2>1. b \in Int /\ Q[b] \in Int
    BY <1>1, LineTypes
  <2>2. \A a \in A : t[a] \in Int /\ s[a] = Q[b] * t[a]
    <3> SUFFICES ASSUME NEW a \in A PROVE t[a] \in Int /\ s[a] = Q[b] * t[a]
      OBVIOUS
    <3>1. P[a] \in Int /\ V[b][a] \in Int
      <4> HIDE DEF V, A, B, F, r, q, w
      <4> QED
        BY <1>2
    <3>2. t[a] = P[a] * V[b][a]
      OBVIOUS
    <3>3. s[a] = Q[b] * (P[a] * V[b][a])
      OBVIOUS
    <3> HIDE DEF t, s, V, A, B
    <3> QED
      BY <3>1, <3>2, <3>3
  <2>3. U[b] = SumFunctionOnSet(t, A)
    BY <2>1 DEF RowSumsOf, LineSum
  <2>4. r[b] = Q[b] * U[b]
    OBVIOUS
  <2> HIDE DEF t, s, A, r, U
  <2>5. SumFunctionOnSet(s, A) = Q[b] * SumFunctionOnSet(t, A)
    BY <1>1, <2>1, <2>2, SumScaled
  <2> QED
    BY <2>3, <2>4, <2>5 DEF s
<1>4. ASSUME NEW a \in A, NEW b \in B
      PROVE  /\ F[<<a, b>>] \in Int /\ q[<<a, b>>] \in DOMAIN g.cells
             /\ f[q[<<a, b>>]] = F[<<a, b>>]
  <2> DEFINE i == b * w + a   p == P[a]   u == Q[b]   z == V[b][a]
  <2>1. F[<<a, b>>] = u * (p * z) /\ q[<<a, b>>] = i
    OBVIOUS
  <2>2. p \in Int /\ u \in Int /\ z \in Int /\ i \in DOMAIN g.cells /\ g.cells[i] = z
    <3> HIDE DEF V, A, B, F, r, q, w
    <3> QED
      BY <1>2
  <2>3. f[i] = g.cells[i] * (P[i % w] * Q[i \div w])
    BY <2>2
  <2>4. i % w = a /\ i \div w = b
    <3> HIDE DEF V, A, B, F, r, q, w
    <3> QED
      BY <1>2
  <2>5. f[i] = z * (p * u)
    BY <2>2, <2>3, <2>4
  <2> HIDE DEF i, p, u, z, F, q
  <2>6. z * (p * u) = u * (p * z) /\ u * (p * z) \in Int
    BY <2>2, SMT
  <2> QED
    BY <2>1, <2>2, <2>5, <2>6
<1>5. RowSums(F, A, B, r)
  <2> HIDE DEF F, A, B, r, q
  <2> QED
    BY <1>3, <1>4 DEF RowSums
<1>6. SumFunctionOnSet(F, A \X B) = SumFunctionOnSet(r, B)
  <2> HIDE DEF F, A, B, r
  <2> QED
    BY <1>1, <1>5, SumOfPairs
<1>7. SumFunctionOnSet(r, B) = PlaneSum(P, Q, V, w, h)
  BY DEF PlaneSum, LineSum
<1> DEFINE S == A \X B
<1>8. SumFunctionOnSet(f, {q[c] : c \in S}) = SumFunctionOnSet(F, S)
  <2>1. IsFiniteSet(S)
    <3> HIDE DEF A, B
    <3> QED
      BY <1>1, FS_Product
  <2>2. \A c \in S : F[c] \in Int /\ f[q[c]] = F[c]
    <3> HIDE DEF A, B, F, q
    <3> QED
      BY <1>4
  <2>3. \A c, d \in S : q[c] = q[d] => c = d
    <3>1. ASSUME NEW a \in A, NEW b \in B, NEW c \in A, NEW d \in B,
                 q[<<a, b>>] = q[<<c, d>>]
          PROVE  a = c /\ b = d
      <4>1. q[<<a, b>>] = b * w + a /\ q[<<c, d>>] = d * w + c
        OBVIOUS
      <4> HIDE DEF q, V, A, B, F, r, w
      <4>2. b * w + a = d * w + c
        BY <3>1, <4>1
      <4>3. /\ (b * w + a) % w = a /\ (b * w + a) \div w = b
            /\ (d * w + c) % w = c /\ (d * w + c) \div w = d
        BY <1>2
      <4> QED
        BY <4>2, <4>3
    <3> HIDE DEF A, B, q, F
    <3> SUFFICES ASSUME NEW c \in S, NEW d \in S, q[c] = q[d] PROVE c = d
      OBVIOUS
    <3>2. /\ c = <<c[1], c[2]>> /\ c[1] \in A /\ c[2] \in B
          /\ d = <<d[1], d[2]>> /\ d[1] \in A /\ d[2] \in B
      OBVIOUS
    <3>3. q[<<c[1], c[2]>>] = q[<<d[1], d[2]>>]
      BY <3>2
    <3>4. c[1] = d[1] /\ c[2] = d[2]
      BY <3>1, <3>2, <3>3
    <3> QED
      BY <3>2, <3>4
  <2> HIDE DEF S, F, q
  <2> QED
    BY <2>1, <2>2, <2>3, SumRenamed
<1>9. {q[c] : c \in S} = DOMAIN g.cells
  <2>1. \A c \in S : q[c] \in DOMAIN g.cells
    <3> HIDE DEF A, B, q, F
    <3> QED
      BY <1>4
  <2>2. ASSUME NEW i \in DOMAIN g.cells PROVE \E c \in S : q[c] = i
    <3> DEFINE a == i % w   b == i \div w
    <3>1. a \in A /\ b \in B /\ b * w + a = i
      <4>1. i \in 0 .. w * h - 1
        BY <1>1
      <4> HIDE DEF w, h
      <4> QED
        BY <1>1, <4>1, PixelOfIndex
    <3> HIDE DEF a, b
    <3>2. <<a, b>> \in S /\ q[<<a, b>>] = b * w + a
      BY <3>1
    <3> QED
      BY <3>1, <3>2
  <2> HIDE DEF S, q
  <2> QED
    BY <2>1, <2>2
<1> HIDE DEF S, F, q, A, B, r
<1> QED
  BY <1>6, <1>7, <1>8, <1>9 DEF S

-----------------------------------------------------------------------------
(* Moments of grids.                                                         *)

One == [x \in Int |-> 1]
Mid(s) == [x \in Int |-> (2 * x + 1) * s]

LEMMA WeightsEven == Even(One) /\ \A s \in Int : Even(Mid(s))
<1>1. Even(One)
  BY DEF Even, One, Line
<1>2. ASSUME NEW s \in Int PROVE Even(Mid(s))
  <2>1. Mid(s) \in Line
    BY DEF Mid, Line
  <2>2. ASSUME NEW x \in Int
        PROVE  7 * Mid(s)[x] = 2 * Mid(s)[x - 1] + 3 * Mid(s)[x] + 2 * Mid(s)[x + 1]
    <3> DEFINE t == x * s
    <3>1. t \in Int /\ (2 * x + 1) * s = 2 * t + s /\ (2 * (x - 1) + 1) * s = 2 * t - s
          /\ (2 * (x + 1) + 1) * s = 2 * t + 3 * s
      BY SMT
    <3>2. /\ Mid(s)[x] = (2 * x + 1) * s /\ Mid(s)[x - 1] = (2 * (x - 1) + 1) * s
          /\ Mid(s)[x + 1] = (2 * (x + 1) + 1) * s
      BY DEF Mid
    <3> HIDE DEF t
    <3> QED
      BY <3>1, <3>2
  <2> QED
    BY <2>1, <2>2 DEF Even
<1> QED
  BY <1>1, <1>2

\* What a pixel weighs by the halves it goes into: its mass always the same, its
\* place a little towards that of the half it is in the middle of.
Flat == [x \in Int |-> 26]
Tilt(s) == [x \in Int |-> 26 * ((2 * x + 1) * s) + (IF x % 2 = 0 THEN -(2 * s) ELSE 2 * s)]

LEMMA WeightsHalve ==
    /\ One \in Line /\ Flat \in Line
    /\ Halves(Flat, One)
    /\ \A s \in Int : Mid(s) \in Line /\ Tilt(s) \in Line /\ Halves(Tilt(s), Mid(2 * s))
<1>1. Halves(Flat, One) /\ One \in Line /\ Flat \in Line
  BY DEF Halves, Flat, One, Line
<1>2. ASSUME NEW s \in Int PROVE Mid(s) \in Line /\ Tilt(s) \in Line /\ Halves(Tilt(s), Mid(2 * s))
  <2>1. Mid(s) \in Line /\ Tilt(s) \in Line /\ Mid(2 * s) \in Line
    BY DEF Mid, Tilt, Line
  <2>2. ASSUME NEW x \in Int
        PROVE  /\ Tilt(s)[2 * x] = 19 * Mid(2 * s)[x] + 7 * Mid(2 * s)[x - 1]
               /\ Tilt(s)[2 * x + 1] = 19 * Mid(2 * s)[x] + 7 * Mid(2 * s)[x + 1]
    <3> DEFINE t == x * s
    <3>1. /\ t \in Int /\ (2 * (2 * x) + 1) * s = 4 * t + s
          /\ (2 * (2 * x + 1) + 1) * s = 4 * t + 3 * s
          /\ (2 * x + 1) * (2 * s) = 4 * t + 2 * s
          /\ (2 * (x - 1) + 1) * (2 * s) = 4 * t - 2 * s
          /\ (2 * (x + 1) + 1) * (2 * s) = 4 * t + 6 * s
      BY SMT
    <3>2. (2 * x) % 2 = 0 /\ (2 * x + 1) % 2 = 1 /\ 2 * x \in Int /\ 2 * x + 1 \in Int
          /\ x - 1 \in Int /\ x + 1 \in Int
      OBVIOUS
    <3>3. /\ Tilt(s)[2 * x] = 26 * ((2 * (2 * x) + 1) * s) - 2 * s
          /\ Tilt(s)[2 * x + 1] = 26 * ((2 * (2 * x + 1) + 1) * s) + 2 * s
      <4> DEFINE y == 2 * x   z == 2 * x + 1
      <4>1. y \in Int /\ z \in Int /\ y % 2 = 0 /\ z % 2 = 1
        BY <3>2
      <4> HIDE DEF y, z
      <4>2. Tilt(s)[y] = 26 * ((2 * y + 1) * s) + -(2 * s) /\ Tilt(s)[z] = 26 * ((2 * z + 1) * s) + 2 * s
        BY <4>1 DEF Tilt
      <4>3. (2 * y + 1) * s \in Int
        BY <4>1
      <4>4. Tilt(s)[y] = 26 * ((2 * y + 1) * s) - 2 * s
        BY <4>2, <4>3
      <4> QED
        BY <4>2, <4>4 DEF y, z
    <3>4. /\ Mid(2 * s)[x] = (2 * x + 1) * (2 * s)
          /\ Mid(2 * s)[x - 1] = (2 * (x - 1) + 1) * (2 * s)
          /\ Mid(2 * s)[x + 1] = (2 * (x + 1) + 1) * (2 * s)
      BY DEF Mid
    <3> HIDE DEF t
    <3> QED
      BY <3>1, <3>3, <3>4
  <2> QED
    BY <2>1, <2>2 DEF Halves
<1> QED
  BY <1>1, <1>2

\* Sums of lines do not tell weights from values.
LEMMA LineSwaps ==
    ASSUME NEW P \in Line, NEW v \in Line, NEW n \in Nat
    PROVE  LineSum(P, v, n) = LineSum(v, P, n)
<1> DEFINE T == 0 .. n - 1
<1>1. ASSUME NEW x \in T PROVE P[x] * v[x] = v[x] * P[x]
  <2>1. P[x] \in Int /\ v[x] \in Int
    BY LineTypes
  <2> QED
    BY <2>1
<1>2. [x \in T |-> P[x] * v[x]] = [x \in T |-> v[x] * P[x]]
  BY <1>1
<1> QED
  BY <1>2 DEF LineSum

\* A line, and a plane, with nothing below zero.
Above(v) == \A x \in Int : v[x] >= 0
Full(V) == \A y \in Int : Above(V[y])

LEMMA LineAbove ==
    ASSUME NEW P \in Line, NEW v \in Line, NEW n \in Nat, Above(P), Above(v)
    PROVE  LineSum(P, v, n) \in Nat
<1> DEFINE T == 0 .. n - 1
           f == [x \in T |-> P[x] * v[x]]
<1>1. ASSUME NEW x \in T PROVE f[x] \in Nat
  <2> DEFINE a == P[x]  b == v[x]
  <2>1. a \in Nat /\ b \in Nat
    BY LineTypes DEF Above
  <2>2. f[x] = a * b
    OBVIOUS
  <2> HIDE DEF a, b, f
  <2>3. a * b \in Nat
    BY <2>1, SMT
  <2> QED
    BY <2>2, <2>3
<1>2. IsFiniteSet(T)
  BY FS_Interval
<1>3. LineSum(P, v, n) = SumFunctionOnSet(f, T)
  BY DEF LineSum
<1> HIDE DEF T, f
<1> QED
  BY <1>1, <1>2, <1>3, SumOfNaturals

\* Weights near a multiple of others give sums near the multiple of theirs.
Around(A, B, C, a, d) ==
    \A x \in Int : a * B[x] - d * C[x] <= A[x] /\ A[x] <= a * B[x] + d * C[x]
AroundSums(A, B, C, a, d, v, n) ==
    /\ a * LineSum(B, v, n) - d * LineSum(C, v, n) <= LineSum(A, v, n)
    /\ LineSum(A, v, n) <= a * LineSum(B, v, n) + d * LineSum(C, v, n)

LEMMA LineAround ==
    ASSUME NEW A \in Line, NEW B \in Line, NEW C \in Line, NEW a \in Int, NEW d \in Int,
           NEW v \in Line, NEW n \in Nat, Above(v), Around(A, B, C, a, d)
    PROVE  AroundSums(A, B, C, a, d, v, n)
<1> DEFINE S == {m \in Nat : AroundSums(A, B, C, a, d, v, m)}
<1>1. 0 \in S
  BY LineSumEmpty DEF AroundSums
<1>2. ASSUME NEW m \in Nat, m \in S PROVE m + 1 \in S
  <2> DEFINE sa == LineSum(A, v, m)  sb == LineSum(B, v, m)  sc == LineSum(C, v, m)
             x == A[m]  y == B[m]  z == C[m]  u == v[m]
  <2>1. /\ sa \in Int /\ sb \in Int /\ sc \in Int
        /\ x \in Int /\ y \in Int /\ z \in Int /\ u \in Int /\ u >= 0
    BY LineSumType, LineTypes DEF Above
  <2>2. a * sb - d * sc <= sa /\ sa <= a * sb + d * sc
    BY <1>2 DEF AroundSums
  <2>3. a * y - d * z <= x /\ x <= a * y + d * z
    <3>1. \A k \in Int : a * B[k] - d * C[k] <= A[k] /\ A[k] <= a * B[k] + d * C[k]
      BY DEF Around
    <3>2. m \in Int
      OBVIOUS
    <3> QED
      BY <3>1, <3>2, Zenon
  <2>4. /\ LineSum(A, v, m + 1) = sa + x * u
        /\ LineSum(B, v, m + 1) = sb + y * u
        /\ LineSum(C, v, m + 1) = sc + z * u
    BY LineSumAdds
  <2> HIDE DEF sa, sb, sc, x, y, z, u
  <2>5. a * (sb + y * u) = a * sb + (a * y) * u /\ d * (sc + z * u) = d * sc + (d * z) * u
    BY <2>1, SMT
  <2> DEFINE p == a * y  q == d * z  l == p - q  h == p + q
  <2>6. p \in Int /\ q \in Int /\ l \in Int /\ h \in Int /\ l <= x /\ x <= h
    BY <2>1, <2>3
  <2>7. l * u = p * u - q * u /\ h * u = p * u + q * u
    <3> HIDE DEF p, q
    <3> QED
      BY <2>1, <2>6, SMT
  <2>8. l * u <= x * u /\ x * u <= h * u
    <3> HIDE DEF l, h
    <3> QED
      BY <2>1, <2>6, SMT
  <2>9. a * sb \in Int /\ d * sc \in Int /\ p * u \in Int /\ q * u \in Int /\ x * u \in Int
    BY <2>1
  <2>10. /\ a * (sb + y * u) - d * (sc + z * u) <= sa + x * u
         /\ sa + x * u <= a * (sb + y * u) + d * (sc + z * u)
    <3> DEFINE pu == p * u  qu == q * u  xu == x * u  e == a * sb  f == d * sc
    <3>1. /\ pu \in Int /\ qu \in Int /\ xu \in Int /\ e \in Int /\ f \in Int
          /\ pu - qu <= xu /\ xu <= pu + qu /\ e - f <= sa /\ sa <= e + f
      BY <2>2, <2>7, <2>8, <2>9
    <3>2. a * (sb + y * u) = e + pu /\ d * (sc + z * u) = f + qu
      BY <2>5
    <3> HIDE DEF pu, qu, xu, e, f
    <3>3. (e + pu) - (f + qu) <= sa + xu /\ sa + xu <= (e + pu) + (f + qu)
      BY <2>1, <3>1
    <3> QED
      BY <3>2, <3>3 DEF xu
  <2> QED
    BY <2>4, <2>10 DEF AroundSums
<1> HIDE DEF S
<1>3. n \in S
  BY <1>1, <1>2, UpTo
<1> QED
  BY <1>3 DEF S

LEMMA FlatSum ==
    ASSUME NEW v \in Line, NEW n \in Nat
    PROVE  LineSum(Flat, v, n) = 26 * LineSum(One, v, n)
<1>1. One \in Line /\ Flat \in Line
  BY WeightsHalve
<1>2. PICK a \in Int : a = 26
  OBVIOUS
<1>3. \A x \in 0 .. n - 1 : Flat[x] = a * One[x]
  BY <1>2 DEF Flat, One
<1>4. LineSum(v, Flat, n) = a * LineSum(v, One, n)
  BY <1>1, <1>3, LineScaled
<1> QED
  BY <1>1, <1>2, <1>4, LineSwaps

\* The moments of a plane with the weights of pixels that are halved: but for a
\* thirteenth of a pixel, 676 times its own.
Tilted(a, x, e) == 676 * x - 52 * e <= a /\ a <= 676 * x + 52 * e

LEMMA TiltedMoments ==
    ASSUME NEW V \in Plane, Full(V), NEW w \in Nat, NEW h \in Nat, NEW s \in Nat
    PROVE  LET m == PlaneSum(One, One, V, w, h)
           IN  /\ m \in Nat
               /\ PlaneSum(Flat, Flat, V, w, h) = 676 * m
               /\ Tilted(PlaneSum(Tilt(s), Flat, V, w, h), PlaneSum(Mid(s), One, V, w, h), s * m)
               /\ Tilted(PlaneSum(Flat, Tilt(s), V, w, h), PlaneSum(One, Mid(s), V, w, h), s * m)
<1> DEFINE K == RowSumsOf(One, V, w)
           U == RowSumsOf(Mid(s), V, w)
           T == RowSumsOf(Tilt(s), V, w)
           F == RowSumsOf(Flat, V, w)
<1>1. One \in Line /\ Flat \in Line /\ Mid(s) \in Line /\ Tilt(s) \in Line
  BY WeightsHalve
<1>2. K \in Line /\ U \in Line /\ T \in Line /\ F \in Line
  BY <1>1, RowSumsAre
<1>3. \A y \in Int : F[y] = 26 * K[y]
  <2> SUFFICES ASSUME NEW y \in Int PROVE F[y] = 26 * K[y]
    OBVIOUS
  <2>1. F[y] = LineSum(Flat, V[y], w) /\ K[y] = LineSum(One, V[y], w)
    BY DEF RowSumsOf
  <2>2. V[y] \in Line
    BY PlaneTypes
  <2> HIDE DEF F, K
  <2> QED
    BY <2>1, <2>2, FlatSum
<1>4. Above(One) /\ Above(K) /\ Above(F)
  <2>1. Above(One)
    BY DEF Above, One
  <2>2. ASSUME NEW y \in Int PROVE K[y] >= 0 /\ F[y] >= 0
    <3>1. K[y] = LineSum(One, V[y], w)
      BY DEF RowSumsOf
    <3>2. V[y] \in Line /\ Above(V[y])
      BY PlaneTypes DEF Full
    <3> HIDE DEF K, F
    <3>3. K[y] \in Nat
      BY <1>1, <2>1, <3>1, <3>2, LineAbove
    <3> QED
      BY <1>3, <3>3
  <2> QED
    BY <2>1, <2>2 DEF Above
<1>5. PICK a \in Int : a = 26
  OBVIOUS
<1> DEFINE d == 2 * s
<1>6. d \in Int
  OBVIOUS
<1>7. Around(Tilt(s), Mid(s), One, a, d)
  <2> SUFFICES ASSUME NEW x \in Int
               PROVE  a * Mid(s)[x] - d * One[x] <= Tilt(s)[x] /\ Tilt(s)[x] <= a * Mid(s)[x] + d * One[x]
    BY DEF Around
  <2> DEFINE t == (2 * x + 1) * s
  <2>1. t \in Int /\ Mid(s)[x] = t /\ One[x] = 1
    BY DEF Mid, One
  <2>2. Tilt(s)[x] = 26 * t - 2 * s \/ Tilt(s)[x] = 26 * t + 2 * s
    <3>1. Tilt(s)[x] = 26 * t + (IF x % 2 = 0 THEN -(2 * s) ELSE 2 * s)
      BY DEF Tilt
    <3> HIDE DEF t
    <3> QED
      BY <2>1, <3>1
  <2> HIDE DEF t
  <2> QED
    BY <1>5, <2>1, <2>2
<1> HIDE DEF d
<1>8. Around(T, U, K, a, d)
  <2> SUFFICES ASSUME NEW y \in Int
               PROVE  a * U[y] - d * K[y] <= T[y] /\ T[y] <= a * U[y] + d * K[y]
    BY DEF Around
  <2>1. V[y] \in Line /\ Above(V[y])
    BY PlaneTypes DEF Full
  <2>2. AroundSums(Tilt(s), Mid(s), One, a, d, V[y], w)
    BY <1>1, <1>6, <1>7, <2>1, LineAround
  <2>3. T[y] = LineSum(Tilt(s), V[y], w) /\ U[y] = LineSum(Mid(s), V[y], w) /\ K[y] = LineSum(One, V[y], w)
    BY DEF RowSumsOf
  <2> HIDE DEF T, U, K
  <2> QED
    BY <2>2, <2>3 DEF AroundSums
<1> DEFINE m == PlaneSum(One, One, V, w, h)
           x == PlaneSum(Mid(s), One, V, w, h)
           y == PlaneSum(One, Mid(s), V, w, h)
<1>9. /\ m = LineSum(One, K, h) /\ x = LineSum(One, U, h) /\ y = LineSum(Mid(s), K, h)
      /\ PlaneSum(Flat, Flat, V, w, h) = LineSum(Flat, F, h)
      /\ PlaneSum(Tilt(s), Flat, V, w, h) = LineSum(Flat, T, h)
      /\ PlaneSum(Flat, Tilt(s), V, w, h) = LineSum(Tilt(s), F, h)
  BY DEF PlaneSum
<1> HIDE DEF K, U, T, F, m, x, y
<1>10. m \in Nat /\ x \in Int /\ y \in Int
  BY <1>1, <1>2, <1>4, <1>9, LineAbove, LineSumType
<1>11. LineSum(One, F, h) = 26 * m /\ LineSum(Mid(s), F, h) = 26 * y
  <2>1. \A k \in 0 .. h - 1 : F[k] = a * K[k]
    BY <1>3, <1>5
  <2>2. LineSum(One, F, h) = a * LineSum(One, K, h) /\ LineSum(Mid(s), F, h) = a * LineSum(Mid(s), K, h)
    BY <1>1, <1>2, <2>1, LineScaled
  <2> QED
    BY <1>5, <1>9, <2>2
<1>12. PlaneSum(Flat, Flat, V, w, h) = 676 * m
  <2>1. LineSum(Flat, F, h) = 26 * LineSum(One, F, h)
    BY <1>2, FlatSum
  <2> QED
    BY <1>9, <1>10, <1>11, <2>1
<1>13. d * m = 2 * (s * m) /\ d * (26 * m) = 52 * (s * m) /\ s * m \in Int
  BY <1>10, SMT DEF d
<1>14. Tilted(PlaneSum(Tilt(s), Flat, V, w, h), x, s * m)
  <2> DEFINE t == LineSum(One, T, h)
  <2>1. AroundSums(T, U, K, a, d, One, h)
    BY <1>1, <1>2, <1>4, <1>6, <1>8, LineAround
  <2>2. LineSum(T, One, h) = t /\ LineSum(U, One, h) = x /\ LineSum(K, One, h) = m
    BY <1>1, <1>2, <1>9, LineSwaps
  <2>3. 26 * x - d * m <= t /\ t <= 26 * x + d * m
    BY <1>5, <2>1, <2>2 DEF AroundSums
  <2>4. PlaneSum(Tilt(s), Flat, V, w, h) = 26 * t /\ t \in Int
    BY <1>1, <1>2, <1>9, FlatSum, LineSumType
  <2> DEFINE e == s * m
  <2>5. e \in Int /\ 26 * x - 2 * e <= t /\ t <= 26 * x + 2 * e
    BY <1>13, <2>3
  <2> HIDE DEF t, e
  <2>6. 676 * x - 52 * e <= 26 * t /\ 26 * t <= 676 * x + 52 * e
    BY <1>10, <2>4, <2>5
  <2> QED
    BY <2>4, <2>6 DEF Tilted, e
<1>15. Tilted(PlaneSum(Flat, Tilt(s), V, w, h), y, s * m)
  <2> DEFINE t == LineSum(Tilt(s), F, h)   e == s * m
  <2>1. AroundSums(Tilt(s), Mid(s), One, a, d, F, h)
    BY <1>1, <1>2, <1>4, <1>6, <1>7, LineAround
  <2>2. 26 * (26 * y) - d * (26 * m) <= t /\ t <= 26 * (26 * y) + d * (26 * m)
    BY <1>5, <1>11, <2>1 DEF AroundSums
  <2>3. t \in Int /\ e \in Int /\ d * (26 * m) = 52 * e
    BY <1>1, <1>2, <1>13, LineSumType
  <2> HIDE DEF t, e
  <2>4. 676 * y - 52 * e <= t /\ t <= 676 * y + 52 * e
    BY <1>10, <2>2, <2>3
  <2> QED
    BY <1>9, <2>4 DEF Tilted, t, e
<1> QED
  BY <1>10, <1>12, <1>14, <1>15 DEF m, x, y

\* The filters keep a plane above zero.
LEMMA FullKept ==
    ASSUME NEW V \in Plane, Full(V)
    PROVE  Full(SmoothPlane(V)) /\ Full(HalfPlane(V))
<1>1. ASSUME NEW y \in Int, NEW x \in Int PROVE V[y][x] \in Int /\ V[y][x] >= 0
  BY PlaneTypes DEF Full, Above
<1>2. ASSUME NEW y \in Int, NEW x \in Int
      PROVE  /\ SmoothedRows(V, y)[x] \in Int /\ SmoothedRows(V, y)[x] >= 0
             /\ HalvedRows(V, y)[x] \in Int /\ HalvedRows(V, y)[x] >= 0
  <2>1. SmoothedRows(V, y)[x] = 2 * V[y - 1][x] + 3 * V[y][x] + 2 * V[y + 1][x]
    BY DEF SmoothedRows
  <2>2. HalvedRows(V, y)[x] = 7 * V[2 * y - 1][x] + 19 * V[2 * y][x] + 19 * V[2 * y + 1][x] + 7 * V[2 * y + 2][x]
    BY DEF HalvedRows
  <2>3. y - 1 \in Int /\ y + 1 \in Int /\ 2 * y - 1 \in Int /\ 2 * y \in Int /\ 2 * y + 1 \in Int /\ 2 * y + 2 \in Int
    OBVIOUS
  <2> DEFINE a == V[y - 1][x]  b == V[y][x]  c == V[y + 1][x]
             d == V[2 * y - 1][x]  e == V[2 * y][x]  f == V[2 * y + 1][x]  g == V[2 * y + 2][x]
  <2>4. /\ a \in Nat /\ b \in Nat /\ c \in Nat
        /\ d \in Nat /\ e \in Nat /\ f \in Nat /\ g \in Nat
    BY <1>1, <2>3
  <2> HIDE DEF a, b, c, d, e, f, g
  <2>5. 2 * a + 3 * b + 2 * c \in Nat /\ 7 * d + 19 * e + 19 * f + 7 * g \in Nat
    BY <2>4
  <2>6. SmoothedRows(V, y)[x] \in Nat /\ HalvedRows(V, y)[x] \in Nat
    BY <2>1, <2>2, <2>5 DEF a, b, c, d, e, f, g
  <2> QED
    BY <2>6
<1>3. ASSUME NEW y \in Int, NEW x \in Int
      PROVE  SmoothPlane(V)[y][x] >= 0 /\ HalfPlane(V)[y][x] >= 0
  <2> DEFINE W == SmoothedRows(V, y)   Z == HalvedRows(V, y)
  <2>1. SmoothPlane(V)[y][x] = 2 * W[x - 1] + 3 * W[x] + 2 * W[x + 1]
    BY DEF SmoothPlane, SmoothLine
  <2>2. HalfPlane(V)[y][x] = 7 * Z[2 * x - 1] + 19 * Z[2 * x] + 19 * Z[2 * x + 1] + 7 * Z[2 * x + 2]
    BY DEF HalfPlane, HalfLine
  <2>3. x - 1 \in Int /\ x + 1 \in Int /\ 2 * x - 1 \in Int /\ 2 * x \in Int /\ 2 * x + 1 \in Int /\ 2 * x + 2 \in Int
    OBVIOUS
  <2>4. /\ W[x - 1] \in Nat /\ W[x] \in Nat /\ W[x + 1] \in Nat
        /\ Z[2 * x - 1] \in Nat /\ Z[2 * x] \in Nat /\ Z[2 * x + 1] \in Nat /\ Z[2 * x + 2] \in Nat
    BY <1>2, <2>3
  <2> HIDE DEF W, Z
  <2> QED
    BY <2>1, <2>2, <2>4
<1> QED
  BY <1>3 DEF Full, Above

MassOf(g) == PlaneSum(One, One, PlaneOf(g), g.size_x, g.size_y)
MassAlongX(g) == PlaneSum(Mid(g.scale), One, PlaneOf(g), g.size_x, g.size_y)
MassAlongY(g) == PlaneSum(One, Mid(g.scale), PlaneOf(g), g.size_x, g.size_y)

\* The moments ObstaclesStay compares are those of the plane.
LEMMA MomentsAre ==
    ASSUME NEW g, IsGrid(g)
    PROVE  /\ Moment(g, LAMBDA i : 1) = MassOf(g)
           /\ Moment(g, LAMBDA i : MidX(g, i)) = MassAlongX(g)
           /\ Moment(g, LAMBDA i : MidY(g, i)) = MassAlongY(g)
           /\ MassOf(g) \in Int /\ MassAlongX(g) \in Int /\ MassAlongY(g) \in Int
<1> DEFINE w == g.size_x   h == g.size_y   s == g.scale   T == DOMAIN g.cells
           f0 == [i \in T |-> g.cells[i] * 1]
           fx == [i \in T |-> g.cells[i] * MidX(g, i)]
           fy == [i \in T |-> g.cells[i] * MidY(g, i)]
<1>1. /\ Moment(g, LAMBDA i : 1) = SumFunctionOnSet(f0, T)
      /\ Moment(g, LAMBDA i : MidX(g, i)) = SumFunctionOnSet(fx, T)
      /\ Moment(g, LAMBDA i : MidY(g, i)) = SumFunctionOnSet(fy, T)
  BY DEF Moment, SumFunction
<1>2. /\ w \in Nat \ {0} /\ h \in Nat \ {0} /\ s \in Int
      /\ One \in Line /\ Mid(s) \in Line /\ PlaneOf(g) \in Plane
  <2>1. w \in Nat \ {0} /\ h \in Nat \ {0} /\ s \in Int /\ PlaneOf(g) \in Plane
    BY GridTypes, PlaneOfIs
  <2> HIDE DEF w, h, s, T
  <2> QED
    BY <2>1, WeightsHalve
<1>3. ASSUME NEW i \in T
      PROVE  /\ i % w \in Int /\ i \div w \in Int /\ g.cells[i] \in Int
             /\ One[i % w] = 1 /\ One[i \div w] = 1
             /\ Mid(s)[i % w] = MidX(g, i) /\ Mid(s)[i \div w] = MidY(g, i)
             /\ MidX(g, i) \in Int /\ MidY(g, i) \in Int
  <2>1. i \in 0 .. w * h - 1 /\ g.cells[i] \in Int
    BY GridTypes
  <2>2. i % w \in Int /\ i \div w \in Int
    <3> HIDE DEF w, h
    <3>1. i % w \in 0 .. w - 1 /\ i \div w \in 0 .. h - 1
      BY <1>2, <2>1, PixelOfIndex
    <3> QED
      BY <1>2, <3>1
  <2>3. One[i % w] = 1 /\ One[i \div w] = 1
    BY <2>2 DEF One
  <2>4. Mid(s)[i % w] = MidX(g, i) /\ Mid(s)[i \div w] = MidY(g, i)
    <3> DEFINE a == i % w   b == i \div w
    <3>1. MidX(g, i) = (2 * a + 1) * s /\ MidY(g, i) = (2 * b + 1) * s
      BY DEF MidX, MidY
    <3>2. a \in Int /\ b \in Int
      BY <2>2
    <3> HIDE DEF a, b
    <3> QED
      BY <3>1, <3>2 DEF Mid, a, b
  <2>5. MidX(g, i) \in Int /\ MidY(g, i) \in Int
    BY <1>2, <2>2, <2>4, LineTypes
  <2> QED
    BY <2>1, <2>2, <2>3, <2>4, <2>5
<1>4. \A i \in T : f0[i] = g.cells[i] * (One[i % w] * One[i \div w])
  <2> SUFFICES ASSUME NEW i \in T PROVE f0[i] = g.cells[i] * (One[i % w] * One[i \div w])
    OBVIOUS
  <2>1. f0[i] = g.cells[i] * 1
    OBVIOUS
  <2> HIDE DEF f0, w
  <2> QED
    BY <1>3, <2>1
<1>5. \A i \in T : fx[i] = g.cells[i] * (Mid(s)[i % w] * One[i \div w])
  <2> SUFFICES ASSUME NEW i \in T PROVE fx[i] = g.cells[i] * (Mid(s)[i % w] * One[i \div w])
    OBVIOUS
  <2>1. fx[i] = g.cells[i] * MidX(g, i)
    OBVIOUS
  <2> HIDE DEF fx, w, s
  <2> QED
    BY <1>3, <2>1
<1>6. \A i \in T : fy[i] = g.cells[i] * (One[i % w] * Mid(s)[i \div w])
  <2> SUFFICES ASSUME NEW i \in T PROVE fy[i] = g.cells[i] * (One[i % w] * Mid(s)[i \div w])
    OBVIOUS
  <2>1. fy[i] = g.cells[i] * MidY(g, i)
    OBVIOUS
  <2> HIDE DEF fy, w, s
  <2> QED
    BY <1>3, <2>1
<1> HIDE DEF f0, fx, fy
<1>7. SumFunctionOnSet(f0, T) = MassOf(g)
  BY <1>2, <1>4, SumOverPlane DEF MassOf
<1>8. SumFunctionOnSet(fx, T) = MassAlongX(g)
  BY <1>2, <1>5, SumOverPlane DEF MassAlongX
<1>9. SumFunctionOnSet(fy, T) = MassAlongY(g)
  BY <1>2, <1>6, SumOverPlane DEF MassAlongY
<1>10. MassOf(g) \in Int /\ MassAlongX(g) \in Int /\ MassAlongY(g) \in Int
  <2>1. \A P, Q \in Line : PlaneSum(P, Q, PlaneOf(g), w, h) \in Int
    BY <1>2, RowSumsAre, LineSumType DEF PlaneSum
  <2> QED
    BY <1>2, <2>1 DEF MassOf, MassAlongX, MassAlongY
<1> QED
  BY <1>1, <1>7, <1>8, <1>9, <1>10, Zenon

LEMMA MomentTypes ==
    ASSUME NEW g, IsGrid(g)
    PROVE  MassOf(g) \in Int /\ MassAlongX(g) \in Int /\ MassAlongY(g) \in Int
BY MomentsAre, Zenon

\* A plane above zero has a mass that is not below it.
LEMMA MassNatural ==
    ASSUME NEW g, IsGrid(g), Full(PlaneOf(g))
    PROVE  MassOf(g) \in Nat
<1> DEFINE V == PlaneOf(g)   w == g.size_x   h == g.size_y
<1>1. w \in Nat /\ h \in Nat /\ V \in Plane /\ Full(V) /\ MassOf(g) = PlaneSum(One, One, V, w, h)
  BY GridTypes, PlaneOfIs DEF MassOf
<1> HIDE DEF V, w, h
<1>2. PICK s \in Nat : s = 0
  OBVIOUS
<1>3. PlaneSum(One, One, V, w, h) \in Nat
  BY <1>1, <1>2, TiltedMoments
<1> QED
  BY <1>1, <1>3

\* The centres of mass of moments x of mass m and y of mass n, no further apart
\* than a 26th of what a pixel of the tile, s wide, is wider than one of the world.
Nearby(x, m, y, n, s) ==
    LET reach == 2 * ((s - 1) * (m * n))
    IN  -reach <= 26 * (x * n - y * m) /\ 26 * (x * n - y * m) <= reach
Balanced(g, c) ==
    /\ Nearby(MassAlongX(g), MassOf(g), MassAlongX(c), MassOf(c), g.scale)
    /\ Nearby(MassAlongY(g), MassOf(g), MassAlongY(c), MassOf(c), g.scale)
Faithful(g, c) == Full(PlaneOf(g)) /\ Balanced(g, c)

LEMMA NearbySmoothed ==
    ASSUME NEW x \in Int, NEW m \in Int, NEW y \in Int, NEW n \in Int, NEW s \in Int,
           Nearby(x, m, y, n, s)
    PROVE  Nearby(49 * x, 49 * m, y, n, s)
<1> DEFINE p == m * n   q == (s - 1) * p   u == x * n   v == y * m
<1>1. u \in Int /\ v \in Int /\ p \in Int /\ q \in Int
      /\ -(2 * q) <= 26 * (u - v) /\ 26 * (u - v) <= 2 * q
  BY DEF Nearby
<1>2. (49 * x) * n = 49 * u /\ y * (49 * m) = 49 * v
  BY SMT
<1>3. (s - 1) * ((49 * m) * n) = 49 * q
  <2>1. (49 * m) * n = 49 * p
    BY SMT
  <2>2. (s - 1) * (49 * p) = 49 * ((s - 1) * p)
    <3> HIDE DEF p
    <3> QED
      BY <1>1, SMT
  <2> QED
    BY <2>1, <2>2
<1> HIDE DEF p, q, u, v
<1>4. -(2 * (49 * q)) <= 26 * (49 * u - 49 * v) /\ 26 * (49 * u - 49 * v) <= 2 * (49 * q)
  BY <1>1
<1> QED
  BY <1>2, <1>3, <1>4 DEF Nearby

LEMMA NearbyHalved ==
    ASSUME NEW x \in Int, NEW m \in Nat, NEW y \in Int, NEW n \in Nat, NEW s \in Nat,
           NEW z \in Int, Tilted(z, x, s * m), Nearby(x, m, y, n, s)
    PROVE  Nearby(z, 676 * m, y, n, 2 * s)
<1> DEFINE p == m * n   q == s * p   u == x * n   v == y * m   e == z - 676 * x   f == 52 * (s * m)
<1>1. u \in Int /\ v \in Int /\ p \in Int /\ q \in Int /\ e \in Int /\ f \in Int
  OBVIOUS
<1>2. -(2 * (q - p)) <= 26 * (u - v) /\ 26 * (u - v) <= 2 * (q - p)
  <2>1. (s - 1) * p = q - p
    <3> HIDE DEF p
    <3> QED
      BY <1>1, SMT DEF q
  <2> QED
    BY <2>1 DEF Nearby
<1>3. -f <= e /\ e <= f
  <2> DEFINE k == s * m
  <2>1. k \in Int /\ 676 * x - 52 * k <= z /\ z <= 676 * x + 52 * k
    BY DEF Tilted
  <2> HIDE DEF k
  <2>2. -(52 * k) <= z - 676 * x /\ z - 676 * x <= 52 * k
    BY <2>1
  <2> QED
    BY <2>2 DEF k
<1>4. f * n = 52 * q
  <2>1. (52 * (s * m)) * n = 52 * ((s * m) * n) /\ (s * m) * n = s * (m * n)
    BY SMT
  <2> QED
    BY <2>1
<1>5. z * n = 676 * u + e * n /\ y * (676 * m) = 676 * v
  BY SMT
<1>6. (2 * s - 1) * ((676 * m) * n) = 676 * (2 * q - p)
  <2>1. (676 * m) * n = 676 * p
    BY SMT
  <2>2. (2 * s - 1) * (676 * p) = 676 * (2 * (s * p) - p)
    <3> HIDE DEF p
    <3> QED
      BY <1>1, SMT
  <2> QED
    BY <2>1, <2>2
<1> HIDE DEF p, q, u, v, e, f
<1>7. -(f * n) <= e * n /\ e * n <= f * n /\ e * n \in Int
  BY <1>1, <1>3, SMT
<1> DEFINE k == e * n
<1>8. k \in Int /\ -(52 * q) <= k /\ k <= 52 * q
  BY <1>4, <1>7
<1>9. z * n = 676 * u + k
  BY <1>5
<1> HIDE DEF k
<1>10. /\ -(2 * (676 * (2 * q - p))) <= 26 * ((676 * u + k) - 676 * v)
       /\ 26 * ((676 * u + k) - 676 * v) <= 2 * (676 * (2 * q - p))
  BY <1>1, <1>2, <1>8
<1> QED
  BY <1>5, <1>6, <1>9, <1>10 DEF Nearby

\* The same with the products named, for the leaf that instantiates it.
TiltedBy(z, x, m, s) == Tilted(z, x, s * m)
NearbyTwice(z, m, y, n, s) == Nearby(z, 676 * m, y, n, 2 * s)
LEMMA TiltedNearby ==
    ASSUME NEW x \in Int, NEW m \in Nat, NEW y \in Int, NEW n \in Nat, NEW s \in Nat,
           NEW z \in Int, TiltedBy(z, x, m, s), Nearby(x, m, y, n, s)
    PROVE  NearbyTwice(z, m, y, n, s)
BY NearbyHalved DEF TiltedBy, NearbyTwice

LEMMA WithinLess ==
    ASSUME NEW g, IsGrid(g), NEW r \in Int, NEW s \in Int, s <= r, Within(g, r)
    PROVE  Within(g, s)
<1> DEFINE w == g.size_x   h == g.size_y   V == PlaneOf(g)
<1>1. w \in Nat /\ h \in Nat /\ PlaneMargin(V, w, h, r)
  BY GridTypes DEF Within
<1> HIDE DEF w, h, V
<1>2. PlaneMargin(V, w, h, s)
  <2> SUFFICES ASSUME NEW y \in Int, NEW x \in Int, V[y][x] # 0
               PROVE  x \in s .. w - 1 - s /\ y \in s .. h - 1 - s
    BY DEF PlaneMargin
  <2>1. x \in r .. w - 1 - r /\ y \in r .. h - 1 - r
    BY <1>1 DEF PlaneMargin
  <2> QED
    BY <1>1, <2>1
<1> QED
  BY <1>2 DEF Within, V, w, h

\* Smoothing multiplies mass and moments by 49, halving the mass by 676 and the
\* moments by nearly that, and either leaves the grid a margin narrower by a
\* pixel of its own.
LEMMA SmoothKeeps ==
    ASSUME NEW g, NEW c, NEW r \in Nat \ {0}, IsGrid(g), IsGrid(c), Within(g, r), Faithful(g, c)
    PROVE  Within(Smooth33(g), r - 1) /\ Faithful(Smooth33(g), c)
<1> DEFINE N == Smooth33(g)   w == g.size_x   h == g.size_y   V == PlaneOf(g)
<1>1. /\ w \in Nat /\ h \in Nat /\ V \in Plane /\ g.scale \in Int
      /\ N.size_x = w /\ N.size_y = h /\ N.scale = g.scale
  BY GridTypes, PlaneOfIs, SmoothSize DEF Smooth33, Grid
<1>2. Within(g, 1)
  <2>1. PICK s \in Int : s = 1
    OBVIOUS
  <2>2. Within(g, s)
    BY <2>1, WithinLess
  <2> QED
    BY <2>1, <2>2
<1>3. PlaneOf(N) = SmoothPlane(V)
  BY <1>2, SmoothOnPlane
<1>4. Within(N, r - 1)
  <2>1. PlaneMargin(V, w, h, r)
    BY DEF Within
  <2> HIDE DEF N, w, h, V
  <2>2. PlaneMargin(SmoothPlane(V), w, h, r - 1)
    BY <1>1, <2>1, SmoothPlaneMargin
  <2> QED
    BY <1>1, <1>3, <2>2 DEF Within
<1>5. /\ MassOf(N) = 49 * MassOf(g) /\ MassAlongX(N) = 49 * MassAlongX(g)
      /\ MassAlongY(N) = 49 * MassAlongY(g)
  <2>1. PlaneMargin(V, w, h, 1)
    BY <1>2 DEF Within
  <2>2. MassOf(g) = PlaneSum(One, One, V, w, h)
        /\ MassAlongX(g) = PlaneSum(Mid(g.scale), One, V, w, h)
        /\ MassAlongY(g) = PlaneSum(One, Mid(g.scale), V, w, h)
    BY DEF MassOf, MassAlongX, MassAlongY
  <2> HIDE DEF N, w, h, V
  <2>3. \A P, Q : Even(P) /\ Even(Q) =>
          PlaneSum(P, Q, SmoothPlane(V), w, h) = 49 * PlaneSum(P, Q, V, w, h)
    BY <1>1, <2>1, SmoothPlaneSum
  <2>4. Even(One) /\ Even(Mid(g.scale))
    BY <1>1, WeightsEven
  <2> QED
    BY <1>1, <1>3, <2>2, <2>3, <2>4 DEF MassOf, MassAlongX, MassAlongY
<1>6. Balanced(N, c)
  <2>1. Balanced(g, c) /\ g.scale \in Int
    BY <1>1 DEF Faithful
  <2>2. /\ MassOf(g) \in Int /\ MassAlongX(g) \in Int /\ MassAlongY(g) \in Int
        /\ MassOf(c) \in Int /\ MassAlongX(c) \in Int /\ MassAlongY(c) \in Int
    BY MomentTypes
  <2> HIDE DEF N
  <2> DEFINE s == g.scale   m == MassOf(g)   n == MassOf(c)
             x == MassAlongX(g)   y == MassAlongY(g)   a == MassAlongX(c)   b == MassAlongY(c)
  <2>3. /\ s \in Int /\ m \in Int /\ n \in Int /\ x \in Int /\ y \in Int /\ a \in Int /\ b \in Int
        /\ Nearby(x, m, a, n, s) /\ Nearby(y, m, b, n, s)
    BY <2>1, <2>2 DEF Balanced
  <2>4. /\ MassAlongX(N) = 49 * x /\ MassAlongY(N) = 49 * y
        /\ MassOf(N) = 49 * m /\ N.scale = s
    BY <1>1, <1>5
  <2> HIDE DEF s, m, n, x, y, a, b
  <2>5. Nearby(49 * x, 49 * m, a, n, s)
    BY <2>3, NearbySmoothed
  <2>6. Nearby(49 * y, 49 * m, b, n, s)
    BY <2>3, NearbySmoothed
  <2> QED
    BY <2>4, <2>5, <2>6 DEF Balanced, n, a, b
<1>7. Full(PlaneOf(N))
  BY <1>1, <1>3, FullKept DEF Faithful
<1> QED
  BY <1>4, <1>6, <1>7 DEF Faithful

LEMMA DownscaleKeeps ==
    ASSUME NEW g, NEW c, NEW r \in Nat \ {0}, IsGrid(g), IsGrid(c), IsGrid(Downscale(g)),
           Within(g, 2 * r), Faithful(g, c), Full(PlaneOf(c))
    PROVE  Within(Downscale(g), r - 1) /\ Faithful(Downscale(g), c)
<1> DEFINE N == Downscale(g)   w == g.size_x   h == g.size_y   V == PlaneOf(g)
<1>1. /\ w \in Nat /\ h \in Nat /\ V \in Plane /\ g.scale \in Int
      /\ N.size_x = w \div 2 /\ N.size_y = h \div 2 /\ N.scale = 2 * g.scale
  <2>1. w \in Nat /\ h \in Nat /\ V \in Plane /\ g.scale \in Int
    BY GridTypes, PlaneOfIs
  <2>2. N.size_x = w \div 2 /\ N.size_y = h \div 2
    BY DownscaleSize
  <2>3. N.scale = 2 * g.scale
    BY DEF Downscale, Grid
  <2> QED
    BY <2>1, <2>2, <2>3
<1>2. Within(g, 2)
  <2>1. PICK s \in Int : s = 2
    OBVIOUS
  <2>2. s <= 2 * r /\ 2 * r \in Int
    BY <2>1
  <2>3. Within(g, s)
    BY <2>2, WithinLess
  <2> QED
    BY <2>1, <2>3
<1>3. PlaneOf(N) = HalfPlane(V)
  <2>1. N.size_x \in Nat \ {0} /\ N.size_y \in Nat \ {0}
    BY GridTypes
  <2>2. w \div 2 > 0 /\ h \div 2 > 0
    <3> HIDE DEF N, w, h
    <3> QED
      BY <1>1, <2>1
  <2> QED
    BY <1>2, <2>2, HalfOnPlane
<1>4. Within(N, r - 1)
  <2>1. PlaneMargin(V, w, h, 2 * r)
    BY DEF Within
  <2> HIDE DEF N, w, h, V
  <2>2. PlaneMargin(HalfPlane(V), w \div 2, h \div 2, r - 1)
    BY <1>1, <2>1, HalfPlaneMargin
  <2> QED
    BY <1>1, <1>3, <2>2 DEF Within
<1>5. /\ MassOf(N) = 676 * MassOf(g)
      /\ Tilted(MassAlongX(N), MassAlongX(g), g.scale * MassOf(g))
      /\ Tilted(MassAlongY(N), MassAlongY(g), g.scale * MassOf(g))
      /\ MassOf(g) \in Nat
  <2> DEFINE s == g.scale
  <2>1. PlaneMargin(V, w, h, 2) /\ Full(V) /\ s \in Nat
    BY <1>2, GridTypes DEF Within, Faithful
  <2>2. MassOf(g) = PlaneSum(One, One, V, w, h)
        /\ MassAlongX(g) = PlaneSum(Mid(s), One, V, w, h)
        /\ MassAlongY(g) = PlaneSum(One, Mid(s), V, w, h)
    BY DEF MassOf, MassAlongX, MassAlongY
  <2>5. /\ MassOf(N) = PlaneSum(One, One, HalfPlane(V), w \div 2, h \div 2)
        /\ MassAlongX(N) = PlaneSum(Mid(2 * s), One, HalfPlane(V), w \div 2, h \div 2)
        /\ MassAlongY(N) = PlaneSum(One, Mid(2 * s), HalfPlane(V), w \div 2, h \div 2)
    BY <1>1, <1>3 DEF MassOf, MassAlongX, MassAlongY
  <2> HIDE DEF N, w, h, V, s
  <2>3. \A P, H, Q, L : Halves(P, H) /\ Halves(Q, L) =>
          PlaneSum(H, L, HalfPlane(V), w \div 2, h \div 2) = PlaneSum(P, Q, V, w, h)
    BY <1>1, <2>1, HalfPlaneSum
  <2>4. Halves(Flat, One) /\ Halves(Tilt(s), Mid(2 * s))
    BY <2>1, WeightsHalve
  <2>6. LET m == PlaneSum(One, One, V, w, h)
        IN  /\ m \in Nat
            /\ PlaneSum(Flat, Flat, V, w, h) = 676 * m
            /\ Tilted(PlaneSum(Tilt(s), Flat, V, w, h), PlaneSum(Mid(s), One, V, w, h), s * m)
            /\ Tilted(PlaneSum(Flat, Tilt(s), V, w, h), PlaneSum(One, Mid(s), V, w, h), s * m)
    <3>1. V \in Plane /\ Full(V) /\ w \in Nat /\ h \in Nat /\ s \in Nat
      BY <1>1, <2>1
    <3> QED
      BY <3>1, TiltedMoments
  <2>7. /\ MassOf(N) = 676 * MassOf(g) /\ MassOf(g) \in Nat
        /\ Tilted(MassAlongX(N), MassAlongX(g), s * MassOf(g))
        /\ Tilted(MassAlongY(N), MassAlongY(g), s * MassOf(g))
    BY <2>2, <2>3, <2>4, <2>5, <2>6
  <2> QED
    BY <2>7 DEF s
<1>6. Balanced(N, c)
  <2>1. Balanced(g, c) /\ g.scale \in Nat
    BY GridTypes DEF Faithful
  <2>2. /\ MassAlongX(g) \in Int /\ MassAlongY(g) \in Int
        /\ MassAlongX(N) \in Int /\ MassAlongY(N) \in Int
        /\ MassAlongX(c) \in Int /\ MassAlongY(c) \in Int
    BY MomentTypes
  <2>3. MassOf(c) \in Nat
    BY MassNatural
  <2> HIDE DEF N
  <2> DEFINE s == g.scale   m == MassOf(g)   n == MassOf(c)
             x == MassAlongX(g)   y == MassAlongY(g)   a == MassAlongX(c)   b == MassAlongY(c)
             u == MassAlongX(N)   v == MassAlongY(N)
  <2>4. /\ s \in Nat /\ m \in Nat /\ n \in Nat /\ x \in Int /\ y \in Int /\ a \in Int /\ b \in Int
        /\ u \in Int /\ v \in Int /\ TiltedBy(u, x, m, s) /\ TiltedBy(v, y, m, s)
        /\ Nearby(x, m, a, n, s) /\ Nearby(y, m, b, n, s)
    BY <1>5, <2>1, <2>2, <2>3 DEF Balanced, TiltedBy
  <2>5. MassOf(N) = 676 * m /\ N.scale = 2 * s
    BY <1>1, <1>5
  <2> HIDE DEF s, m, n, x, y, a, b, u, v
  <2>6. NearbyTwice(u, m, a, n, s)
    BY <2>4, TiltedNearby
  <2>7. NearbyTwice(v, m, b, n, s)
    BY <2>4, TiltedNearby
  <2> QED
    BY <2>5, <2>6, <2>7 DEF Balanced, NearbyTwice, n, a, b, u, v
<1>7. Full(PlaneOf(N))
  BY <1>1, <1>3, FullKept DEF Faithful
<1> QED
  BY <1>4, <1>6, <1>7 DEF Faithful

-----------------------------------------------------------------------------
\* While the tile is built: what the cut leaves free of its border, in pixels
\* of the tile, shrinks by two and by one for each smoothing, and the centre of
\* mass stays nearby.  A halving takes the margin from half of what it was, so it has
\* to be known for every margin: the inductive invariant.
Smoothings == IF pc = "downscale" THEN 0 ELSE IF pc = "smooth" THEN count ELSE NumSmooth
Stays(cut, g, q, n) ==
    q >= 2 + n /\ Within(cut, q * g.scale) => Within(g, q - 2 - n) /\ Faithful(g, cut)
StayInv == \A q \in Nat : Stays(Cut(world, tile), map, q, Smoothings)
CountInv == world \in Worlds /\ (pc = "smooth" => count < NumSmooth)

LEMMA CutStays ==
    ASSUME NEW g, IsGrid(g), g.scale = 1, Full(PlaneOf(g)), NEW q \in Nat
    PROVE  Stays(g, g, q, 0)
<1>1. q * g.scale = q /\ q - 2 \in Int /\ q - 2 <= q
  OBVIOUS
<1>2. Within(g, q) => Within(g, q - 2)
  BY <1>1, WithinLess
<1>3. q - 2 - 0 = q - 2
  OBVIOUS
<1>4. \A x, m \in Int : Nearby(x, m, x, m, g.scale)
  <2> SUFFICES ASSUME NEW x \in Int, NEW m \in Int PROVE Nearby(x, m, x, m, g.scale)
    OBVIOUS
  <2> DEFINE a == x * m   p == m * m   k == g.scale - 1
  <2>1. a \in Int /\ p \in Int /\ k = 0
    OBVIOUS
  <2> HIDE DEF a, p, k
  <2>2. k * p = 0
    BY <2>1
  <2>3. -(2 * (k * p)) <= 26 * (a - a) /\ 26 * (a - a) <= 2 * (k * p)
    BY <2>1, <2>2
  <2> QED
    BY <2>3 DEF Nearby, a, p, k
<1>5. Balanced(g, g)
  BY <1>4, MomentTypes DEF Balanced
<1> QED
  BY <1>1, <1>2, <1>3, <1>5 DEF Stays, Faithful

\* The cells of the cut are none below zero.
LEMMA CutNatural ==
    ASSUME NEW w \in Worlds, NEW t, t.x \in Int, t.y \in Int
    PROVE  /\ \A i \in DOMAIN Cut(w, t).cells : Cut(w, t).cells[i] >= 0
           /\ Full(PlaneOf(Cut(w, t)))
<1> DEFINE g == Cut(w, t)
<1>1. IsGrid(g)
  BY CutIsGrid
<1>2. \A i \in DOMAIN g.cells : g.cells[i] >= 0
  <2>1. w.unit \in Nat
    BY WorldsAssumption, GridTypes
  <2>2. \A x, y : Cell(w, t, x, y) \in Int => Cell(w, t, x, y) >= 0
    BY <2>1 DEF Cell
  <2>3. g.cells = [i \in 0 .. MapSize * MapSize - 1 |-> Cell(w, t, i % MapSize, i \div MapSize)]
    BY DEF Cut, Grid
  <2>4. \A i \in DOMAIN g.cells : g.cells[i] \in Int
    <3> HIDE DEF g
    <3> QED
      BY <1>1, GridTypes
  <2> HIDE DEF g
  <2> QED
    BY <2>2, <2>3, <2>4
<1> HIDE DEF g
<1>3. ASSUME NEW y \in Int, NEW x \in Int PROVE PlaneOf(g)[y][x] >= 0
  <2>1. PlaneOf(g)[y][x] = IF OnGrid(g, x, y) THEN At(g, x, y) ELSE 0
    BY PlaneAt
  <2>2. OnGrid(g, x, y) => At(g, x, y) >= 0
    BY <1>1, <1>2, AtInside DEF OnGrid, At
  <2> QED
    BY <2>1, <2>2
<1> QED
  BY <1>2, <1>3 DEF Full, Above, g

\* What ObstaclesStay asks of the cut.
LEMMA WellWithin ==
    ASSUME world \in Worlds, tile.x \in Int, tile.y \in Int, NEW R \in Nat, Reach = R,
           WellInside(Cut(world, tile))
    PROVE  Within(Cut(world, tile), R)
<1> DEFINE g == Cut(world, tile)   w == g.size_x   h == g.size_y
<1>1. IsGrid(g) /\ w \in Nat \ {0} /\ h \in Nat \ {0}
  BY CutIsGrid, GridTypes
<1>2. \A i \in DOMAIN g.cells : g.cells[i] >= 0
  BY CutNatural
<1>3. \A i \in DOMAIN g.cells : g.cells[i] > 0 =>
        i % w \in R .. w - 1 - R /\ i \div w \in R .. h - 1 - R
  BY DEF WellInside
<1> HIDE DEF g, w, h
<1>4. ASSUME NEW y \in Int, NEW x \in Int, PlaneOf(g)[y][x] # 0
      PROVE  x \in R .. w - 1 - R /\ y \in R .. h - 1 - R
  <2>1. OnGrid(g, x, y) /\ At(g, x, y) # 0
    BY <1>4, PlaneAt
  <2>2. x \in 0 .. w - 1 /\ y \in 0 .. h - 1 /\ y \in Nat
    BY <2>1 DEF OnGrid, w, h
  <2>3. y * w + x \in DOMAIN g.cells /\ g.cells[y * w + x] \in Int /\ g.cells[y * w + x] # 0
    <3>1. Index(g, x, y) \in DOMAIN g.cells /\ At(g, x, y) \in Int
      BY <1>1, <2>1, AtInside DEF OnGrid
    <3> QED
      BY <2>1, <3>1 DEF Index, At, w
  <2>4. (y * w + x) % w = x /\ (y * w + x) \div w = y
    BY <1>1, <2>2, IndexOfPixel
  <2>5. g.cells[y * w + x] > 0
    BY <1>2, <2>3
  <2> QED
    BY <1>3, <2>3, <2>4, <2>5
<1>5. Within(g, R)
  BY <1>4 DEF Within, PlaneMargin, w, h
<1> QED
  BY <1>5 DEF g

LEMMA StayInvariant == Spec => [](StayInv /\ CountInv)
<1> DEFINE Inv == StayInv /\ CountInv
           Placed == tile.x \in Int /\ tile.y \in Int
           Grids == IsGrid(map)
<1>1. ASSUME NEW w \in Worlds, NEW t, t.x \in Int, t.y \in Int
      PROVE  \A q \in Nat : Stays(Cut(w, t), Cut(w, t), q, 0)
  <2>1. IsGrid(Cut(w, t))
    BY <1>1, CutIsGrid
  <2>2. Cut(w, t).scale = 1
    BY DEF Cut, Grid
  <2>3. Full(PlaneOf(Cut(w, t)))
    BY <1>1, CutNatural
  <2> QED
    BY <2>1, <2>2, <2>3, CutStays
<1>2. Init /\ Placed => Inv
  <2> SUFFICES ASSUME Init, Placed PROVE Inv
    OBVIOUS
  <2>1. map = Cut(world, tile) /\ Smoothings = 0 /\ CountInv
    BY TileAssumption DEF Init, AfterCut, Smoothings, CountInv
  <2>2. \A q \in Nat : Stays(Cut(world, tile), map, q, 0)
    BY <1>1, <2>1 DEF CountInv
  <2> QED
    BY <2>1, <2>2 DEF StayInv
<1>3. Inv /\ SizeInv /\ Grids /\ Grids' /\ Placed /\ Placed' /\ [Next]_vars => Inv'
  <2> SUFFICES ASSUME Inv, SizeInv, Grids, Grids', Placed, Placed', [Next]_vars PROVE Inv'
    OBVIOUS
  <2> DEFINE cut == Cut(world, tile)
  <2>0. IsGrid(cut) /\ Full(PlaneOf(cut)) /\ world \in Worlds /\ count \in Nat /\ map.scale \in Nat
        /\ \A q \in Nat : Stays(cut, map, q, Smoothings)
    <3>1. world \in Worlds /\ count \in Nat /\ map.scale \in Nat
      BY GridTypes DEF CountInv, SizeInv
    <3> QED
      BY <3>1, CutIsGrid, CutNatural DEF StayInv
  <2>1. CASE DownscaleMap
    <3>1. /\ map' = Downscale(map) /\ pc = "downscale" /\ Smoothings = 0
          /\ world' = world /\ tile' = tile
      BY <2>1 DEF DownscaleMap, Smoothings
    <3>0. Cut(world, tile)' = cut
      BY <3>1
    <3>2. Smoothings' = 0 /\ CountInv'
      BY <2>0, <2>1, TileAssumption DEF DownscaleMap, Smoothings, CountInv
    <3>3. ASSUME NEW q \in Nat, q >= 2, Within(cut, q * map'.scale)
          PROVE  Within(map', q - 2) /\ Faithful(map', cut)
      <4>1. map'.scale = 2 * map.scale
        BY <3>1 DEF Downscale, Grid
      <4> DEFINE p == 2 * q   r == q - 1   s == map.scale
      <4>2. /\ p \in Nat /\ p >= 2 /\ r \in Nat \ {0} /\ p - 2 - 0 = 2 * r
            /\ q - 2 = r - 1 /\ s \in Nat
        BY <2>0, <3>3
      <4>3. q * map'.scale = p * s
        <5>1. q * (2 * s) = (2 * q) * s
          <6> HIDE DEF s
          <6> QED
            BY <4>2, SMT
        <5> QED
          BY <4>1, <5>1
      <4>4. Within(cut, p * s)
        BY <3>3, <4>3
      <4>5. Stays(cut, map, p, 0)
        BY <2>0, <3>1, <4>2
      <4> HIDE DEF p, r, s, cut
      <4>6. Within(map, 2 * r) /\ Faithful(map, cut)
        BY <4>2, <4>4, <4>5 DEF Stays, s
      <4> QED
        BY <2>0, <3>1, <4>2, <4>6, DownscaleKeeps
    <3>4. \A q \in Nat : Stays(cut, map', q, 0)
      <4> SUFFICES ASSUME NEW q \in Nat PROVE Stays(cut, map', q, 0)
        OBVIOUS
      <4>1. q - 2 - 0 = q - 2 /\ (q >= 2 + 0 => q >= 2)
        OBVIOUS
      <4> HIDE DEF cut
      <4> QED
        BY <3>3, <4>1 DEF Stays
    <3> QED
      BY <3>0, <3>1, <3>2, <3>4 DEF StayInv
  <2>2. CASE SmoothMap
    <3>1. /\ map' = Smooth33(map) /\ pc = "smooth" /\ Smoothings = count
          /\ world' = world /\ tile' = tile
      BY <2>2 DEF SmoothMap, Smoothings
    <3>0. Cut(world, tile)' = cut
      BY <3>1
    <3>2. Smoothings' = count + 1 /\ CountInv'
      <4>1. count < NumSmooth /\ count \in Nat /\ NumSmooth \in Nat /\ world' \in Worlds
        BY <2>0, <3>1, TileAssumption DEF CountInv
      <4>2. \/ count + 1 < NumSmooth /\ pc' = "smooth" /\ count' = count + 1
            \/ count + 1 = NumSmooth /\ pc' = "use"
        BY <2>2, <4>1 DEF SmoothMap
      <4> QED
        BY <4>1, <4>2 DEF Smoothings, CountInv
    <3>3. ASSUME NEW q \in Nat, q >= 2 + (count + 1), Within(cut, q * map'.scale)
          PROVE  Within(map', q - 2 - (count + 1)) /\ Faithful(map', cut)
      <4>1. map'.scale = map.scale
        BY <3>1 DEF Smooth33, Grid
      <4> DEFINE r == q - 2 - count
      <4>2. r \in Nat \ {0} /\ q >= 2 + count /\ q - 2 - (count + 1) = r - 1
        BY <2>0, <3>3
      <4>3. Within(cut, q * map.scale)
        BY <3>3, <4>1
      <4>4. Stays(cut, map, q, count)
        BY <2>0, <3>1
      <4> HIDE DEF cut
      <4>5. Within(map, r) /\ Faithful(map, cut)
        BY <4>2, <4>3, <4>4 DEF Stays
      <4> HIDE DEF r
      <4> QED
        BY <2>0, <3>1, <4>2, <4>5, SmoothKeeps
    <3>4. \A q \in Nat : Stays(cut, map', q, count + 1)
      <4> HIDE DEF cut
      <4> QED
        BY <3>3 DEF Stays
    <3> QED
      BY <3>0, <3>1, <3>2, <3>4 DEF StayInv
  <2>3. CASE UpdateMap
    <3>1. map' = Cut(world', tile') /\ Smoothings' = 0 /\ CountInv'
      <4>1. map' = Cut(world', tile') /\ world' = world /\ count' = 0 /\ pc' = AfterCut
        BY <2>3 DEF UpdateMap
      <4>2. Smoothings' = 0
        BY <4>1, TileAssumption DEF AfterCut, Smoothings
      <4>3. CountInv'
        BY <2>0, <4>1, TileAssumption DEF AfterCut, CountInv
      <4> QED
        BY <4>1, <4>2, <4>3
    <3>2. \A q \in Nat : Stays(Cut(world', tile'), Cut(world', tile'), q, 0)
      BY <1>1, <3>1 DEF CountInv
    <3> QED
      BY <3>1, <3>2 DEF StayInv
  <2>4. CASE UNCHANGED vars
    <3>1. /\ world' = world /\ tile' = tile /\ map' = map
          /\ Smoothings' = Smoothings
      BY <2>4 DEF vars, Smoothings
    <3>0. Cut(world, tile)' = cut
      BY <3>1
    <3>2. CountInv'
      BY <2>4 DEF vars, CountInv
    <3> QED
      BY <2>0, <3>0, <3>1, <3>2 DEF StayInv
  <2> QED
    BY <2>1, <2>2, <2>3, <2>4 DEF Next
<1>4. Spec => []Placed
  BY TilePlaced
<1>5. Spec => []Grids
  BY TileIsGrid
<1> HIDE DEF Inv, Placed, Grids
<1>6. Spec => []Inv
  BY <1>2, <1>3, <1>4, <1>5, SizeInvariant, PTL DEF Spec
<1> QED
  BY <1>6 DEF Inv

\* Nearby is close: both masses are none below zero.
LEMMA NearbyIsClose ==
    ASSUME NEW x \in Int, NEW m \in Nat, NEW y \in Int, NEW n \in Nat, map.scale \in Nat,
           Nearby(x, m, y, n, map.scale)
    PROVE  Close(x, m, y, n)
<1> DEFINE s == map.scale   p == m * n   q == s * p   d == x * n - y * m
<1>1. p \in Nat /\ s \in Nat /\ d \in Int
  OBVIOUS
<1>2. (s - 1) * p = q - p /\ q \in Nat /\ (s * m) * n = q
  <2>1. (s * m) * n = s * p
    BY SMT
  <2> HIDE DEF p, s
  <2>2. (s - 1) * p = s * p - p /\ s * p \in Nat
    BY <1>1, SMT
  <2> QED
    BY <2>1, <2>2
<1>3. -(2 * (q - p)) <= 26 * d /\ 26 * d <= 2 * (q - p)
  BY <1>2 DEF Nearby
<1>4. Close(x, m, y, n) <=> 10 * (IF d < 0 THEN -d ELSE d) <= (s * m) * n
  BY DEF Close
<1> HIDE DEF p, q, d, s
<1>5. 10 * (IF d < 0 THEN -d ELSE d) <= q
  BY <1>1, <1>2, <1>3
<1> QED
  BY <1>2, <1>4, <1>5

\* Halving and smoothing the tile moves an obstacle by less than a twentieth of a
\* pixel of the tile (GridMap.h:303-395), for every world, size and number of either.
THEOREM ObstaclesStayHolds == Spec => []ObstaclesStay
<1> DEFINE Placed == tile.x \in Int /\ tile.y \in Int
           Grids == IsGrid(map)
<1>1. StayInv /\ CountInv /\ Grids /\ Placed => ObstaclesStay
  <2> SUFFICES ASSUME StayInv, CountInv, Grids, Placed, Ready, WellInside(Cut(world, tile))
               PROVE  LET cut == Cut(world, tile)
                          mass == Moment(cut, LAMBDA i : 1)
                          mapped == Moment(map, LAMBDA i : 1)
                      IN  /\ Close(Moment(map, LAMBDA i : MidX(map, i)), mapped,
                                   Moment(cut, LAMBDA i : MidX(cut, i)), mass)
                          /\ Close(Moment(map, LAMBDA i : MidY(map, i)), mapped,
                                   Moment(cut, LAMBDA i : MidY(cut, i)), mass)
    BY Zenon DEF ObstaclesStay
  <2> DEFINE cut == Cut(world, tile)   q == 2 + NumSmooth   R == q * map.scale
  <2>1. IsGrid(cut) /\ world \in Worlds /\ Full(PlaneOf(cut))
    BY CutIsGrid, CutNatural DEF CountInv
  <2>2. q \in Nat /\ R \in Nat /\ Reach = R /\ Smoothings = NumSmooth /\ map.scale \in Nat
    <3>1. q \in Nat /\ map.scale \in Nat
      BY TileAssumption, GridTypes
    <3>2. R \in Nat
      <4> HIDE DEF q
      <4> QED
        BY <3>1
    <3> QED
      BY <3>1, <3>2 DEF Reach, Smoothings, Ready
  <2>3. Within(cut, R)
    <3> HIDE DEF R
    <3> QED
      BY <2>1, <2>2, WellWithin
  <2>4. Faithful(map, cut)
    <3>1. Stays(cut, map, q, NumSmooth)
      BY <2>2 DEF StayInv
    <3>2. q >= 2 + NumSmooth
      BY TileAssumption
    <3> QED
      BY <2>3, <3>1, <3>2 DEF Stays
  <2>5. /\ Moment(cut, LAMBDA i : 1) = MassOf(cut) /\ Moment(map, LAMBDA i : 1) = MassOf(map)
        /\ Moment(cut, LAMBDA i : MidX(cut, i)) = MassAlongX(cut)
        /\ Moment(cut, LAMBDA i : MidY(cut, i)) = MassAlongY(cut)
        /\ Moment(map, LAMBDA i : MidX(map, i)) = MassAlongX(map)
        /\ Moment(map, LAMBDA i : MidY(map, i)) = MassAlongY(map)
    BY <2>1, MomentsAre, Zenon
  <2>6. /\ MassAlongX(map) \in Int /\ MassAlongY(map) \in Int
        /\ MassAlongX(cut) \in Int /\ MassAlongY(cut) \in Int
    BY <2>1, MomentTypes
  <2> HIDE DEF cut, q, R
  <2>7. MassOf(map) \in Nat /\ MassOf(cut) \in Nat
    BY <2>1, <2>4, MassNatural DEF Faithful
  <2>8. /\ Close(MassAlongX(map), MassOf(map), MassAlongX(cut), MassOf(cut))
        /\ Close(MassAlongY(map), MassOf(map), MassAlongY(cut), MassOf(cut))
    BY <2>2, <2>4, <2>6, <2>7, NearbyIsClose DEF Faithful, Balanced
  <2> QED
    BY <2>5, <2>8, Zenon DEF cut
<1>2. Spec => []Placed
  BY TilePlaced
<1>3. Spec => []Grids
  BY TileIsGrid
<1> HIDE DEF Placed, Grids
<1> QED
  BY <1>1, <1>2, <1>3, StayInvariant, PTL
=============================================================================
