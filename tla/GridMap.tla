------------------------------ MODULE GridMap ------------------------------
(***************************************************************************)
(* The grid of occupancy values of neo_localization/GridMap.h, as pure     *)
(* operators.  A grid is a record of its sides, its scale (the side of a   *)
(* pixel, in pixels of the world it was cut from), its row-major cells and *)
(* the unit its cells are counted in: an integer cell c stands for c/unit. *)
(* Positions are integers, Sub of them to a pixel, so the fraction a float *)
(* coordinate carries is kept and every filter is exact.  The Gaussian     *)
(* coefficients are integers in nearly the ratio of the code's.            *)
(***************************************************************************)
EXTENDS Integers, Functions

CONSTANT Sub    \* positions per pixel

ASSUME SubAssumption == Sub \in Nat \ {0}

NumCells(g) == g.size_x * g.size_y

\* A grid with pixels: the array of its cells has one for each.
IsGrid(g) ==
    g \in [size_x : Nat \ {0}, size_y : Nat \ {0}, scale : Nat \ {0}, unit : Nat \ {0},
          cells : [0 .. NumCells(g) - 1 -> Int]]

Index(g, x, y) == y * g.size_x + x
At(g, x, y) == g.cells[Index(g, x, y)]

\* std::min(std::max(i, 0), n - 1), which the lookups write as ?: chains.
Clamp(i, n) ==
    LET p == IF i > 0 THEN i ELSE 0
    IN  IF p < n - 1 THEN p ELSE n - 1

\* A grid of the given sides and the cell each of its pixels gets.
Grid(sx, sy, scale, unit, Cell(_, _)) ==
    [size_x |-> sx, size_y |-> sy, scale |-> scale, unit |-> unit,
     cells |-> [i \in 0 .. sx * sy - 1 |-> Cell(i % sx, i \div sx)]]

-----------------------------------------------------------------------------
\* Bilinear access.

\* Half a pixel separates a pixel's corner from its centre.
WorldToGrid(g, meters) == meters \div g.scale - Sub \div 2

\* The conversion of a float to int drops the fraction towards zero, while
\* floorf goes down: they differ below zero.  (Slip: rounded to the nearest.)
PixelNearest(p) == (p + Sub \div 2) \div Sub
Pixel(p) == IF p >= 0 THEN p \div Sub ELSE -((-p) \div Sub)
Fraction(p) == p % Sub

\* The two pixels a coordinate lies between.  (Slip: the second unclamped.)
Low(i, n) == Clamp(i, n)
HighUnclamped(i, n) == Low(i, n) + 1
High(i, n) == IF Low(i, n) + 1 < n - 1 THEN Low(i, n) + 1 ELSE n - 1

\* The indices bilinear access reads or writes, and the weight of each.
CornerIndices(g, x, y) ==
    {Index(g, i, j) : i \in {Low(x, g.size_x), High(x, g.size_x)},
                      j \in {Low(y, g.size_y), High(y, g.size_y)}}
Weighted(g, x, y, a, b, F(_, _)) ==
    LET x0 == Low(x, g.size_x)  x1 == High(x, g.size_x)
        y0 == Low(y, g.size_y)  y1 == High(y, g.size_y)
    IN  F(Index(g, x0, y0), (Sub - a) * (Sub - b)) + F(Index(g, x1, y0), a * (Sub - b))
          + F(Index(g, x0, y1), (Sub - a) * b) + F(Index(g, x1, y1), a * b)

BilinearLookupEx(g, x, y, a, b) ==
    Weighted(g, x, y, a, b, LAMBDA i, w : w * g.cells[i])
BilinearLookup(g, px, py) ==
    BilinearLookupEx(g, Pixel(px), Pixel(py), Fraction(px), Fraction(py))

\* Adds value to the corners by weight.  (Slip: the weights swapped.)
BilinearSummationSwapped(g, px, py, value) ==
    [g EXCEPT !.cells = [i \in DOMAIN @ |-> @[i] + value *
        Weighted(g, Pixel(px), Pixel(py), Fraction(py), Fraction(px),
                 LAMBDA k, w : IF k = i THEN w ELSE 0)]]
BilinearSummation(g, px, py, value) ==
    [g EXCEPT !.cells = [i \in DOMAIN @ |-> @[i] + value *
        Weighted(g, Pixel(px), Pixel(py), Fraction(px), Fraction(py),
                 LAMBDA k, w : IF k = i THEN w ELSE 0)]]

-----------------------------------------------------------------------------
\* Gradients and filters.

Across == -1 .. 1
Slope == [i \in Across |-> i]
Curve == [i \in Across |-> IF i = 0 THEN -2 ELSE 1]
Side  == [i \in Across |-> IF i = 0 THEN 3 ELSE 2]

\* Sums the nine lookups around a position with the given coefficients.
Convolved(g, px, py, C(_, _)) ==
    SumFunction([c \in Across \X Across |->
        C(c[1], c[2]) * BilinearLookupEx(g, Pixel(px) + c[1], Pixel(py) + c[2],
                                         Fraction(px), Fraction(py))])

\* The gradient along x and y: the same coefficients with their indices
\* exchanged.  (Slip: not exchanged.)
GradientUnturned(g, px, py, K) ==
    <<Convolved(g, px, py, LAMBDA i, j : K[i] * Side[j]),
      Convolved(g, px, py, LAMBDA i, j : K[i] * Side[j])>>
Gradient(g, px, py, K) ==
    <<Convolved(g, px, py, LAMBDA i, j : K[i] * Side[j]),
      Convolved(g, px, py, LAMBDA i, j : K[j] * Side[i])>>

CalcGradient(g, px, py) == Gradient(g, px, py, Slope)
CalcGradient2(g, px, py) == Gradient(g, px, py, Curve)

\* Applies a separable kernel around pixel (x, y), the border repeated.
Filtered(g, kernel, x, y) ==
    SumFunction([t \in (DOMAIN kernel) \X (DOMAIN kernel) |->
        kernel[t[1]] * kernel[t[2]] * At(g, Clamp(x + t[1], g.size_x), Clamp(y + t[2], g.size_y))])

\* The code's ratios are 1.58 and e; 3 / 2 and 19 / 7 stand for them.
Kernel33 == [i \in -1 .. 1 |-> IF i = 0 THEN 3 ELSE 2]
Kernel44 == [i \in -1 .. 2 |-> IF i \in {0, 1} THEN 19 ELSE 7]

Smooth33(g) ==
    Grid(g.size_x, g.size_y, g.scale, 49 * g.unit, LAMBDA x, y : Filtered(g, Kernel33, x, y))

\* Half the sides, twice the scale.  (Slip: the kernel starts at the pixel.)
DownscaleShifted(g) ==
    Grid(g.size_x \div 2, g.size_y \div 2, 2 * g.scale, 2704 * g.unit,
         LAMBDA x, y : Filtered(g, Kernel44, 2 * x + 1, 2 * y + 1))
Downscale(g) ==
    Grid(g.size_x \div 2, g.size_y \div 2, 2 * g.scale, 2704 * g.unit,
         LAMBDA x, y : Filtered(g, Kernel44, 2 * x, 2 * y))
=============================================================================
