--------------------------------- MODULE Matrix ---------------------------------
(****************************************************************************)
(* The matrices of neo_common2/Matrix.h with integer elements, kept as the  *)
(* code keeps them, column by column.  The long formulas of inverse() are   *)
(* cofactors, written here as such; the quotient by the determinant is left *)
(* to who needs it, so that everything stays an integer.                    *)
(****************************************************************************)
EXTENDS Integers, Sequences, Functions

Item(m, k) == m.data[k + 1]
Entry(m, i, j) == Item(m, j * m.rows + i)

\* A matrix and the element each of its places gets.  (The empty sequence has
\* TLC compute the elements once.)
MatrixOf(rows, cols, E(_, _)) ==
    [rows |-> rows, cols |-> cols,
     data |-> <<>> \o [k \in 1 .. rows * cols |-> E((k - 1) % rows, (k - 1) \div rows)]]

\* From a list in reading order.
FromList(rows, cols, list) == MatrixOf(rows, cols, LAMBDA i, j : list[i * cols + j + 1])

Column(list) == FromList(Len(list), 1, list)

Identity(n) == MatrixOf(n, n, LAMBDA i, j : IF i = j THEN 1 ELSE 0)

\* The rows x cols block at (i0, j0).
Get(m, rows, cols, i0, j0) == MatrixOf(rows, cols, LAMBDA i, j : Entry(m, i + i0, j + j0))

\* From homogeneous coordinates, where the last one divides.
Project(v) ==
    LET w == Item(v, v.rows - 1)
    IN  MatrixOf(v.rows - 1, 1, LAMBDA i, j : IF w = 1 THEN Item(v, i) ELSE Item(v, i) \div w)

Dot(a, b) == SumFunction([k \in DOMAIN a.data |-> a.data[k] * b.data[k]])
SquaredNorm(m) == Dot(m, m)

Times(a, b) ==
    MatrixOf(a.rows, b.cols,
             LAMBDA i, j : SumFunction([k \in 0 .. a.cols - 1 |-> Entry(a, i, k) * Entry(b, k, j)]))
Scale(m, value) == MatrixOf(m.rows, m.cols, LAMBDA i, j : value * Entry(m, i, j))
Plus(a, b)  == MatrixOf(a.rows, a.cols, LAMBDA i, j : Entry(a, i, j) + Entry(b, i, j))
Minus(a, b) == Plus(a, Scale(b, -1))

-----------------------------------------------------------------------------
\* inverse()

\* Without row i and column j.
Without(m, i, j) ==
    MatrixOf(m.rows - 1, m.cols - 1,
             LAMBDA k, l : Entry(m, IF k < i THEN k ELSE k + 1, IF l < j THEN l ELSE l + 1))
Sign(i, j) == IF (i + j) % 2 = 0 THEN 1 ELSE -1

\* Determinants of the sides that inverse() has formulas for, along a row.
Expansion(m, D(_)) ==
    SumFunction([j \in 0 .. m.cols - 1 |-> Sign(0, j) * Entry(m, 0, j) * D(Without(m, 0, j))])
Det1(m) == Item(m, 0)
Det2(m) == Expansion(m, Det1)
Det3(m) == Expansion(m, Det2)
Det4(m) == Expansion(m, Det3)
Determinant(m) ==
    CASE m.rows = 1 -> Det1(m) [] m.rows = 2 -> Det2(m) [] m.rows = 3 -> Det3(m)
      [] m.rows = 4 -> Det4(m)

\* The determinant times the inverse.
Adjugate(m) ==
    MatrixOf(m.rows, m.cols, LAMBDA i, j : Sign(i, j) * Determinant(Without(m, j, i)))

\* The inverse of a matrix whose determinant is 1, as that of a transformation.
Inverted(m) == Adjugate(m)
=============================================================================
