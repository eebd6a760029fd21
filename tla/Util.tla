---------------------------------- MODULE Util ----------------------------------
(****************************************************************************)
(* Transformations and statistics of neo_localization/Util.h and Convert.h. *)
(* Angles are quarter turns, so that sines and cosines are integers; a pose *)
(* is a column of x, y and yaw.                                             *)
(****************************************************************************)
EXTENDS Matrix

Cos(rad) == <<1, 0, -1, 0>>[(rad % 4) + 1]
Sin(rad) == <<0, 1, 0, -1>>[(rad % 4) + 1]

\* In the plane ...
Rotate2(rad) == FromList(3, 3, <<Cos(rad), -Sin(rad), 0,
                                 Sin(rad),  Cos(rad), 0,
                                 0,         0,        1>>)
Translate2(x, y) == FromList(3, 3, <<1, 0, x,
                                     0, 1, y,
                                     0, 0, 1>>)
Transform2(pose) == Times(Translate2(Item(pose, 0), Item(pose, 1)), Rotate2(Item(pose, 2)))

\* ... and with the yaw as a third coordinate that angles are added to.
\* (Slip: it stays zero, as in a rotation in space.)
Rotate3(rad) == FromList(4, 4, <<Cos(rad), -Sin(rad), 0, 0,
                                 Sin(rad),  Cos(rad), 0, 0,
                                 0,         0,        1, 0,
                                 0,         0,        0, 1>>)
Rotate25(rad) == FromList(4, 4, <<Cos(rad), -Sin(rad), 0, 0,
                                  Sin(rad),  Cos(rad), 0, 0,
                                  0,         0,        1, rad,
                                  0,         0,        0, 1>>)
Translate25(x, y) == FromList(4, 4, <<1, 0, 0, x,
                                      0, 1, 0, y,
                                      0, 0, 1, 0,
                                      0, 0, 0, 1>>)
Transform25(pose) == Times(Translate25(Item(pose, 0), Item(pose, 1)), Rotate25(Item(pose, 2)))

\* tf2::getYaw() of a level rotation.
GetYaw(rad) == ((rad + 1) % 4) - 1

\* Transforms of tf, level ones, as matrices.
ConvertTransform25(pose) == Transform25(Column(<<Item(pose, 0), Item(pose, 1), GetYaw(Item(pose, 2))>>))
ConvertTransform3(pose) == Times(Translate25(Item(pose, 0), Item(pose, 1)), Rotate3(Item(pose, 2)))

-----------------------------------------------------------------------------
\* The square root, rounded down to an integer.
Root(n) == CHOOSE r \in 0 .. n : r * r <= n /\ n < (r + 1) * (r + 1)

\* compute_eigenvectors_2(): twice the eigenvalues, in descending order, and a
\* vector along each eigenvector.  The last branch of the code, which orders
\* them, finds them ordered.
Eigen(mat) ==
    LET a == Entry(mat, 0, 0)  b == Entry(mat, 0, 1)
        c == Entry(mat, 1, 0)  d == Entry(mat, 1, 1)
        root == Root((a + d) * (a + d) - 4 * (a * d - c * b))
        Longer(u, v) == IF SquaredNorm(u) > SquaredNorm(v) THEN u ELSE v
        Vector(value) == Longer(Column(<<-2 * b, 2 * a - value>>), Column(<<2 * d - value, -2 * c>>))
        values == <<a + d + root, a + d - root>>
    IN  [values  |-> values,
         vectors |-> IF root > 0 THEN <<Vector(values[1]), Vector(values[2])>>
                     ELSE <<Column(<<1, 0>>), Column(<<0, 1>>)>>]
=============================================================================
