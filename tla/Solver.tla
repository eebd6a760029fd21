--------------------------------- MODULE Solver ---------------------------------
(****************************************************************************)
(* One step of the scan matching of neo_localization/Solver.h, exact.       *)
(* Points are pairs in the units of positions, a scan is a sequence of      *)
(* them; the step is kept as a vector and the number that divides it, and   *)
(* the gain that scales it is left out.                                     *)
(****************************************************************************)
EXTENDS GridMap, Util

CONSTANT Damping    \* damping

SumOver(points, F(_)) == SumFunction([k \in DOMAIN points |-> F(k)])

\* Where the grid is read for a point of the scan of a robot at this pose.
ToGrid(pose, p) == Project(Times(Transform2(pose), Column(<<p[1], p[2], 1>>)))
ReadAt(g, pose, p, Read(_, _, _)) ==
    LET q == ToGrid(pose, p)
    IN  Read(g, WorldToGrid(g, Item(q, 0)), WorldToGrid(g, Item(q, 1)))

Residual(g, pose, p) == ReadAt(g, pose, p, BilinearLookup)

\* How the residual changes with x, y and yaw.  (Slip: the point not turned.)
JacobianUnturned(g, pose, p) ==
    LET d == ReadAt(g, pose, p, CalcGradient)
    IN  Column(<<d[1], d[2], d[2] * p[1] - d[1] * p[2]>>)
Jacobian(g, pose, p) ==
    LET d == ReadAt(g, pose, p, CalcGradient)
        sin == Sin(Item(pose, 2))
        cos == Cos(Item(pose, 2))
    IN  Column(<<d[1], d[2],
                 d[1] * (-sin * p[1] - cos * p[2]) + d[2] * (cos * p[1] - sin * p[2])>>)

\* reset() and integrate() over the points: G and H, from the Jacobians and the
\* residuals of the points.
Jacobians(g, points, pose) == <<>> \o [k \in DOMAIN points |-> Jacobian(g, pose, points[k])]
Residuals(g, points, pose) == <<>> \o [k \in DOMAIN points |-> Residual(g, pose, points[k])]
SumG(J, r) == MatrixOf(3, 1, LAMBDA i, j : SumOver(J, LAMBDA k : Item(J[k], i) * r[k]))
SumH(J) == MatrixOf(3, 3, LAMBDA i, j : SumOver(J, LAMBDA k : Item(J[k], i) * Item(J[k], j)))
GradientVector(g, points, pose) == SumG(Jacobians(g, points, pose), Residuals(g, points, pose))
Hessian(g, points, pose) == SumH(Jacobians(g, points, pose))

\* The sum that r_norm is the root mean square of.
SquaredScore(g, points, pose) ==
    SumOver(points, LAMBDA k : Residual(g, pose, points[k]) * Residual(g, pose, points[k]))

\* update()  (Slip: without damping.)
DampedNot(H) == H
Damped(H) == Plus(H, Scale(Identity(3), Damping))
Solution(H, G) == [x |-> Times(Adjugate(H), G), det |-> Determinant(H)]
Step(g, points, pose) ==
    Solution(Damped(Hessian(g, points, pose)), GradientVector(g, points, pose))

-----------------------------------------------------------------------------
\* compute_virtual_scan_covariance_xyw(), times the number of points: the second
\* derivatives along x, y and yaw, where the angle dir of a point is that of its
\* vector from the robot.
Curvature(g, pose, p) ==
    LET dd == ReadAt(g, pose, p, CalcGradient2)
        v  == Minus(ToGrid(pose, p), Get(pose, 2, 1, 0, 0))
    IN  <<dd[1], dd[2], Item(v, 1) * dd[1] + Item(v, 0) * dd[2]>>
Covariance(D) ==
    LET Sum(i, j) == SumOver(D, LAMBDA k : D[k][i] * D[k][j])
    IN  FromList(3, 3, <<Sum(1, 1), Sum(1, 2), 0,
                         Sum(2, 1), Sum(2, 2), 0,
                         0,         0,         Sum(3, 3)>>)
VirtualScanCovariance(g, points, pose) ==
    Covariance(<<>> \o [k \in DOMAIN points |-> Curvature(g, pose, points[k])])
=============================================================================
