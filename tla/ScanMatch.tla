-------------------------------- MODULE ScanMatch --------------------------------
(****************************************************************************)
(* The geometry of neo_localization_node.cpp: from odometry, offset and     *)
(* tile frame to the pose in the tile, from a scan to points around the     *)
(* base, from a matched pose back to an offset.  Which sample the solver's  *)
(* iterations end in is left open, as in NeoLocalization; here it is        *)
(* followed what is done with it.                                           *)
(****************************************************************************)
EXTENDS Solver

CONSTANTS MinScore, ConstrainThreshold, ConstrainThresholdYaw    \* parameters of the node

Zero == Column(<<0, 0, 0, 1>>)
PoseOf(m) == Project(Times(m, Zero))

\* From odom to map.
OdomToMap(offset) == Transform25(offset)

\* Where the robot is on the world map, and on a tile with the given frame.
WorldPose(W, offset, L) == PoseOf(Times(Times(Inverted(W), OdomToMap(offset)), L))
GridPose(G, offset, L)  == PoseOf(Times(Times(Inverted(G), OdomToMap(offset)), L))

\* m_grid_to_map of a tile whose first pixel is at (x, y) of the world map.
\* (Slip: the tile is moved in the map frame.)
TileFrameMoved(W, x, y) == Times(Translate25(x, y), W)
TileFrame(W, x, y) == Times(W, Translate25(x, y))

\* The offset by which the robot is where M says: M is a pose estimate, or the
\* frame of the tile times a pose in it.
NewOffset(M, L) == PoseOf(Times(M, Inverted(L)))

\* A scan point in the frame the base has now: seen by the sensor at S of the
\* base when the odometry was L, which by now is Now.  (Slip: the odometry of
\* the scan is not asked for.)
ConvertedLate(p, S, L, Now) == Project(Times(S, Column(<<p[1], p[2], 0, 1>>)))
Converted(p, S, L, Now) ==
    Project(Times(Times(Times(Inverted(Now), L), S), Column(<<p[1], p[2], 0, 1>>)))

-----------------------------------------------------------------------------
\* What of a match is used: 3 all, 2 one direction and the rotation, 1 one
\* direction, 0 nothing.
Mode(squaredScore, cov, eigen, n) ==
    IF \/ squaredScore <= n * MinScore * MinScore
       \/ eigen.values[1] <= 2 * n * ConstrainThreshold * ConstrainThreshold THEN 0
    ELSE IF eigen.values[2] > 2 * n * ConstrainThreshold * ConstrainThreshold THEN 3
    ELSE IF Entry(cov, 2, 2) > n * ConstrainThresholdYaw * ConstrainThresholdYaw THEN 2
    ELSE 1

\* best moved back to the line through predicted along the first eigenvector.
\* (Slip: along the second one.)
OnLineWeakest(predicted, best, vectors) ==
    LET v == vectors[2]
        along == Dot(v, Minus(Get(best, 2, 1, 0, 0), Get(predicted, 2, 1, 0, 0)))
    IN  Column([k \in 1 .. 2 |-> predicted.data[k] + (along * v.data[k]) \div SquaredNorm(v)])
OnLine(predicted, best, vectors) ==
    LET v == vectors[1]
        along == Dot(v, Minus(Get(best, 2, 1, 0, 0), Get(predicted, 2, 1, 0, 0)))
    IN  Column([k \in 1 .. 2 |-> predicted.data[k] + (along * v.data[k]) \div SquaredNorm(v)])

\* What is used of the best sample.
Used(cov, eigen, n, predicted, best, squaredScore) ==
    LET mode == Mode(squaredScore, cov, eigen, n)
        xy   == IF mode < 3 THEN OnLine(predicted, best, eigen.vectors) ELSE best
    IN  IF mode = 0 THEN predicted
        ELSE Column(<<Item(xy, 0), Item(xy, 1), IF mode < 2 THEN Item(predicted, 2) ELSE Item(best, 2)>>)

\* The pose on the tile that a location update goes to, from the predicted one
\* and the best sample with its score; the filter moves the offset towards it.
Matched(g, points, predicted, best, squaredScore) ==
    LET cov == VirtualScanCovariance(g, points, best)
    IN  Used(cov, Eigen(Get(cov, 2, 2, 0, 0)), Len(points), predicted, best, squaredScore)
=============================================================================
