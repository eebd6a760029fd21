-------------------------------- MODULE TileMatch --------------------------------
(****************************************************************************)
(* Scan matching on the tiles of MapTile: the tile is cut around a robot    *)
(* whose pose comes from odometry and offset, its cells are read for the    *)
(* points of a scan, and the outcome becomes an offset again.               *)
(****************************************************************************)
EXTENDS MapTile, Sequences

CONSTANTS
    Damping, MinScore, ConstrainThreshold, ConstrainThresholdYaw,
    Scans,          \* scans, as sequences of points
    MatchPoses,     \* poses on the tile, in pixels (a bound)
    Frames          \* poses of maps, odometry and sensors (a bound)

ASSUME MatchAssumption ==
    /\ Damping \in Nat \ {0}
    /\ MinScore \in Nat /\ ConstrainThreshold \in Nat /\ ConstrainThresholdYaw \in Nat
\* (loc_update leaves a scan of less than min_points points alone.)
ASSUME InputsAssumption ==
    /\ Scans \subseteq Seq(Int \X Int) \ {<<>>}
    /\ MatchPoses \subseteq Int \X Int \X Int /\ Frames \subseteq Int \X Int \X Int

\* The solver at whole pixels, where no lookup has to interpolate.
M == INSTANCE ScanMatch WITH Sub <- 1

Fresh == pc = AfterCut /\ count = 0
Column3(pose) == M!Column(pose)

-----------------------------------------------------------------------------
\* After a pose estimate the robot is where it says: on the map the tile is cut
\* from, and on the tile, in its middle pixel; and the offset of a match puts it
\* where on the tile it was matched.  pose_callback(), update_map() and, twice,
\* loc_update() each convert with their own product of frames.
Alike(a, b) ==
    M!Item(a, 0) = M!Item(b, 0) /\ M!Item(a, 1) = M!Item(b, 1) /\ (M!Item(a, 2) - M!Item(b, 2)) % 4 = 0
TileAroundRobot ==
    Fresh => \A f, l \in Frames, x, y \in Poses, yaw \in 0 .. 3 :
        Origin(x) = tile.x /\ Origin(y) = tile.y =>
            LET W == M!ConvertTransform25(Column3(f))
                L == M!ConvertTransform25(Column3(l))
                pose == Column3(<<x, y, yaw>>)
                estimate == M!PoseOf(M!Times(W, M!Transform25(pose)))
                offset == M!NewOffset(M!ConvertTransform25(estimate), L)
                G == M!TileFrame(W, tile.x * Sub, tile.y * Sub)
            IN  /\ Alike(M!WorldPose(W, offset, L), pose)
                /\ Alike(M!GridPose(G, offset, L),
                         Column3(<<x - tile.x * Sub, y - tile.y * Sub, yaw>>))
                /\ \A best \in MatchPoses :
                     M!GridPose(G, M!NewOffset(M!Times(G, M!Transform25(Column3(best))), L), L)
                       = Column3(best)

\* A scan is matched where it was taken, however far the robot has driven since:
\* the pixel a point is looked up at does not depend on the odometry by then.
ScanIsCompensated ==
    Fresh => \A offset, l, now \in Frames, scan \in Scans :
        LET S == M!ConvertTransform3(Column3(offset))
            G == M!TileFrame(M!Identity(4), tile.x, tile.y)
            Seen(at) ==
                LET Now == M!ConvertTransform25(Column3(at))
                    p == M!Converted(scan[1], S, M!ConvertTransform25(Column3(l)), Now)
                IN  M!ToGrid(M!GridPose(G, Column3(offset), Now),
                             <<M!Item(p, 0), M!Item(p, 1)>>)
        IN  Seen(now) = Seen(l)

\* A step of the solver climbs: the Hessian with its damping can be inverted,
\* the step solves it, and it does not go against the gradient.
Climbs ==
    \A pose \in MatchPoses, scan \in Scans :
        LET at == Column3(pose)
            step == M!Step(map, scan, at)
            gradient == M!GradientVector(map, scan, at)
        IN  /\ step.det > 0
            /\ M!Dot(gradient, step.x) >= 0
            /\ M!Times(M!Damped(M!Hessian(map, scan, at)), step.x)
                 = M!Scale(gradient, step.det)
StepClimbs == Fresh => Climbs

\* Turning map and robot by a quarter turns the step: at whole pixels, neither
\* axis nor any heading is treated differently.  (Between pixels below zero it
\* would be: the conversion to int does not follow floorf there.)
Turned == Grid(map.size_y, map.size_x, map.scale, map.unit,
               LAMBDA x, y : At(map, y, map.size_y - 1 - x))
TurnedPose(pose) == <<map.size_y - 1 - pose[2], pose[1], pose[3] + 1>>
TurnsWithWorld ==
    LET turned == Turned IN \A pose \in MatchPoses, scan \in Scans :
        LET here == M!Step(map, scan, Column3(pose))
            there == M!Step(turned, scan, Column3(TurnedPose(pose)))
        IN  there.det = here.det /\ there.x = M!Times(M!Rotate2(1), here.x)
StepTurnsWithWorld == Fresh => TurnsWithWorld

\* Along a wall there is nothing to tell places apart: on a tile that does not
\* change in one direction no update moves the robot in that direction,
\* whichever sample the solver prefers.
KeepsAxis ==
    \A pose, best \in MatchPoses, scan \in Scans :
        LET matched == M!Matched(map, scan, Column3(pose), Column3(best),
                                 M!SquaredScore(map, scan, Column3(best)))
        IN  /\ (\A i \in DOMAIN map.cells : map.cells[i] = At(map, 0, i \div map.size_x))
                 => M!Item(matched, 0) = pose[1]
            /\ (\A i \in DOMAIN map.cells : map.cells[i] = At(map, i % map.size_x, 0))
                 => M!Item(matched, 1) = pose[2]
CorridorKeepsAxis == Fresh => KeepsAxis
=============================================================================
