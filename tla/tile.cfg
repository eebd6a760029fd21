SPECIFICATION Spec
CONSTANTS
    Sub = 4
    Worlds <- MCWorlds
    Poses <- MCPoses
    MapSize = 15
    MapDownscale = 1
    NumSmooth = 1
    Damping = 1
    MinScore = 0
    ConstrainThreshold = 1
    ConstrainThresholdYaw = 5
    Scans <- MCScans
    MatchPoses <- MCMatchPoses
    Frames <- MCFrames
INVARIANTS
    ReadsInside
    LookupInterpolatesInside
    GradientTransposes
    SummationAnswersLookup
    ObstaclesStay
    StepTurnsWithWorld
    StepClimbs
    CorridorKeepsAxis
    TileAroundRobot
    ScanIsCompensated
