SPECIFICATION FairSpec
CONSTANTS
    Robots = {r1, r2}
    None = None
    MaxGoals = 2
    MaxPoses = 0
    MaxSignals = 1
PROPERTIES
    LastGoalIsSent
