SPECIFICATION FairSpec
CONSTANTS
    Robots = {r1, r2}
    None = None
    MaxGoals = 3
    MaxPoses = 2
    MaxSignals = 2
PROPERTIES
    GoalsAreMailbox
    PosesAreMailbox
    StoredGoalLeaves
