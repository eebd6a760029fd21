SPECIFICATION FairSpec
CONSTANTS
    Drives = {TRUE, FALSE}
    max_backup_dist = 0
    trans_stopped_vel = 1
    emergency_acc_lim_x = 2
    max_vel_trans = 2
    pos_x_gain = 1
    Axes <- AlongX
    Limits <- TwoLimits
    None = None
    StartVel = {1, 3}
    Obstacles = {0, 1}
    PosErrors <- MCBehind
    Costs = {1}
    Controls <- MCControls
CHECK_DEADLOCK FALSE
INVARIANTS
    TypeOK
PROPERTIES
    KeepsAcceleration
    StopsForward
    NoBackingUpOnPath
    SlowsForObstacles
