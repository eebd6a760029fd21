SPECIFICATION Spec
CONSTANTS
    w1 = w1
    w2 = w2
    Worlds = {w1, w2}
    NoWorld = NoWorld
    Origin <- MCOrigin
    Places = {0}
    OdomPositions = {0, 1}
    Sensors = {s1}
    MapSize = 2
    MinStd = 1
    MaxStd = 2
    BroadcastTF = FALSE
    NsPerSec = 2
    U32 = 9
    MaxClock = 0
    MaxResets = 1
INVARIANTS
    PublishedAtOwnOrigin
