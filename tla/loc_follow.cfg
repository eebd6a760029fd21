SPECIFICATION FairSpec
CONSTANTS
    w1 = w1
    w2 = w2
    Worlds = {w1, w2}
    NoWorld = NoWorld
    Origin <- MCOrigin
    Places = {0}
    OdomPositions = {0}
    Sensors = {s1}
    MapSize = 2
    MinStd = 1
    MaxStd = 2
    BroadcastTF = TRUE
    NsPerSec = 2
    U32 = 9
    MaxClock = 1
    MaxResets = 3
PROPERTIES
    UpdateRestartsExpiry
    ImplementsTileService
    TileFollows
    VisualisationFollows
