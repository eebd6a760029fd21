SPECIFICATION Spec
CONSTANTS
    Endpoints <- MCOneEndpoint
    Info <- MCInfo
    Names <- MCNames
    Resolve <- MCResolve
    lazy_ = FALSE
    QueueDepth = 1
    None = None
    period_ = 2
    bytes_per_sec_ = 3
    window_ = 1
    Sizes = {1, 2}
    MaxTime = 3
INVARIANTS
    KeepsMessageRate
    KeepsWindowLimit
