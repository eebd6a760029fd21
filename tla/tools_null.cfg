SPECIFICATION Spec
CONSTANTS
    Endpoints <- MCEndpoints
    Info <- MCInfo
    Names <- MCNames
    Resolve <- MCResolve
    lazy_ = FALSE
    QueueDepth = 1
    None = None
    x_ = 2
    y_ = 3
    delay_ = 2
    MaxMessages = 2
    GivenQos <- MCGivenQos
    OutputType = "Header"
    NoDeadline = 9
INVARIANTS
    NoNullPublish
