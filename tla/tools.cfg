SPECIFICATION FairSpec
CONSTANTS
    Endpoints <- MCEndpoints
    Info <- MCInfo
    Names <- MCNames
    Resolve <- MCResolve
    lazy_ = TRUE
    QueueDepth = 1
    None = None
    x_ = 2
    y_ = 3
    delay_ = 2
    MaxMessages = 2
    GivenQos <- MCGivenQos
    OutputType = "Header"
    NoDeadline = 9
INVARIANTS
    RelayAndDelayCheckPublisher
    DropsXOfY
PROPERTIES
    NewSubscriptionConnects
    ToolLazyUnsubscribes
    ToolSourceIsSubscribed
    ScriptStartsOrEnds
    EveryTimerFires
