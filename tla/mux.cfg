SPECIFICATION FairSpec
CONSTANTS
    Endpoints <- MCEndpoints
    Info <- MCMuxInfo
    Names <- MCMuxNames
    Resolve <- MCMuxResolve
    lazy_ = FALSE
    QueueDepth = 1
    None = None
    NoneTopic = "__none"
    InitialTopics = {"a", "b"}
INVARIANTS
    SelectedIsListed
    ForwardsSelected
PROPERTIES
    FreshSubscriptionConnects
    SelectedIsSubscribed
