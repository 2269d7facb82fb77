SPECIFICATION FairSpec
CONSTANTS
    docked = docked
    mowing = mowing
    None = None
    Activities <- MCActivities
    CommandCount = 2
    MaxPending = 1
    StreamCapacity = 1
    OpenTime = 0
    DiscoverTime = 4
    SelectTime = 1
    PacketTime = 1
    SshTime = 0
    CollectTime = 0
    PollPeriod = 1
    PingAfter = 0
    Patience = 4
INVARIANTS
    TypeOK
    VerdictsTrue
PROPERTIES
    KeepAlive
    ForwardedInOrder
    VerdictFinal
    CommandJudged
    ActivityCatchesUp
