SPECIFICATION FairSpec
CONSTANTS
    s1 = s1
    s2 = s2
    c1 = c1
    c2 = c2
    None = None
    Slots = {s1, s2}
    Commands = {}
    QueueCapacity = 1
    StreamCapacity = 1
    MaxPending = 1
INVARIANT ReadyMeansServing
PROPERTIES
    OnlineMeansListening
    AvailabilityHeals
    OfflineWhenDown
