SPECIFICATION FairSpec
CONSTANTS
    s1 = s1
    s2 = s2
    c1 = c1
    c2 = c2
    None = None
    Slots = {s1}
    Commands = {c1}
    QueueCapacity = 1
    StreamCapacity = 1
    MaxPending = 1
INVARIANTS
    TypeOK
    NoStoredCommand
PROPERTIES
    ReadersEnd
    PendingDrains
