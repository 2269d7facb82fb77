SPECIFICATION FairSpec
CONSTANTS
    SetUp <- MCSetUp
    Mishaps <- MCMishaps
    Capacity = 1
    MaxEvents = 2
    None = None
INVARIANTS
    TypeOK
    HistoryHonest
PROPERTIES
    StuckStageShown
