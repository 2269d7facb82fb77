SPECIFICATION FairSpec
CONSTANTS
    r1 = r1
    r2 = r2
    Mower = Mower
    None = None
    Resources = {r1, r2}
    Snapshots <- OneMayVanish
INVARIANTS
    TypeOK
    OriginalsKept
PROPERTIES
    EntitiesBeforePublisher
    OnlineWhenPublished
    RollbackWorks
    OfflineWithoutControl
