SPECIFICATION FairSpec
CONSTANTS
    path = path
    restore = restore
    programs = programs
    r1 = r1
    r2 = r2
    None = None
    Triggers <- OneTrigger
    Services <- OneService
    Activates <- PathStartsRestore
    Items <- OneItem
    Scripts = {r1, r2}
INVARIANTS
    TypeOK
    NothingLost
    CompleteIsFinal
PROPERTIES
    MovesWhenStopped
    CleanupResumes
