SPECIFICATION Spec
CONSTANTS
    h1 = h1
    h2 = h2
    b1 = b1
    b2 = b2
    t1 = t1
    t2 = t2
    Hosts = {h1, h2}
    Bindings = {b1, b2}
    HostOf <- TwoGateways
    Handlers = {t1}
    FoundStates <- InService
    FailingCommands <- BlindToPublisher
    SshMayLinger = FALSE
    PatientUser = FALSE
INVARIANTS
    TypeOK
    OneController
    JournalBlocksWorker
    OneDeployment
PROPERTIES
    JournalDroppedWhenStopped
    OwnershipSpec
