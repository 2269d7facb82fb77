SPECIFICATION Spec
CONSTANTS
    h1 = h1
    h2 = h2
    b1 = b1
    b2 = b2
    t1 = t1
    t2 = t2
    Hosts = {h1}
    Bindings = {b1}
    HostOf <- OneGateway
    Handlers = {t1}
    FoundStates <- AnyState
    FailingCommands <- AllButDisableRuntime
    SshMayLinger = FALSE
    PatientUser = FALSE
INVARIANT RestoreReturnsToHA
