SPECIFICATION Spec
CONSTANTS
    Hosts = {1, 2}
    LockTimeout = 1
    MaxTasks = 2
    Api = api
    ApiWorkers = {w1, w2}
    Standalone = {}
    Clients = {c1, c2}
    SkipLocked = TRUE
    AdminRelease = FALSE
    IoFaults = FALSE
    Prompt = TRUE
    MaxCrashes = 1
    Inventories = {}
SYMMETRY Symmetry
INVARIANTS SameHostExclusion Reservation NoLeakedLocks
PROPERTIES TerminalStable ImplementsContract
