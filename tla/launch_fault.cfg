SPECIFICATION Spec
CONSTANTS
    Hosts = {1, 2}
    LockTimeout = 0
    MaxTasks = 1
    Api = api
    ApiWorkers = {w1}
    Standalone = {}
    Clients = {c1}
    SkipLocked = FALSE
    AdminRelease = FALSE
    IoFaults = TRUE
    Prompt = FALSE
    MaxCrashes = 0
    Inventories = {}
INVARIANT QueuedHoldLocks
