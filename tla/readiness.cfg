SPECIFICATION ProbeSpec
CONSTANTS
    Hosts = {1, 2}
    LockTimeout = 0
    MaxTasks = 2
    Api = api
    ApiWorkers = {w1}
    Standalone = {}
    Clients = {c1}
    SkipLocked = FALSE
    AdminRelease = FALSE
    IoFaults = FALSE
    Prompt = TRUE
    MaxCrashes = 1
    Inventories = {}
    ListLimit = 2
    ReadyQueued = 1
    ReadyRunning = 1
    ReadyLocked = 2
    MaxQueued = 0
    MaxRunning = 1
    MaxFailed = 2
    MaxLocked = 0
INVARIANTS GoMeansQuiet OneOwnerListed
