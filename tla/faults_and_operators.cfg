SPECIFICATION Spec
CONSTANTS
    Hosts = {1, 2}
    LockTimeout = 0
    MaxTasks = 1
    Api = api
    ApiWorkers = {w1}
    Standalone = {s1}
    Clients = {c1}
    SkipLocked = FALSE
    AdminRelease = TRUE
    IoFaults = TRUE
    Prompt = FALSE
    MaxCrashes = 1
    Inventories = {{1}}
INVARIANTS TypeOK OneWorkerPerTask LateCaptureBound ResultMatchesStatus
