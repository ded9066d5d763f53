SPECIFICATION Spec
CONSTANTS
    Hosts = {1, 2}
    LockTimeout = 1
    MaxTasks = 2
    Api = api
    ApiWorkers = {w1, w2}
    Standalone = {}
    Clients = {c1}
    SkipLocked = FALSE
    AdminRelease = FALSE
    IoFaults = FALSE
    Prompt = FALSE
    MaxCrashes = 0
    Inventories = {}
INVARIANT SameHostExclusion
