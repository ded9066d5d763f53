SPECIFICATION FairSpec
CONSTANTS
    Hosts = {1, 2}
    LockTimeout = 1
    MaxTasks = 2
    Api = api
    ApiWorkers = {w1}
    Standalone = {}
    Clients = {c1}
    SkipLocked = FALSE
    AdminRelease = FALSE
    IoFaults = FALSE
    Prompt = TRUE
    MaxCrashes = 1
    Inventories = {}
PROPERTIES EveryTaskEnds HostsComeFree
