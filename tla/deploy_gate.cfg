SPECIFICATION Spec
CONSTANTS
    ReadyQueued = 1
    ReadyRunning = 1
    ReadyLocked = 1
    MaxQueued = 0
    MaxRunning = 1
    MaxFailed = 0
    MaxLocked = 0
    MaxAttempts = 1
    MaxCount = 0
INVARIANT GoPassedDeployGate
CHECK_DEADLOCK FALSE
