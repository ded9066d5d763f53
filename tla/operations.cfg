SPECIFICATION OperationsSpec
CONSTANTS
    ReadyQueued = 1
    ReadyRunning = 1
    ReadyLocked = 1
    MaxQueued = 0
    MaxRunning = 1
    MaxFailed = 0
    MaxLocked = 0
    MaxAttempts = 2
    MaxCount = 1
    FileKeys = {"cisco", "Cisco", "r/1"}
    Commands = {"show", "route", "bad"}
    MaxCommands = 2
INVARIANTS GoOnOwnReports FailClosed
PROPERTY ReplacedEntirely
\* The attempts are bounded.
CHECK_DEADLOCK FALSE
