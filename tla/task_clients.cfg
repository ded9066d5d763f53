\* The page stays open after the last answer.
CHECK_DEADLOCK FALSE
SPECIFICATION FairSpec
CONSTANTS
    MaxLines = 2
    Tails = {0, 1}
    MaxOpens = 2
    MaxCrashes = 1
    MaxTasks = 2
    MaxFlight = 3
INVARIANTS InSequence StatusIsFinal LateResumeIsWhole OneTimer PanelIsRight
PROPERTIES ClientIsTold PollingEnds
