\* A page that is shown is not shown again.
CHECK_DEADLOCK FALSE
SPECIFICATION ComparisonSpec
CONSTANTS
    Profiles = {{"version"}, {"route", "route:"}}
    Colliding = {"route", "route:"}
    Texts = {"text"}
    Markers = {"available"}
    MaxCaptures = 2
    MaxCrashes = 1
    StorageFaults = TRUE
    Omitted = omitted
    Lines = {"a", "b"}
    MaxLines = 3
    MaxSegments = 3
    MaxChars = 3
    MaxContext = 2
INVARIANTS OkHostIsOnFile TornHasCause TimestampNotOlder NotCapturedIsTrue IdenticalIsTrue SidesAreWhole ContextIsKept CollapseIsVisible ChangesBeginOnScreen
