SPECIFICATION Spec
CONSTANTS
    Profiles = {{"version"}}
    Colliding = {}
    Texts = {"text", "empty"}
    Markers = {}
    MaxCaptures = 2
    MaxCrashes = 0
    StorageFaults = FALSE
INVARIANT EqualIsIdentical
