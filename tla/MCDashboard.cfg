SPECIFICATION MCSpec
CONSTANTS
    MaxMounts = 2
    Handles = {w1, w2}
    None = None
    Sources = {"mock-events", "benchmark-snapshot"}
    MaxRuns = 2
    Lengths = {0, 2, 3}
    Nowhere = Nowhere
INVARIANTS
    OneStream
    ShowsLatest
PROPERTIES
    Recovers
    PlaybackEnds
CHECK_DEADLOCK FALSE
