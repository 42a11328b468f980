SPECIFICATION MCSpec
CONSTANTS
    k1 = k1
    k2 = k2
    c1 = c1
    c2 = c2
    c3 = c3
    c4 = c4
    None = None
    Calls = {c1, c2, c3, c4}
    Keys = {k1, k2}
    Needs <- Chain
    Bursts <- MCBursts
    KeyOf <- MCKeyOf
INVARIANTS
    SingleFlight
    FreshAnswer
PROPERTIES
    EveryoneAnswered
    MeasurementEnds
CHECK_DEADLOCK FALSE
