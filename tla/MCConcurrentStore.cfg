SPECIFICATION Spec
CONSTANTS
    t1 = t1
    Threads = {t1, t2}
    NoThread = NoThread
    Keys = {1, 2}
    EmptyKey = 0
    Values = {v1, v2}
    Miss = Miss
    NoResult = NoResult
    Ttls <- MCTtls
    NumStripes = 2
    StripeIndexForKey <- MCStripeIndexForKey
    MaxEntries = 1
    LfuMax = 3
    MaxCalls <- TwoEach
    MaxClock = 1
SYMMETRY MCSymmetry
INVARIANTS
    CapacityRestored
    CountersExact
PROPERTIES
    ImplementsCache
