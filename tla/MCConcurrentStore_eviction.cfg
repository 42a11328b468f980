SPECIFICATION FairSpec
CONSTANTS
    t1 = t1
    Threads = {t1, t2}
    NoThread = NoThread
    Keys = {1, 2, 3}
    EmptyKey = 0
    Values = {v1}
    Miss = Miss
    NoResult = NoResult
    Ttls <- MCNoTtls
    NumStripes = 2
    StripeIndexForKey <- MCStripeIndexForKey
    MaxEntries = 2
    LfuMax = 3
    MaxCalls <- FiveAndOne
    MaxClock = 1
PROPERTIES
    EvictionBounded
    OwnWriteSurvives
    Termination
