SPECIFICATION FairSpec
CONSTANTS
    a = a
    b = b
    None = None
    Threads = {t1, t2}
    Nodes = {a, b}
    Shards = {s1, s2}
    ReplicaLists <- TwoLists
    Times = {1, 2}
INVARIANTS
    LeadersAlive
    LeaderlessExcused
PROPERTIES
    StableLeader
    FailoverCompletes
