SPECIFICATION MCSpec
CONSTANTS
    n1 = n1
    n2 = n2
    n3 = n3
    MaxArrayElements = 2
    MaxBulkLength = 1
    Beyond = 2
    Pieces = 3
    Nodes = {n1, n2, n3}
    NoNode = NoNode
    Tokens = {0, 1, 2, 3, 4, 5, 6}
    Attempts = {0, 1, 2, 3, 4, 5, 6}
    MaxVnodes = 2
    Hashes <- MCHashes
    Argvs <- MCArgvs
    DefaultNode <- MCDefaultNode
    MaxInt = 8
    MaxLong = 9
    MaxPort = 5
    Unset = Unset
    MaxSize = 12
    DefaultOps = 3
    Arguments <- MCBenchArguments
    Documents <- MCDocuments
    Latencies = {1, 4}
    NotANumber = NotANumber
    None = None
INVARIANTS
    ParsesExactly
    RingConsistent
    StartsAsTold
    
    ReportAddsUp
PROPERTIES
    KeysStay
CHECK_DEADLOCK FALSE
