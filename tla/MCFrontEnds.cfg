SPECIFICATION Spec
CONSTANTS
    MaxArrayElements = 4
    MaxBulkLength = 2
    Clients = {1, 2}
    Workloads <- MCWorkloads
    MaxChunk = 16
    MaxFrame = 15
    Radix = 2
    Digits = 2
INVARIANTS
    InStep
    
    ServedInFull
    ScrapesSound
CHECK_DEADLOCK FALSE
