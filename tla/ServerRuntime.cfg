SPECIFICATION FairSpec
CONSTANTS
    Clients = {c1, c2}
    MaxClients = 1
    RunFor = TRUE
    None = None
INVARIANTS
    
    ExitHonest
PROPERTIES
    ShutdownCompletes
CHECK_DEADLOCK FALSE
