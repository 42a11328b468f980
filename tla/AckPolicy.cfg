SPECIFICATION Spec
CONSTANTS
    ReplicaCount = 3
    MaxWrites = 3
INVARIANTS
    AckedHasMajority
    QuorumOfOwnAcks
PROPERTIES
    AckedForever
