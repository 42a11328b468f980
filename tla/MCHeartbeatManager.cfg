SPECIFICATION Spec
CONSTANTS
    Managers = {m1, m2}
    Nodes = {n1}
    Times = {0, 1, 2}
    MaxInFlight = 1
SYMMETRY MCSymmetry
INVARIANTS
    LatestWins
    HeartbeatsAreReal
    GossipSettles
