CONSTANTS
    Pids = {p1, p2, p3}
    None = None
    Junk = Junk
    Text = Text
SYMMETRY PidSymmetry
SPECIFICATION Spec
CHECK_DEADLOCK FALSE
INVARIANTS
    
    NoOrphans
    DownStops
