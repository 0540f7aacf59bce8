SPECIFICATION Spec
CONSTANTS
    Conns = {c1, c2}
    MaxConnections = 2
    MaxSubs = 2
    MaxFaults = 1
CHECK_DEADLOCK FALSE
SYMMETRY ConnSymmetry
CONSTRAINT Explored
INVARIANTS
    TypeOK
    CountExact
    ConnectedIsServed
    ListedIsWatched
    InactiveWhenGone
