SPECIFICATION Spec
CONSTANTS
    Events = {e1, k1}
    KeyEvents = {k1}
    Subscribers = {s1, s2}
    Dispatchers = {d1, d2}
    Workers = {w1, w2}
    BatchSize = 2
    MaxCopies = 2
    MaxFaults = 1
    NoTx = NoTx
CHECK_DEADLOCK FALSE
SYMMETRY Symmetry
INVARIANTS
    TypeOK
    AtMostOnce
    KeyDelivered
    Settled
