SPECIFICATION Spec
CONSTANTS
    Replicas = {r1}
    Requests = {q1}
    MaxApis = 2
    MaxOps = 6
    MaxFaults = 1
    MaxRestarts = 1
CHECK_DEADLOCK FALSE
INVARIANTS
    TypeOK
    ApiFollows
    KeyFollows
    KeyServed
    RevokedLeaves
