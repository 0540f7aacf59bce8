SPECIFICATION Spec
CONSTANTS
    Replicas = {r1}
    Requests = {q1}
    MaxApis = 1
    MaxOps = 4
    MaxFaults = 0
    MaxRestarts = 0
CHECK_DEADLOCK FALSE
INVARIANTS
    RevocationComplete
