SPECIFICATION Spec
CONSTANTS
    Requests = {q1, q2}
    Controllers = {c1}
    TransitionalStatusEnabled = TRUE
    DeploymentSyncEnabled = TRUE
    HardLimit = 3
    Batch = 1
    Ms = 2
    Timeout = 1
    Ties = FALSE
    MaxTime = 5
    MaxOpTime = 4
    MaxOps = 2
    MaxFaults = 2
    MaxDeployments = 2
CHECK_DEADLOCK FALSE
SYMMETRY RequestSymmetry
INVARIANTS
    TypeOK
    Confirmed
PROPERTIES
    FailedIsFinal
    NewRowKept
