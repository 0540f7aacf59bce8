SPECIFICATION Spec
CONSTANTS
    Requests = {q1}
    Controllers = {c1}
    TransitionalStatusEnabled = FALSE
    DeploymentSyncEnabled = TRUE
    HardLimit = 4
    Batch = 1
    Ms = 2
    Timeout = 1
    Ties = FALSE
    MaxTime = 6
    MaxOpTime = 6
    MaxOps = 3
    MaxFaults = 0
    MaxDeployments = 2
CHECK_DEADLOCK FALSE
INVARIANTS
    UndeployedNotServed
