SPECIFICATION FairSpec
CONSTANTS
    Requests = {q1}
    Controllers = {c1}
    TransitionalStatusEnabled = TRUE
    DeploymentSyncEnabled = FALSE
    HardLimit = 2
    Batch = 1
    Ms = 2
    Timeout = 2
    Ties = FALSE
    MaxTime = 8
    MaxOpTime = 4
    MaxOps = 2
    MaxFaults = 1
    MaxDeployments = 1
CHECK_DEADLOCK FALSE
PROPERTIES
    TransitionResolves
