SPECIFICATION Spec
CONSTANTS
    Requests = {q1}
    Controllers = {c1, c2}
    TransitionalStatusEnabled = FALSE
    DeploymentSyncEnabled = FALSE
    HardLimit = 2
    Batch = 1
    Ms = 2
    Timeout = 2
    Ties = FALSE
    MaxTime = 6
    MaxOpTime = 6
    MaxOps = 4
    MaxFaults = 0
    MaxDeployments = 3
CHECK_DEADLOCK FALSE
SYMMETRY ControllerSymmetry
INVARIANTS
    ConvergedWhenQuiet
    LimitHolds
PROPERTIES
    CurrentKept
