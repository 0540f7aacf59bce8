SPECIFICATION Spec
CONSTANTS
    Replicas = {r1}
    Gateways <- OneGateway
    Channels = {c1}
    EventIds = {e1, e2}
    Cap = 2
    PageSize = 1
    Skew = 2
    Retention = 3
    MaxTime = 5
    MaxPublishes = 2
    SerialWriters = FALSE
    Ties = TRUE
INVARIANTS
    CaughtUpSound
