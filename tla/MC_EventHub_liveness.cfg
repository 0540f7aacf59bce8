SPECIFICATION FairSpec
CONSTANTS
    Replicas = {r1}
    Gateways <- TwoGateways
    Channels = {c1}
    EventIds = {e1}
    Cap = 1
    PageSize = 1
    Skew = 1
    Retention = 0
    MaxTime = 3
    MaxPublishes = 2
    SerialWriters = TRUE
    Ties = FALSE
PROPERTIES
    EventuallyOffered
