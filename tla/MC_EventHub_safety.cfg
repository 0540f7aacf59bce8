SPECIFICATION Spec
CONSTANTS
    Replicas = {r1}
    Gateways <- OneGateway
    Channels = {c1, c2}
    EventIds = {e1, e2}
    Cap = 2
    PageSize = 1
    Skew = 1
    Retention = 1
    MaxTime = 4
    MaxPublishes = 2
    SerialWriters = TRUE
    Ties = TRUE
SYMMETRY ChannelSymmetry
INVARIANTS
    TypeOK
    SubscribersOpen
    BufferBounded
    CaughtUpSound
    CursorSound
    ChannelOrdered
PROPERTIES
    CursorMonotone
    ImplementsLog
