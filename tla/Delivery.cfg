SPECIFICATION DeliverySpec
CONSTANTS
    MaxSocks = 3
    Others = {11}
    Agents = {21}
    PageSize = 2
    IdleLimit = 2
    MaxTries = 2
    Instances = {"a", "b"}
    MaxEvents = 2
    QueueMax = 1
    ClaimLimit = 2
    SeenLimits = {1, 2}
    MaxFaults = 1
INVARIANT OncePerConnection
PROPERTY ShutdownJustified RequestsSettle InputReturns OutboxDrains
CHECK_DEADLOCK FALSE
