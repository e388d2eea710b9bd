CONSTANTS
    MaxChunks = 1
    LocalInFlight = 1
    QueueCap = 1
    RetryLimit = 0
    ReceiveLimit = 1
    MaxOthers = 0
    Faults <- DisconnectFault
SPECIFICATION Spec
INVARIANT DisconnectEndsWriter
CHECK_DEADLOCK FALSE
