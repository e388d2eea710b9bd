CONSTANTS
    MaxChunks = 2
    LocalInFlight = 2
    QueueCap = 2
    RetryLimit = 1
    ReceiveLimit = 2
    MaxOthers = 0
    Faults <- NoFaults
SPECIFICATION Spec
INVARIANTS
    RetryKeepsSession
CHECK_DEADLOCK FALSE
