CONSTANTS
    MaxChunks = 2
    LocalInFlight = 2
    QueueCap = 1
    RetryLimit = 1
    ReceiveLimit = 2
    MaxOthers = 1
    Faults <- LivenessFaults
SPECIFICATION FairSpec
INVARIANTS
    SuccessMeansCommitted
PROPERTIES
    TransferReturns
CHECK_DEADLOCK FALSE
