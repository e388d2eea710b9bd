CONSTANTS
    MaxChunks = 4
    LocalInFlight = 4
    QueueCap = 2
    RetryLimit = 1
    ReceiveLimit = 2
    MaxOthers = 0
    Faults <- SafetyFaults
SPECIFICATION Spec
INVARIANTS
    TypeOK
    AckMeansWritten
    PendingIsSentUnacked
    QueueNeverFull
    WriterFinalised
PROPERTIES
    ImplementsDelivery
CONSTRAINT LongOnesRetriedLess
CHECK_DEADLOCK FALSE
