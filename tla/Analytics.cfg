SPECIFICATION FairSpec
CONSTANTS
    Requests = {r1, r2, r3, r4}
    QueueDepth = 2
    BatchSize = 2
INVARIANTS
    CloseFlushes
PROPERTIES
    BestEffort
    ShutdownGetsPastTheFlush
    QueuedEventsLeave
