SPECIFICATION Spec
CONSTANTS
    Requests = {r1, r2}
    QueueDepth = 1
    BatchSize = 2
INVARIANT CaptureNeverFails
