\* The reply of a drain is lost and go-redis drains again.
SPECIFICATION Spec
CONSTANTS
    Pushers = {p1}
    Streams = {s1}
    BatchSize = 1
    MaxQueueDepth = 2
    MaxFails = 2
    MaxRetries = 1
    Atomic = TRUE
    Faults = {"drain"}
INVARIANTS LossAccounted
