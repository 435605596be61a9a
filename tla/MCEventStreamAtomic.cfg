\* Two streams of one client, every fault, pushes that fill the list; pipelines
\* run through.
SPECIFICATION Spec
CONSTANTS
    Pushers = {p1, p2}
    Streams = {s1, s2}
    BatchSize = 2
    MaxQueueDepth = 2
    MaxFails = 1
    MaxRetries = 0
    Atomic = TRUE
    Faults = {"redis", "push", "drain", "client", "crash"}
SYMMETRY Symmetry
INVARIANTS TypeOK AtMostOnce LossAccounted
PROPERTIES ImplementsChannel
