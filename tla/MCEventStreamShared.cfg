\* Two streams of one client, pushes at the cap, lost replies; pipelines
\* interleave and are repeated.
SPECIFICATION Spec
CONSTANTS
    Pushers = {p1, p2, p3}
    Streams = {s1, s2}
    BatchSize = 1
    MaxQueueDepth = 1
    MaxFails = 1
    MaxRetries = 1
    Atomic = FALSE
    Faults = {"drain"}
SYMMETRY Symmetry
INVARIANTS StreamOrder QueueBounded
