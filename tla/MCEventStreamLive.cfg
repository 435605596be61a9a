\* One client that leaves, stops reading and comes back; a Redis that fails; a
\* push that is repeated, so two entries.
SPECIFICATION FairSpec
CONSTANTS
    Pushers = {p1}
    Streams = {s1}
    BatchSize = 1
    MaxQueueDepth = 2
    MaxFails = 2
    MaxRetries = 1
    Atomic = TRUE
    Faults = {"redis", "push", "client"}
PROPERTIES EventuallySettled StreamEnds
