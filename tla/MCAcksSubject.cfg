\* Redis and NATS in order; the stream is the one NewNATSPublisher creates.
SPECIFICATION FairSpec
CONSTANTS
    Events = {e1}
    Acks = {a1, a2}
    MaxRetries = 1
    Publishers = {"nats"}
    Prefix <- SseAcks
    Existing = {}
    Faults = {}
INVARIANTS NoBadGateway
