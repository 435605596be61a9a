\* Two requests for one event at the same time.
SPECIFICATION Spec
CONSTANTS
    Events = {e1}
    Acks = {a1, a2}
    MaxRetries = 1
    Publishers = {"nats"}
    Prefix <- SseAcks
    Existing <- AllOfSse
    Faults = {}
INVARIANTS OneSuccess
