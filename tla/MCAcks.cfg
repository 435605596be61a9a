\* Two ACKs of one event at instances with and without NATS, every fault, keys that lapse,
\* instances that die.
SPECIFICATION FairSpec
CONSTANTS
    Events = {e1}
    Acks = {a1, a2}
    MaxRetries = 2
    Publishers = {"nats", "log"}
    Prefix <- SseAcks
    Existing <- AllOfSse
    Faults = {"redis", "nats", "ttl", "crash"}
INVARIANTS TypeOK AnsweredMeansPublished PublishedWasDelivered DuplicateRejected NotFoundIsRecorded
PROPERTIES AckAnswered
