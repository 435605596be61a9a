------------------------------- MODULE Acks -------------------------------
(***************************************************************************)
(* Acknowledgements of one client: POST /v1/ack (V1AckEvent), the          *)
(* in-flight registry in Redis (an in-flight and an acked key per event)   *)
(* and the publisher: a NATS JetStream stream, or the log of an instance   *)
(* that found no NATS when it started and never looks again.               *)
(*                                                                         *)
(* Validate is two separate EXISTS, MarkAcked a pipeline of SET and DEL:   *)
(* steps of other requests come in between.                                *)
(***************************************************************************)
EXTENDS Integers, Sequences, FiniteSets

CONSTANTS
    Events,      \* event ids
    Acks,        \* ACK requests, each made at most once
    MaxRetries,  \* NATS.MaxRetries: publish attempts after the first
    Publishers,  \* what instances publish with: "nats", "log"
    Prefix,      \* NATS.SubjectPrefix, as a sequence of tokens
    Existing,    \* subject filters of the stream the publisher finds when it
                 \* starts; {} when there is none
    Faults       \* "redis": commands that do not reach Redis;
                 \* "nats": publishes that fail or whose PubAck is lost,
                 \*         and a NATS connection that comes and goes;
                 \* "ttl": registry keys whose 72 hours run out;
                 \* "crash": instances that die while they serve a request

ASSUME AckRetryAssumption == MaxRetries \in Nat
ASSUME PublishersAssumption == Publishers \subseteq {"nats", "log"}
ASSUME AckFaultsAssumption == Faults \subseteq {"redis", "nats", "ttl", "crash"}

VARIABLES
    inflight,   \* events with an in-flight key
    acked,      \* events with an acked key
    lapsed,     \* <<key, e>>: the "inflight" or "acked" key of e ran out once
    delivered,  \* events that were ever put in the registry
    published,  \* published[e]: ACK records for e in the NATS stream
    logged,     \* events with an ACK record handed to the log of some instance
    nats,       \* the NATS connection is open
    ack         \* ack[a]: the state of a request

vars == <<inflight, acked, lapsed, delivered, published, logged, nats, ack>>

(***************************************************************************)
(* A request: where it is, its event, the publisher of the instance it     *)
(* reaches, publish attempts that failed, its response, and what the event *)
(* was when the request came in: never delivered, delivered, or            *)
(* acknowledged with 200 and marked.                                       *)
(***************************************************************************)
AckStates ==
    [pc : {"new", "validate", "validating", "publish", "mark", "marking", "marked", "done", "dead"},
     event : Events, via : Publishers, tries : 0..MaxRetries, code : {0, 200, 400, 404, 409, 500, 502, 503},
     saw : {"nothing", "delivered", "settled"}]

(***************************************************************************)
(* The type invariant; a request is done when, and only when, it has been  *)
(* answered.                                                               *)
(***************************************************************************)
TypeOK ==
    /\ inflight \subseteq Events
    /\ acked \subseteq Events
    /\ lapsed \subseteq {"inflight", "acked"} \X Events
    /\ delivered \subseteq Events
    /\ published \in [Events -> Nat]
    /\ logged \subseteq Events
    /\ nats \in BOOLEAN
    /\ ack \in [Acks -> AckStates]
    /\ \A a \in Acks : ack[a].pc = "done" <=> ack[a].code # 0

Init ==
    /\ inflight = {}
    /\ acked = {}
    /\ lapsed = {}
    /\ delivered = {}
    /\ published = [e \in Events |-> 0]
    /\ logged = {}
    /\ nats \in BOOLEAN
    /\ ack \in [Acks -> [pc : {"new"}, event : Events, via : Publishers, tries : {0},
                         code : {0}, saw : {"nothing"}]]

(***************************************************************************)
(* The registry on its own.                                                *)
(***************************************************************************)
\* A stream registers an event it has written; an entry pushed or drained
\* twice is registered again.
Register(e) ==
    /\ inflight' = inflight \cup {e}
    /\ delivered' = delivered \cup {e}
    /\ UNCHANGED <<acked, lapsed, published, logged, nats, ack>>

\* inFlightTTL or ackedTTL runs out.
Expire(e) ==
    /\ "ttl" \in Faults
    /\ \/ /\ e \in inflight /\ inflight' = inflight \ {e}
          /\ lapsed' = lapsed \cup {<<"inflight", e>>} /\ UNCHANGED acked
       \/ /\ e \in acked /\ acked' = acked \ {e}
          /\ lapsed' = lapsed \cup {<<"acked", e>>} /\ UNCHANGED inflight
    /\ UNCHANGED <<delivered, published, logged, nats, ack>>

\* The NATS connection opens or closes.
NatsChange ==
    /\ "nats" \in Faults
    /\ nats' = ~nats
    /\ UNCHANGED <<inflight, acked, lapsed, delivered, published, logged, ack>>

(***************************************************************************)
(* V1AckEvent.                                                             *)
(***************************************************************************)
Answer(a, code) == ack' = [ack EXCEPT ![a].pc = "done", ![a].code = code]

\* Some request for e was answered 200, and e is marked.
Settled(e) == e \in acked /\ \E b \in Acks : ack[b].event = e /\ ack[b].code = 200

\* What is so of e before a request for it.
Standing(e) ==
    CASE Settled(e) -> "settled"
      [] ~Settled(e) /\ e \in delivered -> "delivered"
      [] OTHER -> "nothing"

\* The log publisher always reports a connection.
Connected(a) == ack[a].via = "log" \/ nats

\* The publisher is connected and the request is well formed and the client's own.
Receive(a) ==
    /\ ack[a].pc = "new"
    /\ Connected(a)
    /\ ack' = [ack EXCEPT ![a] = [pc |-> "validate", event |-> ack[a].event,
                                  via |-> ack[a].via, tries |-> 0, code |-> 0,
                                  saw |-> Standing(ack[a].event)]]
    /\ UNCHANGED <<inflight, acked, lapsed, delivered, published, logged, nats>>

\* 503 without NATS; 400 or 403 for a bad request.
Refuse(a) ==
    /\ ack[a].pc = "new"
    /\ Answer(a, IF Connected(a) THEN 400 ELSE 503)
    /\ UNCHANGED <<inflight, acked, lapsed, delivered, published, logged, nats>>

\* Mutant of CheckAcked: the acked key is not looked at.
CheckAckedSkipped(a) ==
    /\ ack[a].pc = "validate"
    /\ ack' = [ack EXCEPT ![a].pc = "validating"]
    /\ UNCHANGED <<inflight, acked, lapsed, delivered, published, logged, nats>>

\* Validate, first EXISTS: 409 if the event is acked.
CheckAcked(a) ==
    /\ ack[a].pc = "validate"
    /\ IF ack[a].event \in acked
       THEN Answer(a, 409)
       ELSE ack' = [ack EXCEPT ![a].pc = "validating"]
    /\ UNCHANGED <<inflight, acked, lapsed, delivered, published, logged, nats>>

\* Mutant of CheckInFlight: the in-flight key is not looked at.
CheckInFlightSkipped(a) ==
    /\ ack[a].pc = "validating"
    /\ ack' = [ack EXCEPT ![a].pc = "publish"]
    /\ UNCHANGED <<inflight, acked, lapsed, delivered, published, logged, nats>>

\* Mutant of CheckInFlight: the check takes the key (a DEL that counts).
CheckInFlightClaims(a) ==
    /\ ack[a].pc = "validating"
    /\ IF ack[a].event \in inflight
       THEN ack' = [ack EXCEPT ![a].pc = "publish"]
       ELSE Answer(a, 404)
    /\ inflight' = inflight \ {ack[a].event}
    /\ UNCHANGED <<acked, lapsed, delivered, published, logged, nats>>

\* Validate, second EXISTS: 404 if the event is not in flight.
CheckInFlight(a) ==
    /\ ack[a].pc = "validating"
    /\ IF ack[a].event \in inflight
       THEN ack' = [ack EXCEPT ![a].pc = "publish"]
       ELSE Answer(a, 404)
    /\ UNCHANGED <<inflight, acked, lapsed, delivered, published, logged, nats>>

\* Mutant of ValidateError: Validate is tried again, without a limit.
ValidateErrorRetries(a) ==
    /\ ack[a].pc \in {"validate", "validating"}
    /\ "redis" \in Faults
    /\ ack' = [ack EXCEPT ![a].pc = "validate"]
    /\ UNCHANGED <<inflight, acked, lapsed, delivered, published, logged, nats>>

\* Either EXISTS fails: 500.
ValidateError(a) ==
    /\ ack[a].pc \in {"validate", "validating"}
    /\ "redis" \in Faults
    /\ Answer(a, 500)
    /\ UNCHANGED <<inflight, acked, lapsed, delivered, published, logged, nats>>

\* NATS: in a filter "*" stands for one token, a last ">" for one or more.
Matches(subject, filter) ==
    LET n == Len(filter)
        Tokens(k) == \A i \in 1..k : filter[i] \in {"*", subject[i]}
    IN  IF n > 0 /\ filter[n] = ">"
        THEN Len(subject) >= n /\ Tokens(n - 1)
        ELSE Len(subject) = n /\ Tokens(n)

\* NewNATSPublisher: the subjects of the stream, which is created when absent.
StreamSubjects == IF Existing = {} THEN {Append(Prefix, ">")} ELSE Existing

\* Records go to the prefix itself: does the stream take them?
Captured == \E filter \in StreamSubjects : Matches(Prefix, filter)

\* JetStream stores the record; no message id is set, so it stores every copy.
StoreRecord(e) == published' = [published EXCEPT ![e] = @ + 1]

Publish(a) ==
    /\ ack[a].pc = "publish" /\ ack[a].via = "nats"
    /\ Captured /\ nats
    /\ StoreRecord(ack[a].event)
    /\ ack' = [ack EXCEPT ![a] = [ack[a] EXCEPT !.pc = "mark", !.tries = 0]]
    /\ UNCHANGED <<inflight, acked, lapsed, delivered, logged, nats>>

\* The log publisher cannot fail.  (Its record is a log line of level INFO:
\* "logged" holds what the log is handed, kept or not.)
PublishLog(a) ==
    /\ ack[a].pc = "publish" /\ ack[a].via = "log"
    /\ logged' = logged \cup {ack[a].event}
    /\ ack' = [ack EXCEPT ![a].pc = "mark"]
    /\ UNCHANGED <<inflight, acked, lapsed, delivered, published, nats>>

\* Mutant of NextAttempt: one attempt too many.
NextAttemptTooOften(a) ==
    IF ack[a].tries <= MaxRetries
    THEN ack' = [ack EXCEPT ![a].tries = @ + 1]
    ELSE Answer(a, 502)

\* The next attempt, or 502 after the last.
NextAttempt(a) ==
    IF ack[a].tries < MaxRetries
    THEN ack' = [ack EXCEPT ![a].tries = @ + 1]
    ELSE Answer(a, 502)

\* The record is stored but its PubAck does not arrive in time.
PublishLost(a) ==
    /\ ack[a].pc = "publish" /\ ack[a].via = "nats"
    /\ Captured /\ "nats" \in Faults
    /\ StoreRecord(ack[a].event)
    /\ NextAttempt(a)
    /\ UNCHANGED <<inflight, acked, lapsed, delivered, logged, nats>>

\* Mutant of PublishError: the error is ignored.
PublishErrorIgnored(a) ==
    /\ ack[a].pc = "publish" /\ ack[a].via = "nats"
    /\ "nats" \in Faults \/ ~Captured
    /\ ack' = [ack EXCEPT ![a].pc = "mark"]
    /\ UNCHANGED <<inflight, acked, lapsed, delivered, published, logged, nats>>

\* The record is not stored: NATS fails, or no stream takes the subject.
PublishError(a) ==
    /\ ack[a].pc = "publish" /\ ack[a].via = "nats"
    /\ "nats" \in Faults \/ ~Captured
    /\ NextAttempt(a)
    /\ UNCHANGED <<inflight, acked, lapsed, delivered, published, logged, nats>>

\* MarkAcked, first command: SET the acked key.
MarkSet(a) ==
    /\ ack[a].pc = "mark"
    /\ acked' = acked \cup {ack[a].event}
    /\ ack' = [ack EXCEPT ![a].pc = "marking"]
    /\ UNCHANGED <<inflight, lapsed, delivered, published, logged, nats>>

\* MarkAcked, second command: DEL the in-flight key.
MarkDel(a) ==
    /\ ack[a].pc = "marking"
    /\ inflight' = inflight \ {ack[a].event}
    /\ ack' = [ack EXCEPT ![a].pc = "marked"]
    /\ UNCHANGED <<acked, lapsed, delivered, published, logged, nats>>

\* MarkAcked fails: neither command, or only the SET, reaches Redis.  The error
\* is logged.
MarkError(a) ==
    /\ ack[a].pc \in {"mark", "marking"}
    /\ "redis" \in Faults
    /\ ack' = [ack EXCEPT ![a].pc = "marked"]
    /\ UNCHANGED <<inflight, acked, lapsed, delivered, published, logged, nats>>

\* MarkAcked has returned: 200, whether or not it succeeded.
Reply(a) ==
    /\ ack[a].pc = "marked"
    /\ Answer(a, 200)
    /\ UNCHANGED <<inflight, acked, lapsed, delivered, published, logged, nats>>

\* The instance dies in the middle of the request; the client gets no answer.
Die(a) ==
    /\ ack[a].pc \notin {"new", "done", "dead"}
    /\ "crash" \in Faults
    /\ ack' = [ack EXCEPT ![a] = [ack[a] EXCEPT !.pc = "dead", !.tries = 0]]
    /\ UNCHANGED <<inflight, acked, lapsed, delivered, published, logged, nats>>

AckStep(a) ==
    \/ CheckAcked(a) \/ CheckInFlight(a) \/ ValidateError(a)
    \/ Publish(a) \/ PublishLog(a) \/ PublishLost(a) \/ PublishError(a)
    \/ MarkSet(a) \/ MarkDel(a) \/ MarkError(a) \/ Reply(a)

Next ==
    \/ \E e \in Events : Register(e) \/ Expire(e)
    \/ NatsChange
    \/ \E a \in Acks : Receive(a) \/ Refuse(a) \/ AckStep(a) \/ Die(a)

Spec == Init /\ [][Next]_vars

\* A request that came in keeps going; a publish attempt ends (AckWait).
FairSpec == Spec /\ \A a \in Acks : WF_vars(AckStep(a))

(***************************************************************************)
(* Properties.                                                             *)
(***************************************************************************)
\* An ACK record of e was stored by NATS or handed to the log of an instance.
Recorded(e) == published[e] > 0 \/ e \in logged

\* A client told 200 or 409 (already acknowledged) can rely on a record of the
\* event, and one told 200 by an instance that has NATS on a record in NATS:
\* MarkAcked comes after Publish (ack.go:112,132).  (A 409 may rest on the log
\* of an instance without NATS: the instances share the acked keys.)
AnsweredMeansPublished ==
    \A a \in Acks :
        /\ ack[a].code \in {200, 409} => Recorded(ack[a].event)
        /\ ack[a].code = 200 /\ ack[a].via = "nats" => published[ack[a].event] > 0

\* Only events that were delivered to the client are ever published.
PublishedWasDelivered ==
    \A e \in Events : Recorded(e) => e \in delivered

\* Once an ACK of an event was answered 200 and marked, a later one is never
\* published again nor told 200 or 404, as long as the mark does not lapse
\* (ackedTTL): no request undoes another's MarkAcked.
DuplicateRejected ==
    \A a \in Acks : ack[a].saw = "settled" /\ <<"acked", ack[a].event>> \notin lapsed =>
        /\ ack[a].code \notin {200, 404}
        /\ ack[a].pc \notin {"publish", "mark", "marking", "marked"}

\* A 404 never costs the client an acknowledgement: if the event was in the
\* registry when the ACK came in, then a 404 means that the in-flight key has
\* lapsed (inFlightTTL) or that a record of the event is stored already.  The
\* second case is a Validate whose two EXISTS straddle another request's
\* MarkAcked (inflight.go:58,67 against :80-82), which may be told 404 before the
\* other request is answered, or when that one is never answered; a request that
\* fails or dies half-way, before its publish, leaves the key to the next one.
\* (loop.go:204-216 writes a frame before it registers the event, so an ACK can
\* also come in too early; that one saw "nothing".)
NotFoundIsRecorded ==
    \A a \in Acks : ack[a].code = 404 /\ ack[a].saw # "nothing" =>
        <<"inflight", ack[a].event>> \in lapsed \/ Recorded(ack[a].event)

\* Every request that passed the checks is answered, unless its instance dies:
\* the publish loop ends.
AckAnswered ==
    \A a \in Acks : (ack[a].pc = "validate") ~> (ack[a].pc \in {"done", "dead"})

\* "sending the same ACK twice returns 409" (ack_e2e_test.go:204): no event is
\* acknowledged with 200 twice.
OneSuccess ==
    \A a, b \in Acks :
        ack[a].code = 200 /\ ack[b].code = 200 /\ ack[a].event = ack[b].event => a = b

\* "Ensure the stream exists; create it when absent" (nats_publisher.go:33):
\* with Redis and NATS in order no ACK is answered 502.
NoBadGateway == \A a \in Acks : ack[a].code # 502
=============================================================================
