# Scorpion in TLA+

Scorpion is a Go server that pushes events to browsers over server-sent events
(SSE). All shared state is in Redis; any number of server instances run beside
each other and never talk to one another. This directory holds TLA+ modules for
the parts of the server whose correctness depends on the order of Redis
commands, on failures and on time, the TLC configurations that check them, and
TLAPS proofs for the properties that should hold for every number of instances,
requests and keys.

## The system

| Component | State | Operations | Hard because |
|---|---|---|---|
| Tickets (`handlers/ticket.go`, `repository/ticket.go`, `auth/jwt.go`, two Lua scripts) | Redis key per (client, IP) holding the id of the latest ticket; the JWT itself | issue, validate and consume | re-issue overwrites, lost replies, expiry |
| Rate limiter (`ratelimit/`) | Redis counter per IP with a 60 s window | count and allow | repeated scripts, window ends |
| Connection registry (`repository/connection.go`) | Redis key per (client, IP) with a TTL, value = instance id | register (SET NX), refresh (EXPIRE), delete (DEL), clean up on shutdown | several instances, crashes, retries, TTL against slow writers |
| Event queue (`repository/events.go`, `handlers/event.go`) | Redis list per client, capped | push (RPUSH, LTRIM), drain (LRANGE, LTRIM) | pipelines are not transactions; retries |
| SSE loop (`stream/`) | batch, write buffer, circuit breaker, request context of each stream | poll, drain, write, flush, heartbeat, last drain | clients that leave, write deadlines, Redis outages |
| In-flight registry and ACKs (`repository/inflight.go`, `handlers/ack.go`, `ack/`) | an in-flight and an acked key per event; a JetStream stream of ACK records | register, validate, publish with retries, mark | concurrent ACKs, lost PubAcks, lapsing keys |
| Lifecycle (`cmd/scorpion/start.go`, `http/server.go`) | one instance id per start | start, serve, shut down | shutdown beside live handlers |
| Poll and health endpoints, middleware, configuration, observability | none of their own | | |

A client posts its bearer token to `/v1/auth/ticket` and gets a ticket (rate
limiter, ticket store). It opens `/v1/stream/events` with the ticket: the
handler consumes the ticket, registers the connection and runs the SSE loop,
which drains the client's list, writes frames and registers each event as in
flight. Events enter the list through `POST /v1/events/:client_id`. The client
acknowledges events through `POST /v1/ack`, which validates against the
in-flight registry, publishes a record to NATS and marks the event. Components
interact only through Redis keys and plain calls inside one handler.

## Modules

| Module | Models | Uses |
|---|---|---|
| `Lease` | what the registry promises: at most one holder of a key at a time | |
| `Connections` | registry, the handler around it, crashes, restarts, shutdown and `CleanupInstance` | implements `Lease` |
| `Channel` | what delivery to a client promises: a queue whose entries go to streams in order, at most once, or are lost in the hands of a stream or to a full queue | |
| `EventStream` | list, pushes, SSE loop, breaker, in-flight registration for one client | implements `Channel` |
| `Tickets` | limiter, ticket issue and consumption | |
| `Admission` | a client's way from the ticket endpoint to a running stream | composes `Tickets` and `Connections` |
| `Acks` | V1AckEvent, in-flight registry, NATS and log publisher for one client | |
| `MC...` | symmetry sets for TLC; each `MC*.cfg` is one run | the module of that name |
| `ConnectionsProofs`, `EventStreamProofs`, `TicketsProofs`, `AcksProofs` | theorems | the module of that name |
| `AdmissionProofs` | theorems about the composition | `Admission`, and the theorems of `TicketsProofs` and `ConnectionsProofs` through instances of them |

Common to all modules:

* A Redis command or Lua script is one atomic step. A call of go-redis has
  three outcomes: executed and answered; executed, reply lost (`...Lost`); not
  executed (`...Unsent`). After a lost reply go-redis sends the command again,
  up to `Redis.MaxRetries` times (`app/redis.go:48`), without telling the
  caller: constant `MaxRetries`. Which faults happen is a constant of each
  module (`Faults`, `LoseReplies`), so that a run can say exactly what its
  property depends on.
* Time is counted in ticks. A key with TTL *n* is dropped by the *n*-th tick.
* Log lines, metrics, header texts and JSON are left out.
* Definitions whose comment begins with "Mutant of" are deliberately wrong
  versions of the definition that follows. No specification uses them; each
  shows, when put in the place of its original, that a property can fail.

### Connections

`owner[k]` and `ttl[k]` are the Redis key; a handler's `pc` is where
`V1SSEStreamEvents` stands: `registering` (stream.go:110), `streaming` (in
`RunLoop`), `closing` (the deferred function, stream.go:147), `redeleting` (a
DEL that Redis has executed and go-redis sends again). `Refresh` does not look
at the value and does not recreate a key (EXPIRE); `Delete` does not look at the
value either. `gap[h]` counts the ticks since the last renewal Redis executed;
`Tick` is disabled when it would exceed `MaxGap`, which makes `MaxGap` the bound
on how late a renewal is. In the code nothing bounds it: a poll tick writes up to
`BatchSize` (100) events with a write deadline of 5 s each, against a default
`ConnTTL` of 60 s, and a failed EXPIRE is only logged. `Start` gives a process a
fresh instance id (start.go:69), so a crashed instance's keys are nobody's.

`status[i]` follows the process through its shutdown: `stopping` is inside
`srv.Shutdown`, `drained` and `forced` are inside `CleanupInstance` after
`srv.Shutdown` returned without and with an error, and the process then exits.
The handlers of a `forced` process go on registering, renewing and deleting:
nothing tells a stream to end, since `appCtx` is never cancelled. `sweep[i]` is
`CleanupInstance` command by command. A SCAN call covers any part of the key space
that is left (`todo`) and returns the keys it finds there (`page`); each key then
gets a GET and, if it holds the instance's id, a DEL. Every one of the commands can
fail: a failed SCAN ends the loop, a failed GET or DEL passes the key over
(`clean` records that). `lag` counts the ticks between a GET and its DEL, `MaxLag`
bounds them (nothing does in the code), `Shutdowns` says how `srv.Shutdown` may end. A process that ended from
`drained` with every command carried out is `stopped`; any other end is `down`.

The mapping to `Lease`: the holders of a key are the handlers from their SET to
their DEL (`holders`).

### EventStream

An entry of the list is its ordinal in the order of RPUSHes, `log` says which
event it carries; entries keep their identity when a retry pushes an event
twice. `push[p]` is a V1InsertEvent request: `new`, `capping` (between RPUSH and
LTRIM), `capped`, then 201 or 500. `st[s]` is the loop of the stream from one IP:
`drain` (before the breaker check, loop.go:166), `send`, `ranged` (between
LRANGE and LTRIM), `trimmed`, `write` and `register` (the batch loop), `flush`,
`wait` (the select). `buf` holds frames that are written but not yet sent;
`Write` sends any prefix of it, because net/http flushes its buffer when full.
`link` and `done` are the TCP connection and the request context; `final` marks
the drain with `context.Background()` after the context was cancelled.
`breaker` abstracts `openUntil`: closed, open, or open with its time over.
`dropped` is bookkeeping: entries that are lost for a reason, with a drain or a
write that failed, a dead client or a crash, or removed by the cap. It is wider than
what the code notices: a write to a dead client succeeds until TCP gives up, the
error of a flush is not looked at (loop.go:228-233), and the cap trims without a
word.

`Atomic` says whether Redis runs a pipeline through. A standalone Redis does so
whenever it finds the whole pipeline in one read; nothing in the protocol
promises it. Properties are checked with the weakest setting under which they
hold.

The mapping to `Channel`: the list is `pending`, `dropped` is `lost`, and what a
stream holds is what is read from the list and not yet sent, in order (`held`).
It holds when pipelines run through and drains are not repeated.

Left out: the `appCtx.Done()` case of the select (start.go passes
`context.Background()`, which is never done; `appCtx.Done()` at start.go:122
cancels nothing) and entries that are not JSON (V1InsertEvent only pushes what
it has marshalled). `Refresh` on a poll tick is in `Connections`. A pipeline is
executed as a whole or not at all: one that is cut off after its RPUSH or its LRANGE
and before the LTRIM, when the connection breaks between two packets, is left out. After
such a push the list is over its bound until the next push trims it.

### Tickets

A ticket is named by the request that made it. `counter`/`window` are the
rate-limit key of an IP, `store`/`storeTTL` the ticket key of a client and IP;
`life` is what is left of the JWT. An attempt presents a ticket from some IP:
the JWT must be alive and the IP its own, then the script must find this very
ticket. A limiter that fails counts as "not allowed" because `Result{}` is
returned with the error (limiter.go:55, ticket.go:40-48): `AllowUnsent`.

### Admission

One clock for `Tickets` and `Connections`, without shutdowns. `Open` is the step of
V1SSEStreamEvents in which the ticket script says yes and the handler goes on to the
registry (stream.go:84-110); everything before it is a step of `Tickets`,
everything after it a step of `Connections`. Client and registry meet in the key
(client, IP). The client is not part of the repository: `AskAgain` and `TryAgain`
let it come back for as long as it likes, and use the name of a request or an
attempt again once nothing refers to it.

### Acks

`ack[a].pc` follows V1AckEvent: `validate` (before the first EXISTS),
`validating` (between the two), `publish`, `mark`, `marking` (between SET and
DEL), `marked` (MarkAcked has returned, with or without an error, and the 200 is
still to be sent), `done`, and `dead` when the instance died before it answered.
`MarkError` covers a pipeline of which nothing or only the SET was executed.
go-redis may also execute that pipeline again after a lost reply; both commands are
idempotent and this is left out. `saw` records what was so of the event when the request came in;
`lapsed` records keys that ran out. `via` is the publisher of the instance the
request reaches: an instance that cannot reach NATS when it starts, or has none
configured, writes records to its log for good (start.go:74-96), always says that it
is connected and cannot fail (`PublishLog`). `logged` is what was handed to the log:
at a log level above Info it is not written, and log_publisher.go:18 calls this
publisher a no-op, so a 200 from such an instance promises less than one that rests
on NATS. Publishing sets no message id, so
JetStream's duplicate window does not apply and every attempt that arrives is
stored. `StreamSubjects` and `Captured` are NewNATSPublisher: the stream it finds
(`Existing`) or else creates, and whether that stream takes the subject records
are published to. 400 and 403 are one case.

## Runs

| Run | Configuration | Result |
|---|---|---|
| `connections_timely` | 2 instances, 3 handlers, 2 keys, TTL 3, gap at most 2, SET replies may be lost, crashes, shutdowns that wait for the handlers | `TypeOK`, `OneStream`, `StreamHoldsKey`, `SweptClean`, `ImplementsLease` hold |
| `connections_ghosts` | 2 instances, 2 handlers, TTL 3, every reply may be lost, shutdowns of both kinds, clean-ups that lag a tick (`MaxLag` 1), fairness | `SweepsOwnOrNew`, `GhostKeysExpire`, `ShutdownEnds` hold |
| `connections_stall` | gap = TTL | `OneStream` fails: finding |
| `eventstream_atomic` | 2 streams, 2 pushes, batch and cap 2, every fault, pipelines run through, no retries | `TypeOK`, `AtMostOnce`, `LossAccounted`, `ImplementsChannel` hold |
| `eventstream_shared` | 2 streams, 3 pushes, batch and cap 1, pipelines interleave, drains repeated | `StreamOrder`, `QueueBounded` hold |
| `eventstream_live` | 1 stream, Redis and client faults, a push that is repeated, fairness | `EventuallySettled`, `StreamEnds` hold |
| `eventstream_repeat` | 1 stream, 1 push, a drain's reply is lost | `LossAccounted` fails: finding |
| `tickets` | 3 requests, 2 attempts, 2 IPs, limit 1, window 3, every fault | `TypeOK`, `SingleUse`, `WindowLimit`, `TwoWindows` hold |
| `admission` | 1 client, 2 instances, 2 handlers, limit 1, every reply may be lost, crashes, fairness | `TypeOK`, `Readmitted` hold |
| `acks` | 2 ACKs of one event, both publishers, 2 publish retries, every fault, lapsing keys, instances that die, fairness | `TypeOK`, `AnsweredMeansPublished`, `PublishedWasDelivered`, `DuplicateRejected`, `NotFoundIsRecorded`, `AckAnswered` hold |
| `acks_twice` | 2 ACKs of one event, no faults | `OneSuccess` fails: finding |
| `acks_subject` | 2 ACKs, the stream NewNATSPublisher creates | `NoBadGateway` fails: finding |

Bounds. Two streams share a list or a key in the smallest case that shows a
conflict; a third handler in `connections_timely` lets one leave while two
compete, and the second instance outlives the crash or shutdown of the first. Two
keys make a clean-up take one or two SCANs. In `connections_ghosts` a lag of one tick
against a TTL of 3 lets a key that is about to lapse pass to another instance between
the GET and the DEL, while a key of full age would still be told apart by its TTL. One
event is enough in `acks`: the keys, the records and what a request looks at all belong
to one event, and requests for different events have nothing in common but the NATS
connection. Batch 2 in `eventstream_atomic` allows a
failure in the middle of a batch (the list fills up but never overflows there: what
`AtMostOnce`, `LossAccounted` and `ImplementsChannel` say of a full list is left to their
theorems); batch and cap 1 in `eventstream_shared` make three pushes overflow the
list and drains overlap. `MaxFails` is 1 or 2 instead of 5, so
that the breaker opens within a run. TTLs of 2 and 3 are the smallest for which a
renewal before and at expiry differ. One retry (`MaxRetries = 1`) is enough for a
command to be executed twice. Three requests with limit 1 in `tickets` fill one
window, the next, and leave one over that a wrong window would let in. In
`admission` the window (1) is shorter than the TTL of a key (2), so that a client can
come back while the key that turned it away is still there; the client stops asking
while `MaxHits` hits are counted, which keeps the counter finite and is above the
limit, so that it is refused first.

Fairness. *Connections*: time passes, a poll tick that keeps failing succeeds in
the end, a deferred Delete is carried out or gives up, `ShutdownTimeout` runs out,
and a clean-up keeps going (each of its commands ends, with or without success).
Handlers are not assumed to leave or to return. *EventStream*: handlers keep going (WF of the
loop's own steps), Redis finishes a pipeline it began, clients reconnect, time
passes, and net/http notices a client that left (TCP keep-alive). Two strong
fairness conditions: the select eventually takes a cancelled context although
poll ticks are ready too (Go chooses at random among ready cases), and Redis is
not unreachable for ever. `EventuallySettled` is conditional on clients that
stop leaving: a client that leaves during every drain can keep an entry in the
list, since a drain with a cancelled context counts as a failure of the breaker
and an open breaker skips the last drain. *Acks*: a request that came in keeps
going, and a publish attempt ends (`AckWait`). *Admission*: time passes, handlers
keep going, and strong fairness of the steps that succeed (the limiter's yes, the
SET of a ticket while its JWT is alive, presenting a usable ticket, consuming it, the
SET of the connection key): Redis does not fail for ever and the client is not
always too late. What the strong conditions do not give is that these steps
become possible again: that the counter, the ticket key and the connection key
lapse however often the client comes back. `Readmitted` is about that, and it is
for a client alone behind its IP: clients that share an IP share its limit, and one
of them can use it up for the others.

## Proofs

Each theorem is for every value of the constants that the named assumptions
allow, without the bounds of the runs.

* `ConnectionsProofs`: `TypeCorrect`, `SweptCleanHolds` and `SweepsOwnOrNewHolds` for
  all constants. `OneStreamHolds`, `StreamHoldsKeyHolds` and `LeaseImplemented`
  assume `Timely` (a renewal always comes before the TTL runs out), `DelOnce` (no executed DEL is repeated) and `Orderly` (a clean-up begins
  after the instance's handlers have ended, and no time passes between a GET of it
  and the DEL): the conditions under which the code keeps its promise of one stream
  per client and IP, none of which it enforces. `OneStream` is not inductive: a
  stream about to delete its key must be counted too (`HeldOnce`), its key must be
  its own with a TTL that is exactly `ConnTTL` less the gap (`StreamHoldsKey`), no
  handler may be about to repeat a DEL (`NoRedelete`), and the key a clean-up is
  about to delete must still be its own (`OwnDel`). Then SET NX fails while anyone
  holds the key, and a DEL only removes the key of whoever sends it.
  `SweptClean` rests on `CleanInv`: once the handlers of a draining instance are
  gone no new key appears under its id (`Quiet`), and the keys under its id are
  always among those the clean-up has still to look at (`CleanSoFar`).
  `SweepsOwnOrNew` is inductive with the types: a key becomes another process's only
  through a SET, which gives it a full TTL (`HandlerTouches`), and every tick that
  takes one off the TTL adds one to the lag of the clean-up (`TickSweeps`).
  `LeaseImplemented` shows step by step that a registration takes a free key, that
  the end of a handler or of a process releases keys, and that every other step
  leaves the holders alone.
* `TicketsProofs`: `TicketTypeCorrect`; `SingleUseHolds`, whose invariant adds
  that a presented ticket was issued (so no SET, and no retry of one, will write
  it again) and that a ticket that let an attempt in is not in the store;
  `WindowLimitHolds` and `TwoWindowsHolds`. Their invariant (`Counted`) compares
  numbers of requests with the counter: a counter that exists has an expiry, the
  requests allowed in its present life are at most its value and at most the limit,
  those allowed in earlier lives and less than a window ago are at most the limit,
  and each of them is at least as old as the present life. The set of requests may be
  infinite; the counted ones are shown to be finitely many.
* `EventStreamProofs`, in three layers.
  1. For any interleaving of commands and every fault: `StreamTypeCorrect`,
     `StreamOrderHolds`, `QueueBoundedHolds`. The invariant `OrderInv`: the list is
     always the entries pushed last (`ListOK`: LTRIM only ever removes from its head);
     what a client received, what its stream has written and what it has still to
     write are in push order one after the other, and all of it has left the list
     (`Behind`), except that a batch between its LRANGE and its LTRIM may reach up
     to `BatchSize` entries into the list. That exception is what makes order
     survive an interleaved drain or push: when the LTRIM comes, at least these
     entries are gone, whoever removed them, so the next batch starts behind them.
     `Placed` says in which states a stream holds entries at all, and `BreakerOK` that
     a drain runs with a closed breaker, whose count is below its limit.
     `QueueBounded` needs that LTRIM leaves at most `MaxQueueDepth` entries and that
     every RPUSH adds its request to the ones that have still to trim.
  2. For pipelines that run through (`Atomic`): `AtMostOnceHolds`. `WholeDrains` says
     that while a drain is between its commands no other pipeline is, and that its
     batch is still the head of the list, so the LTRIM removes exactly the batch.
     Then an entry has one owner at most (`Exclusive`): a drain takes entries that are
     in the list, and owned ones are not. This holds for repeated drains too.
  3. For pipelines that run through and drains that are not repeated (`DrainOnce`: no
     reply of a drain is lost, or go-redis does not retry): `LossAccountedHolds`, from
     the invariant that every entry that has left the list has an owner or is in
     `dropped` (`Accounted`), and `ChannelImplemented`, the refinement. Each step of a
     push is a `Put`, an `Overflow` or a stutter; each step of a stream is a `Take`, a
     `Hand`, a `Lose` or a stutter (`ChannelStep`). The one step that is none of them is a
     drain whose reply is lost and that go-redis repeats (`Vanish`): the finding
     `eventstream_repeat`, and the reason for `DrainOnce`.
* `AdmissionProofs`: `RegistryComposed` shows that the composition implements
  `Connections` without shutdowns: a handler reaches the registry with the key of
  the ticket it consumed, which is a real key because of the type invariant of the
  tickets. So what is proved of `Connections` (`OneStream` under `Timely` and `DelOnce`,
  in particular) holds of it too and is not stated again. `AdmissionTypeCorrect`
  follows from it and the type theorems of the two components.
* `AcksProofs`: `AckTypeCorrect`; `AnsweredMeansPublishedHolds` and
  `PublishedWasDeliveredHolds` from an invariant that follows a record from the
  in-flight key that Validate saw, through the publish, to the acked key that a
  later 409 rests on; `NotFoundIsRecordedHolds` from the fact that only a lapse or
  the second half of a MarkAcked removes an in-flight key, and that a request reaches
  MarkAcked only with its record published (`MarkingIsRecorded`), whether or not it is
  ever answered; `DuplicateRejectedHolds` from the fact that nothing but its
  TTL removes an acked key, so that a late duplicate never passes the first
  EXISTS.

Every safety property of the passing runs has a theorem. Only model-checked: the
liveness properties (`GhostKeysExpire`, `ShutdownEnds`, `EventuallySettled`,
`StreamEnds`, `Readmitted`, `AckAnswered`), since fairness is out of the prover's reach.

## Disagreements found

Shown by a run (details in PROJECT.json, `findings`): a stream that stalls for
`ConnTTL` is joined by a second one; a repeated drain loses a batch without an
error; two concurrent ACKs both succeed; the JetStream stream does not take the subject of the ACKs.

Other disagreements met while modelling, without a run:

* `Delete` (connection.go:63) is an unconditional DEL. Repeated by go-redis after
  a lost reply, it removes the key of the next stream. `DelOnce` in
  `ConnectionsProofs` excludes this; `DeleteWithValue`, which narrows the
  problem to streams of one instance, has no caller.
* "In-flight streams are drained cleanly before the server exits." (README.md:37):
  `appCtx` is `context.Background()` (start.go:99) and `appCtx.Done()` (start.go:122)
  cancels nothing, so unless the clients leave by themselves `srv.Shutdown` runs into
  its timeout and the process exits with their streams running. Before that, `CleanupInstance`
  removes the keys of those live streams: another request for the same client and IP
  is admitted beside them (with `Shutdowns = {"forced"}`, `OneStream` and
  `StreamHoldsKey` fail). A key registered behind the cursor of the SCAN is left to
  its TTL.
* "removes all connection keys belonging to this instance" (connection.go:78): the
  GET and the DEL are two commands, so the DEL can take a key that lapsed after the
  GET and was registered by another instance, and leave a live stream without its
  key (with `MaxLag` at least 1, `StreamHoldsKey` and `OneStream` fail even when every
  shutdown is graceful). `SweepsOwnOrNew` says how far this goes.
* "Graceful drain: deliver any queued events before the connection closes."
  (loop.go:120): when the context was cancelled because the client left, the last
  drain removes a batch from Redis and writes it to the dead connection; the events
  do not wait for the reconnect.
* After a crash, 429 "An active stream already exists for this user and IP."
  (stream.go:133) is answered until the dead instance's key lapses.
* "consumed atomically using Lua scripts" (README.md:33) and "Drain atomically
  fetches" (events.go:43): Drain is a plain pipeline. If Redis interleaves it,
  two streams take the same batch, and an event pushed between the LRANGE and the
  LTRIM of a short batch is trimmed unread (with `Atomic = FALSE`, `AtMostOnce`
  and `LossAccounted` fail).
* A frame is written before its event is registered (loop.go:204, 216), and a
  failed registration is only logged: an ACK of a received event can be 404.
* The rate limiter counts in fixed windows, not in a "sliding window"
  (limiter.go:1): up to twice the limit passes around a window's end.
* Validate looks at the acked key, then at the in-flight key. A MarkAcked of
  another request in between makes both lookups miss: 404 for a delivered event that
  is being acknowledged, against inflight.go:55; the other request may not have been
  answered yet, or never be. `NotFoundIsRecorded` says that nothing is lost by it. MarkAcked never returns false,
  against inflight.go:27.
* The gauge "Count of events delivered but not yet acknowledged." (metrics.go:104)
  is only decremented (ack.go:143).
* `GET /v1/events/:client_id` is behind IPMiddleware only (server.go:65-66), so
  V1Poll, which "Requires TokenMiddleware" (poll.go:19), always answers 403.
* `Readyz` is not routed.

## Not modelled

JWT signatures (trusted), IP extraction (library), configuration, wiring,
metrics, logging, tracing, developer scripts, the test client: they hold no state
that the properties depend on. Health endpoints are stateless. The poll endpoint
would be a second consumer of the list, but answers every request with 403 before it
reads anything (see above).

## Plan

Done: the four components, shutdown and clean-up, the two publishers, the abstract
lease and channel, admission; theorems for every safety property. Left: bring the
conditions of the theorems (`Timely`, `DelOnce`, `Orderly`, `Atomic`, `DrainOnce`) up to
date when the code begins to enforce one of them.
