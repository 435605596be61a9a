---------------------------- MODULE EventStream ----------------------------
(***************************************************************************)
(* Event delivery to one client: its Redis list scorpion:events:<client>,  *)
(* the V1InsertEvent requests that push to it, and the SSE streams (one    *)
(* per IP of the client) whose RunLoop drains it, with the circuit breaker *)
(* of each stream and the in-flight registry.                              *)
(*                                                                         *)
(* Push and Drain are go-redis pipelines: their commands are sent together *)
(* but Redis executes each on its own, and promises nothing about commands *)
(* of other connections in between.  (A server that finds a whole pipeline *)
(* in one read runs it through: Atomic says that this always happens.)  An *)
(* entry of the list is named by its ordinal in the order of the RPUSHes;  *)
(* log gives the event it carries.                                         *)
(***************************************************************************)
EXTENDS Integers, FiniteSets, Sequences, SequencesExt

CONSTANTS
    Pushers,        \* V1InsertEvent requests; each makes one event (one uuid)
    Streams,        \* IPs the client streams from, one stream each at a time
    BatchSize,      \* SSE.BatchSize
    MaxQueueDepth,  \* SSE.MaxQueueDepth
    MaxFails,       \* failures that open the circuit breaker (5 in RunLoop)
    MaxRetries,     \* go-redis: how often a pipeline without a reply is repeated
    Atomic,         \* no command comes between two commands of a pipeline
    Faults          \* "redis": commands that do not reach Redis;
                    \* "push", "drain": replies of pushes and of drains lost
                    \* after execution;
                    \* "client": clients that leave or stop reading;
                    \* "crash": instances that die

ASSUME BatchAssumption == BatchSize \in Nat \ {0}
ASSUME DepthAssumption == MaxQueueDepth \in Nat \ {0}
ASSUME FailsAssumption == MaxFails \in Nat \ {0}
ASSUME StreamRetryAssumption == MaxRetries \in Nat
ASSUME AtomicAssumption == Atomic \in BOOLEAN
ASSUME FaultsAssumption == Faults \subseteq {"redis", "push", "drain", "client", "crash"}

VARIABLES
    queue,     \* the Redis list, head first, as ordinals
    log,       \* log[n]: the event pushed by the n-th RPUSH
    push,      \* push[p]: the state of a V1InsertEvent request
    st,        \* st[s]: the state of RunLoop for the stream of IP s
    got,       \* got[s]: ordinals the client received at IP s
    inflight,  \* events in the in-flight registry
    dropped    \* ordinals lost for a reason: with a drain or a write that
               \* failed, a dead client or a crash, or removed by the cap

vars == <<queue, log, push, st, got, inflight, dropped>>

MaxLog == Cardinality(Pushers) * (MaxRetries + 1)

(***************************************************************************)
(* A stream: its place in RunLoop / drainAndFlush, the drained entries not *)
(* yet written, the written ones not yet sent, the entry being registered, *)
(* the TCP link, whether its request context is cancelled, whether this is *)
(* the last drain, and its circuit breaker.                                *)
(***************************************************************************)
Closed ==
    [pc |-> "off", batch |-> <<>>, buf |-> <<>>, cur |-> 0, link |-> "up",
     done |-> FALSE, final |-> FALSE, fails |-> 0, breaker |-> "closed", tries |-> 0]

StreamStates(n) ==  \* when n entries have been pushed
    [pc : {"off", "drain", "send", "ranged", "trimmed", "write", "register", "flush", "wait"},
     batch : Seq(1..n), buf : Seq(1..n), cur : 0..n,
     link : {"up", "gone", "broken"}, done : BOOLEAN, final : BOOLEAN,
     fails : 0..MaxFails, breaker : {"closed", "open", "elapsed"}, tries : 0..MaxRetries]

(***************************************************************************)
(* The type invariant; the failure count never passes its limit.           *)
(***************************************************************************)
TypeOK ==
    /\ queue \in Seq(1..Len(log))
    /\ log \in Seq(Pushers)
    /\ push \in [Pushers -> [pc : {"new", "capping", "capped", "created", "failed"},
                             tries : 0..MaxRetries]]
    /\ st \in [Streams -> StreamStates(Len(log))]
    /\ got \in [Streams -> Seq(1..Len(log))]
    /\ inflight \subseteq Pushers
    /\ dropped \subseteq 1..Len(log)

Init ==
    /\ queue = <<>>
    /\ log = <<>>
    /\ push = [p \in Pushers |-> [pc |-> "new", tries |-> 0]]
    /\ st = [s \in Streams |-> Closed]
    /\ got = [s \in Streams |-> <<>>]
    /\ inflight = {}
    /\ dropped = {}

First(seq, n) == SubSeq(seq, 1, IF n < Len(seq) THEN n ELSE Len(seq))
Rest(seq, n) == SubSeq(seq, n + 1, Len(seq))

\* A pipeline on the list may begin.
PipelineFree ==
    Atomic => /\ \A p \in Pushers : push[p].pc # "capping"
              /\ \A s \in Streams : st[s].pc # "ranged"

(***************************************************************************)
(* V1InsertEvent: Push is the pipeline RPUSH, LTRIM -max -1.               *)
(***************************************************************************)
\* Mutant of RPush: LPUSH.
LPush(p) ==
    /\ push[p].pc = "new"
    /\ PipelineFree
    /\ log' = Append(log, p)
    /\ queue' = <<Len(log) + 1>> \o queue
    /\ push' = [push EXCEPT ![p].pc = "capping"]
    /\ UNCHANGED <<st, got, inflight, dropped>>

RPush(p) ==
    /\ push[p].pc = "new"
    /\ PipelineFree
    /\ log' = Append(log, p)
    /\ queue' = Append(queue, Len(log) + 1)
    /\ push' = [push EXCEPT ![p].pc = "capping"]
    /\ UNCHANGED <<st, got, inflight, dropped>>

\* Mutant of Excess: LTRIM -max-1 -1.
ExcessOffByOne(seq) ==
    IF Len(seq) > MaxQueueDepth + 1 THEN Len(seq) - (MaxQueueDepth + 1) ELSE 0

\* Entries of a list that the cap removes, oldest first.
Excess(seq) == IF Len(seq) > MaxQueueDepth THEN Len(seq) - MaxQueueDepth ELSE 0

LTrim(p) ==
    /\ push[p].pc = "capping"
    /\ queue' = Rest(queue, Excess(queue))
    /\ dropped' = dropped \cup ToSet(First(queue, Excess(queue)))
    /\ push' = [push EXCEPT ![p].pc = "capped"]
    /\ UNCHANGED <<log, st, got, inflight>>

\* 201 Created.
PushReply(p) ==
    /\ push[p].pc = "capped"
    /\ push' = [push EXCEPT ![p].pc = "created"]
    /\ UNCHANGED <<queue, log, st, got, inflight, dropped>>

\* The pipeline was executed, its reply is lost: go-redis runs it again, or
\* the request ends in 500.
PushLost(p) ==
    /\ push[p].pc = "capped"
    /\ "push" \in Faults
    /\ \/ /\ push[p].tries < MaxRetries
          /\ push' = [push EXCEPT ![p] = [pc |-> "new", tries |-> @.tries + 1]]
       \/ push' = [push EXCEPT ![p].pc = "failed"]
    /\ UNCHANGED <<queue, log, st, got, inflight, dropped>>

\* The pipeline does not reach Redis: 500.
PushUnsent(p) ==
    /\ push[p].pc = "new"
    /\ "redis" \in Faults
    /\ push' = [push EXCEPT ![p].pc = "failed"]
    /\ UNCHANGED <<queue, log, st, got, inflight, dropped>>

(***************************************************************************)
(* The circuit breaker.                                                    *)
(***************************************************************************)
\* Mutant of isOpen: the breaker never closes by itself.
neverElapses(r) == r.breaker # "closed"

isOpen(r) == r.breaker = "open"

\* isOpen also closes a breaker whose time is over.
closeElapsed(r) ==
    IF r.breaker = "elapsed" THEN [r EXCEPT !.breaker = "closed", !.fails = 0] ELSE r

recordSuccess(r) == [r EXCEPT !.fails = 0, !.breaker = "closed"]

\* Mutant of recordFailure: failures > maxFails.
recordFailureLate(r) ==
    [r EXCEPT !.fails = @ + 1,
              !.breaker = IF r.fails + 1 > MaxFails THEN "open" ELSE @]

recordFailure(r) ==
    [r EXCEPT !.fails = @ + 1,
              !.breaker = IF r.fails + 1 >= MaxFails THEN "open" ELSE @]

\* resetAfter has passed since the breaker opened.
BreakerElapse(s) ==
    /\ st[s].breaker = "open"
    /\ st' = [st EXCEPT ![s].breaker = "elapsed"]
    /\ UNCHANGED <<queue, log, push, got, inflight, dropped>>

(***************************************************************************)
(* drainAndFlush.                                                          *)
(***************************************************************************)
\* drainAndFlush returns: to the select, or out of RunLoop after the last one.
After(r) == IF r.final THEN Closed ELSE [r EXCEPT !.pc = "wait"]

\* The context handed to Redis is live: the last drain uses Background().
Usable(r) == r.final \/ ~r.done

DrainSkip(s) ==
    /\ st[s].pc = "drain"
    /\ isOpen(st[s])
    /\ st' = [st EXCEPT ![s] = After(@)]
    /\ UNCHANGED <<queue, log, push, got, inflight, dropped>>

DrainStart(s) ==
    /\ st[s].pc = "drain"
    /\ ~isOpen(st[s])
    /\ st' = [st EXCEPT ![s] = [closeElapsed(@) EXCEPT !.pc = "send"]]
    /\ UNCHANGED <<queue, log, push, got, inflight, dropped>>

\* Drain, first command: LRANGE 0 batchSize-1.
DrainRange(s) ==
    /\ st[s].pc = "send"
    /\ Usable(st[s])
    /\ PipelineFree
    /\ st' = [st EXCEPT ![s].pc = "ranged", ![s].batch = First(queue, BatchSize)]
    /\ UNCHANGED <<queue, log, push, got, inflight, dropped>>

\* Mutant of DrainTrim: LTRIM batchSize-1 -1.
DrainTrimLess(s) ==
    /\ st[s].pc = "ranged"
    /\ queue' = Rest(queue, BatchSize - 1)
    /\ st' = [st EXCEPT ![s].pc = "trimmed"]
    /\ UNCHANGED <<log, push, got, inflight, dropped>>

\* Drain, second command: LTRIM batchSize -1.  (LLEN only feeds a metric.)
DrainTrim(s) ==
    /\ st[s].pc = "ranged"
    /\ queue' = Rest(queue, BatchSize)
    /\ st' = [st EXCEPT ![s].pc = "trimmed"]
    /\ UNCHANGED <<log, push, got, inflight, dropped>>

DrainReply(s) ==
    /\ st[s].pc = "trimmed"
    /\ LET r == [recordSuccess(st[s]) EXCEPT !.tries = 0]
       IN  st' = [st EXCEPT ![s] = IF r.batch = <<>> THEN After(r) ELSE [r EXCEPT !.pc = "write"]]
    /\ UNCHANGED <<queue, log, push, got, inflight, dropped>>

\* The pipeline was executed and its reply is lost, with the batch: go-redis
\* runs it again without a word, or Drain reports the error.
DrainLost(s) ==
    /\ st[s].pc = "trimmed"
    /\ "drain" \in Faults
    /\ LET r == [st[s] EXCEPT !.batch = <<>>, !.tries = 0]
       IN  \/ /\ st[s].tries < MaxRetries /\ Usable(r)
              /\ st' = [st EXCEPT ![s] = [r EXCEPT !.pc = "send", !.tries = st[s].tries + 1]]
              /\ UNCHANGED dropped
           \/ /\ st[s].tries = MaxRetries \/ ~Usable(r)
              /\ st' = [st EXCEPT ![s] = After(recordFailure(r))]
              /\ dropped' = dropped \cup ToSet(st[s].batch)
    /\ UNCHANGED <<queue, log, push, got, inflight>>

\* The pipeline does not reach Redis, or its context is cancelled already.
DrainUnsent(s) ==
    /\ st[s].pc = "send"
    /\ "redis" \in Faults \/ ~Usable(st[s])
    /\ st' = [st EXCEPT ![s] = After(recordFailure([@ EXCEPT !.tries = 0]))]
    /\ UNCHANGED <<queue, log, push, got, inflight, dropped>>

\* Bytes leave the server's write buffer: the client has them, or they are
\* lost because the client is gone and TCP has not noticed yet.
Deliver(s, sent) ==
    IF st[s].link = "up"
    THEN got' = [got EXCEPT ![s] = @ \o sent] /\ UNCHANGED dropped
    ELSE dropped' = dropped \cup ToSet(sent) /\ UNCHANGED got

\* writeSSEEvent succeeds: the frame is in the write buffer, which passes on
\* any number of frames when it fills up.
Write(s) ==
    /\ st[s].pc = "write"
    /\ st[s].link # "broken"
    /\ LET n == Head(st[s].batch)
           buf == Append(st[s].buf, n)
       IN  \E m \in 0..Len(buf) :
              /\ Deliver(s, First(buf, m))
              /\ st' = [st EXCEPT ![s] = [@ EXCEPT !.pc = "register", !.cur = n,
                                                   !.batch = Tail(st[s].batch),
                                                   !.buf = Rest(buf, m)]]
    /\ UNCHANGED <<queue, log, push, inflight>>

\* The frame cannot be written (connection reset, write deadline): what the
\* stream holds is lost, net/http cancels the request context, and
\* drainAndFlush returns.
WriteError(s) ==
    /\ st[s].pc = "write"
    /\ "client" \in Faults
    /\ dropped' = dropped \cup ToSet(st[s].batch) \cup ToSet(st[s].buf)
    /\ st' = [st EXCEPT ![s] = After([@ EXCEPT !.batch = <<>>, !.buf = <<>>,
                                               !.link = "broken", !.done = TRUE])]
    /\ UNCHANGED <<queue, log, push, got, inflight>>

\* Mutant of NextFrame: the batch loop ends after one event.
NextFrameStops(r) == [r EXCEPT !.pc = "flush", !.cur = 0]

NextFrame(r) ==
    [r EXCEPT !.pc = IF r.batch = <<>> THEN "flush" ELSE "write", !.cur = 0]

\* InFlight.Register of the event just written.
RegisterInFlight(s) ==
    /\ st[s].pc = "register"
    /\ Usable(st[s])
    /\ inflight' = inflight \cup {log[st[s].cur]}
    /\ st' = [st EXCEPT ![s] = NextFrame(@)]
    /\ UNCHANGED <<queue, log, push, got, dropped>>

\* It fails, and the error is only logged.
RegisterInFlightError(s) ==
    /\ st[s].pc = "register"
    /\ "redis" \in Faults \/ ~Usable(st[s])
    /\ st' = [st EXCEPT ![s] = NextFrame(@)]
    /\ UNCHANGED <<queue, log, push, got, inflight, dropped>>

Flush(s) ==
    /\ st[s].pc = "flush"
    /\ Deliver(s, st[s].buf)
    /\ st' = [st EXCEPT ![s] = After([@ EXCEPT !.buf = <<>>])]
    /\ UNCHANGED <<queue, log, push, inflight>>

\* Flush reports no error: it only cancels the request context.
FlushError(s) ==
    /\ st[s].pc = "flush"
    /\ "client" \in Faults
    /\ dropped' = dropped \cup ToSet(st[s].buf)
    /\ st' = [st EXCEPT ![s] = After([@ EXCEPT !.buf = <<>>, !.link = "broken", !.done = TRUE])]
    /\ UNCHANGED <<queue, log, push, got, inflight>>

(***************************************************************************)
(* RunLoop.                                                                *)
(***************************************************************************)
\* The stream starts with a drain.
Connect(s) ==
    /\ st[s].pc = "off"
    /\ st' = [st EXCEPT ![s].pc = "drain"]
    /\ UNCHANGED <<queue, log, push, got, inflight, dropped>>

PollTick(s) ==
    /\ st[s].pc = "wait"
    /\ st' = [st EXCEPT ![s].pc = "drain"]
    /\ UNCHANGED <<queue, log, push, got, inflight, dropped>>

\* Mutant of ContextDone: the case drains but does not return.
ContextDoneStays(s) ==
    /\ st[s].pc = "wait"
    /\ st[s].done
    /\ st' = [st EXCEPT ![s].pc = "drain"]
    /\ UNCHANGED <<queue, log, push, got, inflight, dropped>>

\* The select takes the cancelled context: one last drain.
ContextDone(s) ==
    /\ st[s].pc = "wait"
    /\ st[s].done
    /\ st' = [st EXCEPT ![s].pc = "drain", ![s].final = TRUE]
    /\ UNCHANGED <<queue, log, push, got, inflight, dropped>>

\* A heartbeat cannot be written: RunLoop returns at once.  (A heartbeat that
\* is written changes nothing here.)
HeartbeatError(s) ==
    /\ st[s].pc = "wait"
    /\ "client" \in Faults
    /\ st' = [st EXCEPT ![s] = Closed]
    /\ UNCHANGED <<queue, log, push, got, inflight, dropped>>

(***************************************************************************)
(* The environment.                                                        *)
(***************************************************************************)
ClientGone(s) ==
    /\ st[s].pc # "off"
    /\ "client" \in Faults
    /\ st[s].link = "up"
    /\ st' = [st EXCEPT ![s].link = "gone"]
    /\ UNCHANGED <<queue, log, push, got, inflight, dropped>>

\* net/http notices that the client is gone and cancels the request context.
ContextCancel(s) ==
    /\ st[s].link = "gone"
    /\ ~st[s].done
    /\ st' = [st EXCEPT ![s].done = TRUE]
    /\ UNCHANGED <<queue, log, push, got, inflight, dropped>>

\* The instance dies.  A pipeline Redis has begun is executed to its end.
Crash(s) ==
    /\ "crash" \in Faults
    /\ st[s].pc \notin {"off", "ranged"}
    /\ dropped' = dropped \cup ToSet(st[s].batch) \cup ToSet(st[s].buf)
    /\ st' = [st EXCEPT ![s] = Closed]
    /\ UNCHANGED <<queue, log, push, got, inflight>>

PushStep(p) == RPush(p) \/ LTrim(p) \/ PushReply(p) \/ PushLost(p) \/ PushUnsent(p)

\* What a handler does by itself once its stream is connected.
LoopStep(s) ==
    \/ DrainSkip(s) \/ DrainStart(s) \/ DrainRange(s) \/ DrainTrim(s)
    \/ DrainReply(s) \/ DrainLost(s) \/ DrainUnsent(s)
    \/ Write(s) \/ WriteError(s) \/ RegisterInFlight(s) \/ RegisterInFlightError(s)
    \/ Flush(s) \/ FlushError(s) \/ PollTick(s) \/ ContextDone(s) \/ HeartbeatError(s)

Next ==
    \/ \E p \in Pushers : PushStep(p)
    \/ \E s \in Streams : LoopStep(s) \/ Connect(s) \/ BreakerElapse(s)
    \/ \E s \in Streams : ClientGone(s) \/ ContextCancel(s) \/ Crash(s)

Spec == Init /\ [][Next]_vars

\* Redis finishes a pipeline it began, handlers and clients keep going, time
\* passes, net/http notices a client that left (TCP keep-alive), select picks
\* at random among what is ready (so the cancelled context is taken in the
\* end), and Redis is not unreachable for ever.
Fairness ==
    /\ \A p \in Pushers : WF_vars(LTrim(p))
    /\ \A s \in Streams :
          /\ WF_vars(LoopStep(s))
          /\ WF_vars(Connect(s))
          /\ WF_vars(BreakerElapse(s))
          /\ WF_vars(ContextCancel(s))
          /\ SF_vars(ContextDone(s))
          /\ SF_vars(DrainRange(s))

FairSpec == Spec /\ Fairness

(***************************************************************************)
(* Properties.                                                             *)
(***************************************************************************)
\* At every IP the client receives entries in push order and none twice,
\* whatever other streams and pushes do between the LRANGE and the LTRIM of a
\* drain; what the stream still holds comes after what it has sent.
StreamOrder ==
    \A s \in Streams :
        LET all == got[s] \o st[s].buf \o st[s].batch
        IN  \A i, j \in DOMAIN all : i < j => all[i] < all[j]

\* No entry is received twice, at one IP or at two ("no double-delivery").
AtMostOnce ==
    \A s, t \in Streams : \A i \in DOMAIN got[s], j \in DOMAIN got[t] :
        got[s][i] = got[t][j] => s = t /\ i = j

\* Every pushed entry is in the list, in the hands of a stream, received, or
\* lost for a reason: a drain, a write or a flush failed, the client was gone
\* (the code writes to a dead client without an error, and does not look at the
\* error of a flush), the instance died, or the cap removed it.  None disappears
\* between a drain that succeeds and a client that listens.
LossAccounted ==
    \A n \in DOMAIN log :
        \/ n \in ToSet(queue) \cup dropped
        \/ \E s \in Streams : n \in ToSet(got[s] \o st[s].buf \o st[s].batch)

\* The list passes MaxQueueDepth by at most one entry for every push whose
\* LTRIM is still to come (events.go:37-38).
QueueBounded ==
    Len(queue) <= MaxQueueDepth + Cardinality({p \in Pushers : push[p].pc = "capping"})

\* Once clients stop leaving, no entry stays in the list or in the hands of a
\* stream for ever: it is received in the end, or was lost for one of the
\* reasons above, however often Redis fails and the circuit breaker opens.
EventuallySettled ==
    (\A s \in Streams : <>[](st[s].link = "up")) =>
        \A n \in 1..MaxLog :
            (n \in DOMAIN log) ~> (n \in dropped \/ \E s \in Streams : n \in ToSet(got[s]))

\* The handler of a client that left, or whose connection broke, ends: it
\* does not go on draining the list for ever.
StreamEnds ==
    \A s \in Streams : (st[s].link # "up") ~> (st[s].pc = "off")

(***************************************************************************)
(* Delivery implements the abstract channel.  A stream holds what its last *)
(* drain took from the list and has not left its write buffer; a batch     *)
(* that LRANGE returned is still the list's until the LTRIM.               *)
(***************************************************************************)
held == [s \in Streams |-> IF st[s].pc = "ranged" THEN st[s].buf ELSE st[s].buf \o st[s].batch]

C == INSTANCE Channel WITH puts <- Len(log), pending <- queue, lost <- dropped

\* Every step of pushes, streams, clients and crashes is a step of the channel
\* or leaves it alone: entries move from the list (Push, Drain, events.go:32-54)
\* through one stream (drainAndFlush, loop.go:161-234) to the client in push
\* order, without repetition, and are lost only at a full list or in a stream.
ImplementsChannel == C!Spec
=============================================================================
