----------------------------- MODULE Admission -----------------------------
(***************************************************************************)
(* The way to a stream: the ticket endpoint and store (Tickets) and the    *)
(* connection registry (Connections) on one clock.  V1SSEStreamEvents      *)
(* consumes the ticket first and registers the connection afterwards, so a *)
(* client that is turned away at the registry has to start again with a    *)
(* new ticket, within the rate limit of its IP.                            *)
(***************************************************************************)
EXTENDS Integers, FiniteSets

CONSTANTS
    Clients, IPs, Requests, Attempts, Limit, Window, TicketTTL, Faults, NoTicket,  \* Tickets
    Instances, Handlers, ConnTTL, MaxGap, LoseReplies, NoOwner, NoKey,             \* Connections
    MaxRetries,  \* go-redis, both
    MaxHits      \* a client asks again while fewer hits than this are counted

VARIABLES
    counter, window, store, storeTTL, req, att,               \* Tickets
    owner, ttl, status, sweep, pc, key, inst, tries, gap      \* Connections

tickets == <<counter, window, store, storeTTL, req, att>>
connections == <<owner, ttl, status, sweep, pc, key, inst, tries, gap>>
vars == <<counter, window, store, storeTTL, req, att,
          owner, ttl, status, sweep, pc, key, inst, tries, gap>>

\* One connection key, and one ticket key, per client and IP.
Keys == Clients \X IPs

\* What Tickets and Connections assume.
ASSUME AdmissionAssumption ==
    /\ Limit \in Nat /\ Window \in Nat \ {0} /\ TicketTTL \in Nat \ {0}
    /\ Faults \subseteq {"redis", "reply"} /\ NoTicket \notin Requests
    /\ ConnTTL \in Nat \ {0} /\ MaxGap \in Nat /\ LoseReplies \subseteq {"SET", "DEL"}
    /\ NoOwner \notin Instances /\ NoKey \notin Keys
    /\ MaxRetries \in Nat

T == INSTANCE Tickets
C == INSTANCE Connections WITH Shutdowns <- {}, MaxLag <- 0

(***************************************************************************)
(* The type invariant.                                                     *)
(***************************************************************************)
TypeOK == T!TypeOK /\ C!TypeOK

Init == T!Init /\ C!Init

KeyOf(r) == <<req[r].client, req[r].ip>>

(***************************************************************************)
(* The client.                                                             *)
(***************************************************************************)
\* It asks for another ticket when the last one is of no use any more.  (The
\* name of the old request serves again once nothing refers to it.)
AskAgain(r) ==
    /\ req[r].pc \in {"issued", "refused"}
    /\ ~T!Valid(r)
    /\ \A a \in Attempts : att[a].pc = "consuming" => att[a].ticket # r
    /\ counter[req[r].ip] < MaxHits
    /\ req' = [req EXCEPT ![r] = [@ EXCEPT !.pc = "new", !.tries = 0, !.allowed = "no", !.life = 0]]
    /\ UNCHANGED <<counter, window, store, storeTTL, att, connections>>

\* It connects again after a response, whatever that was.
TryAgain(a) ==
    /\ att[a].pc \in {"admitted", "denied"}
    /\ att' = [att EXCEPT ![a] = [pc |-> "new", ticket |-> NoTicket, tries |-> 0]]
    /\ UNCHANGED <<counter, window, store, storeTTL, req, connections>>

(***************************************************************************)
(* V1AuthTicket and V1SSEStreamEvents.                                     *)
(***************************************************************************)
TicketStep(r) == T!RequestStep(r) /\ UNCHANGED connections

\* The request for a stream up to the ticket, when it does not get past it.
TurnedAway(a) ==
    /\ \/ \E r \in Requests, ip \in IPs : T!Present(a, r, ip)
       \/ att[a].pc = "consuming" /\ ~T!Valid(att[a].ticket) /\ T!Consume(a)
       \/ T!ConsumeLost(a)
       \/ T!ConsumeUnsent(a)
    /\ UNCHANGED connections

\* The ticket is consumed and the same handler goes on to the registry.
Open(a, h, i) ==
    /\ att[a].pc = "consuming"
    /\ T!Valid(att[a].ticket)
    /\ T!Consume(a)
    /\ C!Arrive(h, i, KeyOf(att[a].ticket))

\* The rest of the handler: the registry, the stream and its end.
StreamStep(h) ==
    /\ \/ C!Register(h) \/ C!RegisterDuplicate(h) \/ C!RegisterLost(h) \/ C!RegisterUnsent(h)
       \/ C!Refresh(h) \/ C!Leave(h)
       \/ C!Delete(h) \/ C!DeleteLost(h) \/ C!DeleteUnsent(h)
    /\ UNCHANGED tickets

ProcessStep(i) == (C!Start(i) \/ C!Crash(i)) /\ UNCHANGED tickets

Tick == T!Tick /\ C!Tick

Next ==
    \/ \E r \in Requests : AskAgain(r) \/ TicketStep(r)
    \/ \E a \in Attempts : TryAgain(a) \/ TurnedAway(a)
    \/ \E a \in Attempts, h \in Handlers, i \in Instances : Open(a, h, i)
    \/ \E h \in Handlers : StreamStep(h)
    \/ \E i \in Instances : ProcessStep(i)
    \/ Tick

Spec == Init /\ [][Next]_vars

(***************************************************************************)
(* Time passes, handlers keep going, and the client does not give up.  A   *)
(* step that can succeed again and again succeeds in the end: Redis does   *)
(* not fail for ever, and the client is not always too late.               *)
(***************************************************************************)
Allowed(r) == T!Allow(r) /\ req'[r].pc = "storing" /\ UNCHANGED connections
Stored(r) == req[r].life > 0 /\ T!Store(r) /\ UNCHANGED connections
Usable(r) == req[r].pc = "issued" /\ req[r].life > 0 /\ T!Valid(r)
Back(a) == (\E r \in Requests : Usable(r)) /\ TryAgain(a)
Presented(a) ==
    /\ \E r \in Requests, ip \in IPs : T!Present(a, r, ip)
    /\ att'[a].pc = "consuming"
    /\ UNCHANGED connections
Answered(a) == att[a].pc = "consuming" /\ TurnedAway(a)
Registered(h) == C!Register(h) /\ UNCHANGED tickets

Fairness ==
    /\ WF_vars(Tick)
    /\ \A r \in Requests :
          /\ WF_vars(AskAgain(r) \/ TicketStep(r))
          /\ SF_vars(Allowed(r))
          /\ SF_vars(Stored(r))
    /\ \A a \in Attempts :
          /\ SF_vars(Back(a))
          /\ WF_vars(Answered(a))
          /\ SF_vars(Presented(a))
          /\ SF_vars(\E h \in Handlers, i \in Instances : Open(a, h, i))
    /\ \A h \in Handlers :
          /\ SF_vars(Registered(h))
          /\ WF_vars((C!RegisterDuplicate(h) \/ C!Delete(h) \/ C!DeleteUnsent(h)) /\ UNCHANGED tickets)
          /\ WF_vars(C!Refresh(h) /\ UNCHANGED tickets)

FairSpec == Spec /\ Fairness

(***************************************************************************)
(* Properties.                                                             *)
(***************************************************************************)
\* A client that keeps trying gets its stream, again and again, as long as some
\* instance stays up: a ticket spent on an attempt that ended in 429 or 500
\* (stream.go:84 consumes it before :110 registers), a key left behind by a
\* crash or a lost reply, and a used-up rate limit hold it up but never lock
\* it out.
Readmitted ==
    (\E i \in Instances : <>[](status[i] = "up")) =>
        \A k \in Keys : []<>(\E h \in Handlers : pc[h] = "streaming" /\ key[h] = k)
=============================================================================
