------------------------------ MODULE Tickets ------------------------------
(***************************************************************************)
(* Pre-auth tickets: POST /v1/auth/ticket (rate limiter, JWT, Redis key    *)
(* scorpion:ticket:<client>:<ip>) and the part of GET /v1/stream/events    *)
(* that validates and consumes a ticket.                                   *)
(*                                                                         *)
(* The two Lua scripts are atomic; go-redis repeats a command, and so a    *)
(* script, whose reply is lost.  A ticket is named by the request that     *)
(* made it (its jti is a fresh uuid).  Time is counted in ticks.           *)
(***************************************************************************)
EXTENDS Integers, FiniteSets

CONSTANTS
    Clients,     \* client ids: subjects of valid bearer tokens
    IPs,         \* client IPs
    Requests,    \* ticket requests, each made at most once
    Attempts,    \* requests to open a stream, each made at most once
    Limit,       \* RateLimit.TicketRPM + RateLimit.TicketBurst
    Window,      \* windowSeconds, in ticks
    TicketTTL,   \* Auth.TicketTTL, in ticks
    MaxRetries,  \* go-redis: how often a command without a reply is repeated
    Faults,      \* "redis": commands that do not reach Redis;
                 \* "reply": replies lost after execution
    NoTicket     \* the value of a ticket key that does not exist

ASSUME LimitAssumption == Limit \in Nat
ASSUME WindowAssumption == Window \in Nat \ {0}
ASSUME TicketTTLAssumption == TicketTTL \in Nat \ {0}
ASSUME TicketRetryAssumption == MaxRetries \in Nat
ASSUME TicketFaultsAssumption == Faults \subseteq {"redis", "reply"}
ASSUME NoTicketAssumption == NoTicket \notin Requests

VARIABLES
    counter,   \* counter[ip]: the rate-limit key, 0 when it does not exist
    window,    \* window[ip]: ticks until Redis drops it; 0 without expiry
    store,     \* store[c][ip]: the jti under the ticket key, or NoTicket
    storeTTL,  \* storeTTL[c][ip]: ticks until Redis drops it
    req,       \* req[r]: the state of a ticket request
    att        \* att[a]: the state of an attempt to open a stream

vars == <<counter, window, store, storeTTL, req, att>>

(***************************************************************************)
(* A request: where it is, who made it, repetitions of its current         *)
(* command, whether it was allowed in the present life of the counter or   *)
(* before, and the ticks its JWT is still valid.                           *)
(***************************************************************************)
RequestStates ==
    [pc : {"new", "limiting", "storing", "issued", "refused"},
     client : Clients, ip : IPs, tries : 0..MaxRetries,
     allowed : {"no", "now", "before"}, life : 0..TicketTTL]

AttemptStates ==
    [pc : {"new", "consuming", "admitted", "denied"},
     ticket : Requests \cup {NoTicket}, tries : 0..MaxRetries]

(***************************************************************************)
(* The type invariant.                                                     *)
(***************************************************************************)
LimiterOK ==
    /\ counter \in [IPs -> Nat]
    /\ window \in [IPs -> 0..Window]

StoreOK ==
    /\ store \in [Clients -> [IPs -> Requests \cup {NoTicket}]]
    /\ storeTTL \in [Clients -> [IPs -> 0..TicketTTL]]

AttemptsOK ==
    /\ att \in [Attempts -> AttemptStates]
    /\ \A a \in Attempts : att[a].pc \in {"consuming", "admitted"} => att[a].ticket \in Requests

TypeOK ==
    /\ LimiterOK
    /\ StoreOK
    /\ req \in [Requests -> RequestStates]
    /\ AttemptsOK

Init ==
    /\ counter = [ip \in IPs |-> 0]
    /\ window = [ip \in IPs |-> 0]
    /\ store = [c \in Clients |-> [ip \in IPs |-> NoTicket]]
    /\ storeTTL = [c \in Clients |-> [ip \in IPs |-> 0]]
    /\ req \in [Requests ->
                  [pc : {"new"}, client : Clients, ip : IPs, tries : {0},
                   allowed : {"no"}, life : {0}]]
    /\ att = [a \in Attempts |-> [pc |-> "new", ticket |-> NoTicket, tries |-> 0]]

(***************************************************************************)
(* V1AuthTicket.                                                           *)
(***************************************************************************)
\* A request passes the token middleware.
Ask(r) ==
    /\ req[r].pc = "new"
    /\ req' = [req EXCEPT ![r].pc = "limiting"]
    /\ UNCHANGED <<counter, window, store, storeTTL, att>>

\* Mutant of RateLimitScript: no EXPIRE.
RateLimitWithoutExpire(ip) ==
    /\ counter' = [counter EXCEPT ![ip] = @ + 1]
    /\ UNCHANGED window

\* Mutant of RateLimitScript: PEXPIRE with a number of seconds.
RateLimitPExpire(ip) ==
    /\ counter' = [counter EXCEPT ![ip] = @ + 1]
    /\ window' = [window EXCEPT ![ip] = IF counter[ip] + 1 = 1 THEN 1 ELSE @]

\* atomic_ratelimit.lua: INCR, and EXPIRE on the first hit.
RateLimitScript(ip) ==
    /\ counter' = [counter EXCEPT ![ip] = @ + 1]
    /\ window' = [window EXCEPT ![ip] = IF counter[ip] + 1 = 1 THEN Window ELSE @]

\* Mutant of Allow: the count before the request is compared with the limit.
AllowOneMore(r) ==
    /\ req[r].pc = "limiting"
    /\ RateLimitScript(req[r].ip)
    /\ \/ /\ counter[req[r].ip] <= Limit
          /\ req' = [req EXCEPT ![r].pc = "storing", ![r].tries = 0,
                                ![r].allowed = "now", ![r].life = TicketTTL]
       \/ /\ counter[req[r].ip] > Limit
          /\ req' = [req EXCEPT ![r].pc = "refused"]
    /\ UNCHANGED <<store, storeTTL, att>>

\* The limiter answers: GenerateTicket (expiry in TicketTTL), or 429.
Allow(r) ==
    /\ req[r].pc = "limiting"
    /\ RateLimitScript(req[r].ip)
    /\ \/ /\ counter'[req[r].ip] <= Limit
          /\ req' = [req EXCEPT ![r].pc = "storing", ![r].tries = 0,
                                ![r].allowed = "now", ![r].life = TicketTTL]
       \/ /\ counter'[req[r].ip] > Limit
          /\ req' = [req EXCEPT ![r].pc = "refused"]
    /\ UNCHANGED <<store, storeTTL, att>>

\* Mutant of AllowLost: one attempt too many.
AllowLostTooOften(r) ==
    /\ req[r].pc = "limiting"
    /\ "reply" \in Faults
    /\ RateLimitScript(req[r].ip)
    /\ \/ req[r].tries <= MaxRetries /\ req' = [req EXCEPT ![r].tries = @ + 1]
       \/ req' = [req EXCEPT ![r].pc = "refused"]
    /\ UNCHANGED <<store, storeTTL, att>>

\* The script ran and its reply is lost: again, or an error, which counts as
\* "not allowed": 429.
AllowLost(r) ==
    /\ req[r].pc = "limiting"
    /\ "reply" \in Faults
    /\ RateLimitScript(req[r].ip)
    /\ \/ req[r].tries < MaxRetries /\ req' = [req EXCEPT ![r].tries = @ + 1]
       \/ req' = [req EXCEPT ![r].pc = "refused"]
    /\ UNCHANGED <<store, storeTTL, att>>

AllowUnsent(r) ==
    /\ req[r].pc = "limiting"
    /\ "redis" \in Faults
    /\ req' = [req EXCEPT ![r].pc = "refused"]
    /\ UNCHANGED <<counter, window, store, storeTTL, att>>

\* The ticket key of the client and IP of r gets a value and a TTL: SET jti
\* EX TicketTTL, over whatever ticket is there, or DEL.
WriteKey(r, value, ttl) ==
    /\ store' = [store EXCEPT ![req[r].client][req[r].ip] = value]
    /\ storeTTL' = [storeTTL EXCEPT ![req[r].client][req[r].ip] = ttl]

SetTicket(r) == WriteKey(r, r, TicketTTL)

\* 200: the client has the ticket.
Store(r) ==
    /\ req[r].pc = "storing"
    /\ SetTicket(r)
    /\ req' = [req EXCEPT ![r].pc = "issued"]
    /\ UNCHANGED <<counter, window, att>>

\* SET executed, reply lost: again, or 500.
StoreLost(r) ==
    /\ req[r].pc = "storing"
    /\ "reply" \in Faults
    /\ SetTicket(r)
    /\ \/ req[r].tries < MaxRetries /\ req' = [req EXCEPT ![r].tries = @ + 1]
       \/ req' = [req EXCEPT ![r].pc = "refused"]
    /\ UNCHANGED <<counter, window, att>>

StoreUnsent(r) ==
    /\ req[r].pc = "storing"
    /\ "redis" \in Faults
    /\ req' = [req EXCEPT ![r].pc = "refused"]
    /\ UNCHANGED <<counter, window, store, storeTTL, att>>

(***************************************************************************)
(* V1SSEStreamEvents, up to the consumption of the ticket.                 *)
(***************************************************************************)
\* Ticket r is presented from ip: ValidateTicket checks the JWT's expiry,
\* then the request's IP is compared with the ticket's.
Present(a, r, ip) ==
    /\ att[a].pc = "new"
    /\ req[r].pc = "issued"
    /\ \/ /\ req[r].life > 0 /\ ip = req[r].ip
          /\ att' = [att EXCEPT ![a].pc = "consuming", ![a].ticket = r]
       \/ /\ ~(req[r].life > 0 /\ ip = req[r].ip)
          /\ att' = [att EXCEPT ![a].pc = "denied"]
    /\ UNCHANGED <<counter, window, store, storeTTL, req>>

\* atomic_ticket_validate.lua finds ticket r, and deletes it.
Valid(r) == store[req[r].client][req[r].ip] = r

\* Mutant of ConsumeScript: the script compares but does not DEL.
ConsumeScriptKeeps(r) == UNCHANGED <<store, storeTTL>>

ConsumeScript(r) ==
    IF Valid(r) THEN WriteKey(r, NoTicket, 0) ELSE UNCHANGED <<store, storeTTL>>

\* The script answers: on to the connection registry, or 403.
Consume(a) ==
    /\ att[a].pc = "consuming"
    /\ ConsumeScript(att[a].ticket)
    /\ att' = [att EXCEPT ![a].pc = IF Valid(att[a].ticket) THEN "admitted" ELSE "denied"]
    /\ UNCHANGED <<counter, window, req>>

\* The script ran and its reply is lost: again, or 500.
ConsumeLost(a) ==
    /\ att[a].pc = "consuming"
    /\ "reply" \in Faults
    /\ ConsumeScript(att[a].ticket)
    /\ \/ att[a].tries < MaxRetries /\ att' = [att EXCEPT ![a].tries = @ + 1]
       \/ att' = [att EXCEPT ![a].pc = "denied"]
    /\ UNCHANGED <<counter, window, req>>

ConsumeUnsent(a) ==
    /\ att[a].pc = "consuming"
    /\ "redis" \in Faults
    /\ att' = [att EXCEPT ![a].pc = "denied"]
    /\ UNCHANGED <<counter, window, store, storeTTL, req>>

(***************************************************************************)
(* Time.                                                                   *)
(***************************************************************************)
\* Redis drops keys whose TTL runs out.
LimiterTick ==
    /\ counter' = [ip \in IPs |-> IF window[ip] = 1 THEN 0 ELSE counter[ip]]
    /\ window' = [ip \in IPs |-> IF window[ip] = 0 THEN 0 ELSE window[ip] - 1]

StoreTick ==
    /\ store' = [c \in Clients |-> [ip \in IPs |->
                   IF storeTTL[c][ip] = 1 THEN NoTicket ELSE store[c][ip]]]
    /\ storeTTL' = [c \in Clients |-> [ip \in IPs |->
                      IF storeTTL[c][ip] = 0 THEN 0 ELSE storeTTL[c][ip] - 1]]

\* JWTs grow old.
Aged(r) ==
    [req[r] EXCEPT !.life = IF @ = 0 THEN 0 ELSE @ - 1,
                   !.allowed = IF @ = "now" /\ window[req[r].ip] = 1 THEN "before" ELSE @]

Tick ==
    /\ LimiterTick
    /\ StoreTick
    /\ req' = [r \in Requests |-> Aged(r)]
    /\ UNCHANGED att

RequestStep(r) ==
    \/ Ask(r) \/ Allow(r) \/ AllowLost(r) \/ AllowUnsent(r)
    \/ Store(r) \/ StoreLost(r) \/ StoreUnsent(r)

AttemptStep(a) ==
    \/ \E r \in Requests, ip \in IPs : Present(a, r, ip)
    \/ Consume(a) \/ ConsumeLost(a) \/ ConsumeUnsent(a)

Next ==
    \/ \E r \in Requests : RequestStep(r)
    \/ \E a \in Attempts : AttemptStep(a)
    \/ Tick

Spec == Init /\ [][Next]_vars

(***************************************************************************)
(* Properties.                                                             *)
(***************************************************************************)
\* A ticket lets in at most one attempt (atomic_ticket_validate.lua), however
\* requests, retries and re-issued tickets for the same key interleave.
SingleUse ==
    \A a, b \in Attempts :
        att[a].pc = "admitted" /\ att[b].pc = "admitted" /\ att[a].ticket = att[b].ticket
            => a = b

\* During one life of an IP's counter at most Limit requests are allowed, lost
\* replies and repeated scripts included.
WindowLimit ==
    \A ip \in IPs : Cardinality({r \in Requests : req[r].ip = ip /\ req[r].allowed = "now"}) <= Limit

\* The windows are fixed, so an IP can be allowed its whole limit just before
\* one ends and again just after: but never more than twice the limit within
\* the length of a window (atomic_ratelimit.lua:8 sets the TTL on the first hit
\* only).  life tells how long ago a request was allowed, for tickets that live
\* at least as long as a window.
TwoWindows ==
    TicketTTL >= Window =>
        \A ip \in IPs :
            Cardinality({r \in Requests : req[r].ip = ip /\ req[r].life > TicketTTL - Window})
                <= 2 * Limit
=============================================================================
