--------------------------- MODULE TicketsProofs ---------------------------
(***************************************************************************)
(* Proofs about tickets, for any number of clients, IPs, requests and      *)
(* attempts, any TTL and limit, and under lost replies and retries.        *)
(***************************************************************************)
EXTENDS Tickets, FiniteSetTheorems, TLAPS

USE LimitAssumption, WindowAssumption, TicketTTLAssumption, TicketRetryAssumption,
    TicketFaultsAssumption, NoTicketAssumption

(***************************************************************************)
(* Type correctness, one variable at a time.                               *)
(***************************************************************************)
LEMMA LimiterStep ==
  ASSUME LimiterOK, req \in [Requests -> RequestStates], [Next]_vars
  PROVE  LimiterOK'
<1> USE DEF LimiterOK
<1>1. ASSUME NEW r \in Requests, RateLimitScript(req[r].ip) PROVE LimiterOK'
  <2>1. req[r].ip \in IPs
    BY DEF RequestStates
  <2> QED BY <1>1, <2>1 DEF RateLimitScript
<1>2. CASE Tick
  <2>1. LimiterTick
    BY <1>2 DEF Tick
  <2> QED BY <2>1 DEF LimiterTick
<1>3. CASE UNCHANGED <<counter, window>>
  BY <1>3
<1> HIDE DEF LimiterOK
<1> QED
  BY <1>1, <1>2, <1>3 DEF Next, RequestStep, AttemptStep, Ask, Allow, AllowLost,
     AllowUnsent, Store, StoreLost, StoreUnsent, Present, Consume, ConsumeLost,
     ConsumeUnsent, vars

LEMMA StoreStep ==
  ASSUME StoreOK, AttemptsOK, req \in [Requests -> RequestStates], [Next]_vars
  PROVE  StoreOK'
<1>1. ASSUME NEW r \in Requests, NEW v \in Requests \cup {NoTicket},
             NEW t \in 0..TicketTTL, WriteKey(r, v, t)
      PROVE  StoreOK'
  <2>1. req[r].client \in Clients /\ req[r].ip \in IPs
    BY DEF RequestStates
  <2> QED BY <1>1, <2>1 DEF WriteKey, StoreOK
<1>2. ASSUME NEW r \in Requests, SetTicket(r) PROVE StoreOK'
  BY <1>1, <1>2 DEF SetTicket
<1>3. CASE UNCHANGED <<store, storeTTL>>
  BY <1>3 DEF StoreOK
<1>4. ASSUME NEW r \in Requests, ConsumeScript(r) PROVE StoreOK'
  BY <1>1, <1>3, <1>4 DEF ConsumeScript
<1>5. ASSUME NEW a \in Attempts, att[a].pc = "consuming", ConsumeScript(att[a].ticket)
      PROVE  StoreOK'
  BY <1>4, <1>5 DEF AttemptsOK
<1>6. CASE Tick
  <2>1. StoreTick
    BY <1>6 DEF Tick
  <2>2. store' \in [Clients -> [IPs -> Requests \cup {NoTicket}]]
    BY <2>1 DEF StoreTick, StoreOK
  <2>3. storeTTL' \in [Clients -> [IPs -> 0..TicketTTL]]
    <3>1. \A c \in Clients, ip \in IPs :
             (IF storeTTL[c][ip] = 0 THEN 0 ELSE storeTTL[c][ip] - 1) \in 0..TicketTTL
      <4> TAKE c \in Clients, ip \in IPs
      <4>1. storeTTL[c][ip] \in 0..TicketTTL
        BY DEF StoreOK
      <4> QED BY <4>1
    <3> QED BY <2>1, <3>1 DEF StoreTick
  <2> QED BY <2>2, <2>3 DEF StoreOK
<1> QED
  BY <1>2, <1>3, <1>5, <1>6 DEF Next, RequestStep, AttemptStep, Ask, Allow, AllowLost,
     AllowUnsent, Store, StoreLost, StoreUnsent, Present, Consume, ConsumeLost,
     ConsumeUnsent, vars

LEMMA RequestsStep ==
  ASSUME req \in [Requests -> RequestStates], [Next]_vars
  PROVE  req' \in [Requests -> RequestStates]
<1> USE DEF RequestStates
<1>1. ASSUME NEW r \in Requests, Ask(r) PROVE req' \in [Requests -> RequestStates]
  BY <1>1 DEF Ask
<1>2. ASSUME NEW r \in Requests, Allow(r) PROVE req' \in [Requests -> RequestStates]
  BY <1>2 DEF Allow
<1>3. ASSUME NEW r \in Requests, AllowLost(r) PROVE req' \in [Requests -> RequestStates]
  BY <1>3 DEF AllowLost
<1>4. ASSUME NEW r \in Requests, AllowUnsent(r) PROVE req' \in [Requests -> RequestStates]
  BY <1>4 DEF AllowUnsent
<1>5. ASSUME NEW r \in Requests, Store(r) PROVE req' \in [Requests -> RequestStates]
  BY <1>5 DEF Store
<1>6. ASSUME NEW r \in Requests, StoreLost(r) PROVE req' \in [Requests -> RequestStates]
  BY <1>6 DEF StoreLost
<1>7. ASSUME NEW r \in Requests, StoreUnsent(r) PROVE req' \in [Requests -> RequestStates]
  BY <1>7 DEF StoreUnsent
<1>8. CASE Tick
  <2>1. \A r \in Requests : Aged(r) \in RequestStates
    <3> TAKE r \in Requests
    <3>1. req[r] \in RequestStates
      OBVIOUS
    <3>2. (IF req[r].life = 0 THEN 0 ELSE req[r].life - 1) \in 0..TicketTTL
      BY <3>1
    <3> QED BY <3>1, <3>2 DEF Aged
  <2> QED BY <1>8, <2>1 DEF Tick
<1>9. CASE UNCHANGED req
  BY <1>9
<1> HIDE DEF RequestStates
<1> QED
  BY <1>1, <1>2, <1>3, <1>4, <1>5, <1>6, <1>7, <1>8, <1>9 DEF Next, RequestStep,
     AttemptStep, Present, Consume, ConsumeLost, ConsumeUnsent, vars

LEMMA AttemptsStep ==
  ASSUME AttemptsOK, [Next]_vars
  PROVE  AttemptsOK'
<1> USE DEF AttemptsOK, AttemptStates
<1>1. ASSUME NEW a \in Attempts, NEW r \in Requests, NEW ip \in IPs, Present(a, r, ip)
      PROVE  AttemptsOK'
  BY <1>1 DEF Present
<1>2. ASSUME NEW a \in Attempts, Consume(a) PROVE AttemptsOK'
  BY <1>2 DEF Consume
<1>3. ASSUME NEW a \in Attempts, ConsumeLost(a) PROVE AttemptsOK'
  BY <1>3 DEF ConsumeLost
<1>4. ASSUME NEW a \in Attempts, ConsumeUnsent(a) PROVE AttemptsOK'
  BY <1>4 DEF ConsumeUnsent
<1>5. CASE UNCHANGED att
  BY <1>5
<1> HIDE DEF AttemptsOK, AttemptStates
<1> QED
  BY <1>1, <1>2, <1>3, <1>4, <1>5 DEF Next, RequestStep, AttemptStep, Ask, Allow,
     AllowLost, AllowUnsent, Store, StoreLost, StoreUnsent, Tick, vars

LEMMA TicketTypeInit == Init => TypeOK
<1> SUFFICES ASSUME Init PROVE TypeOK
  OBVIOUS
<1>1. req \in [Requests -> RequestStates]
  BY DEF Init, RequestStates
<1>2. LimiterOK /\ StoreOK
  BY DEF Init, LimiterOK, StoreOK
<1>3. AttemptsOK
  BY DEF Init, AttemptsOK, AttemptStates
<1> QED BY <1>1, <1>2, <1>3 DEF TypeOK

LEMMA TicketTypeStep == TypeOK /\ [Next]_vars => TypeOK'
BY LimiterStep, StoreStep, RequestsStep, AttemptsStep DEF TypeOK

\* Every reachable state of the ticket endpoint and store is well typed: an
\* attempt past the JWT check always names a real ticket (stream.go:41-84).
THEOREM TicketTypeCorrect == Spec => []TypeOK
<1> QED BY TicketTypeInit, TicketTypeStep, PTL DEF Spec

(***************************************************************************)
(* Single use.  Two facts make it inductive: a ticket can only be          *)
(* presented once V1AuthTicket has answered, and from then on no SET (and  *)
(* no retry of one) writes it again; and a ticket that let an attempt in   *)
(* is not in the store.                                                    *)
(***************************************************************************)
PresentedWasIssued ==
    \A a \in Attempts : att[a].pc \in {"consuming", "admitted"} => req[att[a].ticket].pc = "issued"

SpentIsGone == \A a \in Attempts : att[a].pc = "admitted" => ~Valid(att[a].ticket)

\* A request keeps its client and IP, and once answered 200 stays so.
LEMMA RequestStable ==
  ASSUME TypeOK, [Next]_vars, NEW t \in Requests
  PROVE  /\ req'[t].client = req[t].client
         /\ req'[t].ip = req[t].ip
         /\ req[t].pc = "issued" => req'[t].pc = "issued"
<1> USE DEF TypeOK, RequestStates
<1>1. ASSUME NEW r \in Requests, RequestStep(r)
      PROVE  /\ req'[t].client = req[t].client
             /\ req'[t].ip = req[t].ip
             /\ req[t].pc = "issued" => req'[t].pc = "issued"
  BY <1>1 DEF RequestStep, Ask, Allow, AllowLost, AllowUnsent, Store, StoreLost, StoreUnsent
<1>2. CASE Tick
  BY <1>2 DEF Tick, Aged
<1>3. CASE UNCHANGED req
  BY <1>3
<1> QED
  BY <1>1, <1>2, <1>3 DEF Next, AttemptStep, Present, Consume, ConsumeLost, ConsumeUnsent, vars

\* What SingleUse needs besides the types.
Spent == SingleUse /\ PresentedWasIssued /\ SpentIsGone

LEMMA SpentStep ==
  ASSUME TypeOK, Spent, [Next]_vars
  PROVE  Spent'
<1> DEFINE Held(a) == att[a].pc \in {"consuming", "admitted"}
<1>1. \A a \in Attempts : Held(a) => att[a].ticket \in Requests
  BY DEF TypeOK, AttemptsOK
<1>2. \A t \in Requests : /\ req[t].client \in Clients /\ req'[t].client = req[t].client
                          /\ req[t].ip \in IPs /\ req'[t].ip = req[t].ip
                          /\ req[t].pc = "issued" => req'[t].pc = "issued"
  BY RequestStable DEF TypeOK, RequestStates
<1>3. /\ att \in [Attempts -> AttemptStates]
      /\ store \in [Clients -> [IPs -> Requests \cup {NoTicket}]]
  BY DEF TypeOK, AttemptsOK, StoreOK
<1> USE DEF Spent, SingleUse, PresentedWasIssued, SpentIsGone
<1>4. ASSUME UNCHANGED att, \A t \in Requests : req[t].pc = "issued" /\ ~Valid(t) => ~Valid(t)'
      PROVE  Spent'
  BY <1>1, <1>2, <1>4
\* The step of an attempt that is not let in.
<1>5. ASSUME NEW a \in Attempts,
             \A b \in Attempts : b # a => att'[b] = att[b],
             \/ att'[a].pc = "denied"
             \/ /\ att'[a].pc = "consuming" /\ att'[a].ticket \in Requests
                /\ req[att'[a].ticket].pc = "issued",
             \A t \in Requests : ~Valid(t) => ~Valid(t)'
      PROVE  Spent'
  BY <1>1, <1>2, <1>5
<1>6. store' = store => \A t \in Requests : Valid(t)' <=> Valid(t)
  BY <1>2 DEF Valid
<1>7. ASSUME NEW r \in Requests, req[r].pc = "storing", SetTicket(r), UNCHANGED att
      PROVE  Spent'
  <2>1. \A t \in Requests : t # r /\ ~Valid(t) => ~Valid(t)'
    BY <1>2, <1>3, <1>7 DEF SetTicket, WriteKey, Valid
  <2> QED BY <1>4, <1>7, <2>1
<1>8. ASSUME NEW a \in Attempts, NEW r \in Requests, NEW ip \in IPs, Present(a, r, ip)
      PROVE  Spent'
  <2>1. \A b \in Attempts : b # a => att'[b] = att[b]
    BY <1>3, <1>8 DEF Present
  <2>2. \/ att'[a].pc = "denied"
        \/ att'[a].pc = "consuming" /\ att'[a].ticket = r /\ req[r].pc = "issued"
    BY <1>3, <1>8 DEF Present, AttemptStates
  <2>3. \A t \in Requests : ~Valid(t) => ~Valid(t)'
    BY <1>6, <1>8 DEF Present
  <2> QED BY <1>5, <2>1, <2>2, <2>3
<1>9. ASSUME NEW r \in Requests, ConsumeScript(r)
      PROVE  /\ \A t \in Requests : ~Valid(t) => ~Valid(t)'
             /\ ~Valid(r)'
  <2>1. CASE Valid(r)
    BY <1>2, <1>3, <1>9, <2>1, NoTicketAssumption DEF ConsumeScript, WriteKey, Valid
  <2>2. CASE ~Valid(r)
    BY <1>6, <1>9, <2>2 DEF ConsumeScript
  <2> QED BY <2>1, <2>2
<1>10. ASSUME NEW a \in Attempts, Consume(a) PROVE Spent'
  <2>1. \A b \in Attempts : b # a => att'[b] = att[b]
    BY <1>3, <1>10 DEF Consume
  <2>2. /\ att[a].ticket \in Requests
        /\ \A t \in Requests : ~Valid(t) => ~Valid(t)'
        /\ ~Valid(att[a].ticket)'
        /\ req[att[a].ticket].pc = "issued"
    BY <1>1, <1>9, <1>10 DEF Consume
  <2>3. CASE Valid(att[a].ticket)
    <3>1. att'[a].pc = "admitted" /\ att'[a].ticket = att[a].ticket
      BY <1>3, <1>10, <2>3 DEF Consume, AttemptStates
    <3>2. \A b \in Attempts : att[b].pc = "admitted" => att[b].ticket # att[a].ticket
      BY <2>3
    <3> QED BY <1>1, <1>2, <2>1, <2>2, <3>1, <3>2
  <2>4. CASE ~Valid(att[a].ticket)
    <3>1. att'[a].pc = "denied"
      BY <1>3, <1>10, <2>4 DEF Consume, AttemptStates
    <3> QED BY <1>5, <2>1, <2>2, <3>1
  <2> QED BY <2>3, <2>4
<1>11. ASSUME NEW a \in Attempts, ConsumeLost(a) \/ ConsumeUnsent(a) PROVE Spent'
  <2>1. \A b \in Attempts : b # a => att'[b] = att[b]
    BY <1>3, <1>11 DEF ConsumeLost, ConsumeUnsent
  <2>2. att[a].ticket \in Requests /\ req[att[a].ticket].pc = "issued"
    BY <1>1, <1>11 DEF ConsumeLost, ConsumeUnsent
  <2>3. \/ att'[a].pc = "denied"
        \/ att'[a].pc = "consuming" /\ att'[a].ticket = att[a].ticket
    BY <1>3, <1>11 DEF ConsumeLost, ConsumeUnsent, AttemptStates
  <2>4. \A t \in Requests : ~Valid(t) => ~Valid(t)'
    BY <1>6, <1>9, <1>11, <2>2 DEF ConsumeLost, ConsumeUnsent
  <2> QED BY <1>5, <2>1, <2>2, <2>3, <2>4
<1>12. CASE Tick
  <2>1. \A c \in Clients, ip \in IPs : store'[c][ip] \in {store[c][ip], NoTicket}
    BY <1>12 DEF Tick, StoreTick
  <2>2. \A t \in Requests : ~Valid(t) => ~Valid(t)'
    BY <1>2, <2>1, NoTicketAssumption DEF Valid
  <2> QED BY <1>4, <1>12, <2>2 DEF Tick
<1>13. CASE UNCHANGED <<store, att>>
  BY <1>4, <1>6, <1>13
<1> HIDE DEF Spent, SingleUse, PresentedWasIssued, SpentIsGone
<1> QED
  BY <1>7, <1>8, <1>10, <1>11, <1>12, <1>13 DEF Next, RequestStep, AttemptStep, Ask,
     Allow, AllowLost, AllowUnsent, Store, StoreLost, StoreUnsent, vars

\* A ticket opens at most one stream (ValidateAndConsume, ticket.go:44-51, and
\* its script), however often it is presented, re-issued or retried.
THEOREM SingleUseHolds == Spec => []SingleUse
<1>1. Init => Spent
  BY DEF Init, Spent, SingleUse, PresentedWasIssued, SpentIsGone
<1>2. TypeOK /\ Spent /\ [Next]_vars => Spent'
  BY SpentStep
<1>3. Spent => SingleUse
  BY DEF Spent
<1> QED
  BY <1>1, <1>2, <1>3, TicketTypeCorrect, PTL DEF Spec

(***************************************************************************)
(* The rate limit.  A counter exists exactly while its window runs; it is  *)
(* at least the number of requests allowed in its life (a lost reply or a  *)
(* refusal adds a hit that allows nobody), and a request is allowed only   *)
(* when it is at most Limit.  What was allowed in an earlier life of the   *)
(* counter was allowed before the present one began.                       *)
(***************************************************************************)
Now(ip) == {r \in Requests : req[r].ip = ip /\ req[r].allowed = "now"}

Earlier(ip) ==
    {r \in Requests : req[r].ip = ip /\ req[r].allowed = "before" /\ req[r].life > TicketTTL - Window}

CounterRuns == \A ip \in IPs : counter[ip] > 0 <=> window[ip] > 0

NowCounted ==
    \A ip \in IPs : /\ IsFiniteSet(Now(ip))
                    /\ Cardinality(Now(ip)) <= counter[ip]
                    /\ Cardinality(Now(ip)) <= Limit

EarlierCounted ==
    TicketTTL >= Window =>
        \A ip \in IPs : /\ IsFiniteSet(Earlier(ip))
                        /\ Cardinality(Earlier(ip)) <= Limit

\* The present life of the counter began Window - window[ip] ticks ago.
EarlierIsOlder ==
    TicketTTL >= Window =>
        \A ip \in IPs : window[ip] > 0 =>
            \A r \in Earlier(ip) : req[r].life <= TicketTTL - (Window - window[ip])

NeverAllowedIsUnborn == \A r \in Requests : req[r].allowed = "no" => req[r].life = 0

Counted ==
    /\ CounterRuns
    /\ NowCounted
    /\ EarlierCounted
    /\ EarlierIsOlder
    /\ NeverAllowedIsUnborn

LEMMA CountedInit == Init => Counted
<1> SUFFICES ASSUME Init PROVE Counted
  OBVIOUS
<1>1. \A ip \in IPs : Now(ip) = {} /\ Earlier(ip) = {}
  BY DEF Init, Now, Earlier
<1>2. CounterRuns /\ NeverAllowedIsUnborn /\ EarlierIsOlder
  BY <1>1 DEF Init, CounterRuns, NeverAllowedIsUnborn, EarlierIsOlder
<1>3. IsFiniteSet({}) /\ Cardinality({}) = 0
  BY FS_EmptySet
<1>4. \A ip \in IPs : counter[ip] = 0
  BY DEF Init
<1>5. ASSUME NEW ip \in IPs
      PROVE  /\ IsFiniteSet(Now(ip)) /\ Cardinality(Now(ip)) = 0
             /\ IsFiniteSet(Earlier(ip)) /\ Cardinality(Earlier(ip)) = 0
  <2>1. Now(ip) = {} /\ Earlier(ip) = {}
    BY <1>1
  <2> QED BY <1>3, <2>1
<1>6. NowCounted /\ EarlierCounted
  BY <1>4, <1>5, LimitAssumption DEF NowCounted, EarlierCounted
<1> QED BY <1>2, <1>6 DEF Counted

\* A step of the limiter that allows nobody.
LEMMA HitCounted ==
  ASSUME TypeOK, Counted, NEW r \in Requests, RateLimitScript(req[r].ip),
         \A q \in Requests : /\ req'[q].ip = req[q].ip
                             /\ req'[q].allowed = req[q].allowed
                             /\ req'[q].life = req[q].life
  PROVE  Counted'
<1>1. /\ req[r].ip \in IPs
      /\ counter \in [IPs -> Nat] /\ window \in [IPs -> 0..Window]
  BY DEF TypeOK, RequestStates, LimiterOK
<1>2. \A ip \in IPs : /\ counter'[ip] >= counter[ip] /\ counter'[ip] \in Nat
                      /\ window'[ip] \in {window[ip], Window}
                      /\ counter'[ip] > 0 <=> window'[ip] > 0
  BY <1>1 DEF RateLimitScript, Counted, CounterRuns
<1>3. \A ip \in IPs : Now(ip)' = Now(ip) /\ Earlier(ip)' = Earlier(ip)
  BY DEF Now, Earlier
<1>4. CounterRuns' /\ NeverAllowedIsUnborn'
  BY <1>2 DEF CounterRuns, NeverAllowedIsUnborn, Counted
<1>5. NowCounted'
  <2> SUFFICES ASSUME NEW ip \in IPs
               PROVE  /\ IsFiniteSet(Now(ip)) /\ Cardinality(Now(ip)) <= counter'[ip]
                      /\ Cardinality(Now(ip)) <= Limit
    BY <1>3 DEF NowCounted
  <2>1. Cardinality(Now(ip)) \in Nat /\ counter[ip] \in Nat
    BY <1>1, FS_CardinalityType DEF Counted, NowCounted
  <2> QED BY <1>2, <2>1 DEF Counted, NowCounted
<1>6. EarlierCounted'
  BY <1>3 DEF EarlierCounted, Counted
<1>7. EarlierIsOlder'
  <2> SUFFICES ASSUME TicketTTL >= Window, NEW ip \in IPs, NEW q \in Earlier(ip), window'[ip] > 0
               PROVE  req[q].life <= TicketTTL - (Window - window'[ip])
    BY <1>3 DEF EarlierIsOlder, Earlier
  <2>1. req[q].life \in 0..TicketTTL
    BY DEF TypeOK, RequestStates, Earlier
  <2>2. CASE window'[ip] = Window
    BY <2>1, <2>2
  <2>3. CASE window'[ip] = window[ip]
    BY <2>3 DEF Counted, EarlierIsOlder
  <2> QED BY <1>2, <2>2, <2>3
<1> QED BY <1>4, <1>5, <1>6, <1>7 DEF Counted

\* A step of the limiter that allows request r.
LEMMA AllowCounted ==
  ASSUME TypeOK, Counted, NEW r \in Requests, RateLimitScript(req[r].ip),
         counter'[req[r].ip] <= Limit,
         req' = [req EXCEPT ![r].pc = "storing", ![r].tries = 0,
                            ![r].allowed = "now", ![r].life = TicketTTL]
  PROVE  Counted'
<1>1. /\ req[r].ip \in IPs /\ req \in [Requests -> RequestStates]
      /\ counter \in [IPs -> Nat] /\ window \in [IPs -> 0..Window]
  BY DEF TypeOK, RequestStates, LimiterOK
<1>2. /\ req'[r].ip = req[r].ip /\ req'[r].allowed = "now" /\ req'[r].life = TicketTTL
      /\ \A q \in Requests \ {r} : req'[q] = req[q]
  BY <1>1 DEF RequestStates
<1>3. /\ counter'[req[r].ip] = counter[req[r].ip] + 1
      /\ \A ip \in IPs : /\ window'[ip] \in {window[ip], Window}
                         /\ counter'[ip] > 0 <=> window'[ip] > 0
      /\ \A ip \in IPs \ {req[r].ip} : counter'[ip] = counter[ip]
  BY <1>1, WindowAssumption DEF RateLimitScript, Counted, CounterRuns
<1>4. \A ip \in IPs : Now(ip)' = IF ip = req[r].ip THEN Now(ip) \cup {r} ELSE Now(ip)
  BY <1>1, <1>2 DEF Now
<1>5. \A ip \in IPs : Earlier(ip)' \subseteq Earlier(ip) /\ r \notin Earlier(ip)'
  BY <1>1, <1>2 DEF Earlier
<1>6. CounterRuns' /\ NeverAllowedIsUnborn'
  BY <1>2, <1>3 DEF CounterRuns, NeverAllowedIsUnborn, Counted
<1>7. NowCounted'
  <2>1. SUFFICES ASSUME NEW ip \in IPs
                 PROVE  (/\ IsFiniteSet(Now(ip)) /\ Cardinality(Now(ip)) <= counter[ip]
                         /\ Cardinality(Now(ip)) <= Limit)'
    BY DEF NowCounted
  <2>2. CASE ip = req[r].ip
    <3>1. IsFiniteSet(Now(ip)) /\ Cardinality(Now(ip)) <= counter[ip]
      BY DEF Counted, NowCounted
    <3>2. /\ IsFiniteSet(Now(ip) \cup {r})
          /\ \/ Cardinality(Now(ip) \cup {r}) = Cardinality(Now(ip))
             \/ Cardinality(Now(ip) \cup {r}) = Cardinality(Now(ip)) + 1
      BY <3>1, FS_AddElement
    <3>3. Cardinality(Now(ip)) \in Nat /\ counter[ip] \in Nat
      BY <1>1, <3>1, FS_CardinalityType
    <3>4. Cardinality(Now(ip) \cup {r}) <= counter[ip] + 1
      BY <3>1, <3>2, <3>3
    <3>5. Cardinality(Now(ip) \cup {r}) \in Nat
      BY <3>2, FS_CardinalityType
    <3>6. Now(ip)' = Now(ip) \cup {r} /\ counter'[ip] = counter[ip] + 1 /\ counter'[ip] <= Limit
      BY <2>2, <1>3, <1>4
    <3> QED BY <3>2, <3>3, <3>4, <3>5, <3>6, LimitAssumption
  <2>3. CASE ip # req[r].ip
    BY <2>3, <1>3, <1>4 DEF Counted, NowCounted
  <2> QED BY <2>2, <2>3
<1>8. EarlierCounted'
  <2> SUFFICES ASSUME TicketTTL >= Window, NEW ip \in IPs
               PROVE  IsFiniteSet(Earlier(ip)') /\ Cardinality(Earlier(ip)') <= Limit
    BY DEF EarlierCounted
  <2>1. IsFiniteSet(Earlier(ip)) /\ Cardinality(Earlier(ip)) <= Limit
    BY DEF Counted, EarlierCounted
  <2> QED BY <1>5, <2>1, FS_Subset, FS_CardinalityType, LimitAssumption
<1>9. EarlierIsOlder'
  <2> SUFFICES ASSUME TicketTTL >= Window, NEW ip \in IPs, NEW q \in Earlier(ip)', window'[ip] > 0
               PROVE  req'[q].life <= TicketTTL - (Window - window'[ip])
    BY DEF EarlierIsOlder
  <2>1. q \in Earlier(ip) /\ req'[q] = req[q] /\ req[q].life \in 0..TicketTTL
    BY <1>1, <1>2, <1>5 DEF Earlier, RequestStates
  <2>2. CASE window'[ip] = Window
    BY <2>1, <2>2, TicketTTLAssumption, WindowAssumption
  <2>3. CASE window'[ip] = window[ip]
    BY <2>1, <2>3 DEF Counted, EarlierIsOlder
  <2> QED BY <1>3, <2>2, <2>3
<1> QED BY <1>6, <1>7, <1>8, <1>9 DEF Counted

\* Time passes: where a window ends, what it allowed becomes the only thing
\* allowed earlier that is still recent.
LEMMA TickCounted ==
  ASSUME TypeOK, Counted, Tick
  PROVE  Counted'
<1>1. /\ req \in [Requests -> RequestStates]
      /\ counter \in [IPs -> Nat] /\ window \in [IPs -> 0..Window]
  BY DEF TypeOK, LimiterOK
<1>2. \A r \in Requests :
         /\ req[r].ip \in IPs /\ req[r].life \in 0..TicketTTL
         /\ req'[r].ip = req[r].ip
         /\ req'[r].life = IF req[r].life = 0 THEN 0 ELSE req[r].life - 1
         /\ req'[r].allowed = IF req[r].allowed = "now" /\ window[req[r].ip] = 1
                              THEN "before" ELSE req[r].allowed
  BY <1>1 DEF Tick, Aged, RequestStates
<1>3. \A ip \in IPs :
         /\ counter'[ip] = IF window[ip] = 1 THEN 0 ELSE counter[ip]
         /\ window'[ip] = IF window[ip] = 0 THEN 0 ELSE window[ip] - 1
  BY DEF Tick, LimiterTick
<1>4. CounterRuns'
  BY <1>1, <1>3, WindowAssumption DEF CounterRuns, Counted
<1>5. NeverAllowedIsUnborn'
  BY <1>2 DEF NeverAllowedIsUnborn, Counted
<1>6. ASSUME NEW ip \in IPs, window[ip] = 1
      PROVE  Now(ip)' = {} /\ (TicketTTL >= Window => Earlier(ip)' \subseteq Now(ip))
  <2>1. Now(ip)' = {}
    BY <1>2, <1>6 DEF Now
  <2>2. ASSUME TicketTTL >= Window, NEW r \in Earlier(ip)' PROVE r \in Now(ip)
    <3>1. r \in Requests /\ req'[r].ip = ip /\ req'[r].allowed = "before"
          /\ req'[r].life > TicketTTL - Window
      BY DEF Earlier
    <3>2. req[r].ip = ip /\ req[r].allowed \in {"now", "before"}
          /\ req[r].life > TicketTTL - Window
      BY <1>2, <3>1, <2>2, WindowAssumption, TicketTTLAssumption
    <3>3. CASE req[r].allowed = "before"
      <4>1. req[r].life <= TicketTTL - (Window - 1)
        BY <1>6, <2>2, <3>1, <3>2, <3>3 DEF Counted, EarlierIsOlder, Earlier
      <4> QED BY <1>2, <2>2, <3>1, <4>1, WindowAssumption, TicketTTLAssumption
    <3> QED BY <3>1, <3>2, <3>3 DEF Now
  <2> QED BY <2>1, <2>2
<1>7. ASSUME NEW ip \in IPs, window[ip] # 1
      PROVE  Now(ip)' = Now(ip) /\ Earlier(ip)' \subseteq Earlier(ip)
  <2>1. Now(ip)' = Now(ip)
    BY <1>2, <1>7 DEF Now
  <2>2. ASSUME NEW r \in Earlier(ip)' PROVE r \in Earlier(ip)
    BY <1>2, <1>7, WindowAssumption, TicketTTLAssumption DEF Earlier
  <2> QED BY <2>1, <2>2
<1>8. NowCounted'
  <2>1. SUFFICES ASSUME NEW ip \in IPs
                 PROVE  (/\ IsFiniteSet(Now(ip)) /\ Cardinality(Now(ip)) <= counter[ip]
                         /\ Cardinality(Now(ip)) <= Limit)'
    BY DEF NowCounted
  <2>2. CASE window[ip] = 1
    <3>1. Now(ip)' = {} /\ counter'[ip] = 0
      BY <1>3, <1>6, <2>2
    <3>2. IsFiniteSet({}) /\ Cardinality({}) = 0
      BY FS_EmptySet
    <3> QED BY <3>1, <3>2, LimitAssumption
  <2>3. CASE window[ip] # 1
    BY <1>3, <1>7, <2>3 DEF Counted, NowCounted
  <2> QED BY <2>2, <2>3
<1>9. EarlierCounted'
  <2> SUFFICES ASSUME TicketTTL >= Window, NEW ip \in IPs
               PROVE  IsFiniteSet(Earlier(ip)') /\ Cardinality(Earlier(ip)') <= Limit
    BY DEF EarlierCounted
  <2>1. PICK S : IsFiniteSet(S) /\ Cardinality(S) <= Limit /\ Earlier(ip)' \subseteq S
    <3>1. IsFiniteSet(Earlier(ip)) /\ Cardinality(Earlier(ip)) <= Limit
      BY DEF Counted, EarlierCounted
    <3>2. IsFiniteSet(Now(ip)) /\ Cardinality(Now(ip)) <= Limit
      BY DEF Counted, NowCounted
    <3>3. Earlier(ip)' \subseteq Earlier(ip) \/ Earlier(ip)' \subseteq Now(ip)
      BY <1>6, <1>7
    <3> QED BY <3>1, <3>2, <3>3
  <2> QED BY <2>1, FS_Subset, FS_CardinalityType, LimitAssumption
<1>10. EarlierIsOlder'
  <2> SUFFICES ASSUME TicketTTL >= Window, NEW ip \in IPs, NEW r \in Earlier(ip)', window'[ip] > 0
               PROVE  req'[r].life <= TicketTTL - (Window - window'[ip])
    BY DEF EarlierIsOlder
  <2>1. window[ip] \in 0..Window /\ window[ip] > 1 /\ window'[ip] = window[ip] - 1
    BY <1>1, <1>3
  <2>2. r \in Earlier(ip)
    BY <1>7, <2>1
  <2>3. req[r].life <= TicketTTL - (Window - window[ip]) /\ r \in Requests
    BY <2>1, <2>2 DEF Counted, EarlierIsOlder, Earlier
  <2> QED BY <1>2, <2>1, <2>3, WindowAssumption, TicketTTLAssumption
<1> QED BY <1>4, <1>5, <1>8, <1>9, <1>10 DEF Counted

LEMMA CountedStep == TypeOK /\ Counted /\ [Next]_vars => Counted'
<1> SUFFICES ASSUME TypeOK, Counted, [Next]_vars PROVE Counted'
  OBVIOUS
<1> DEFINE SameLimiter == counter' = counter /\ window' = window
           SameRequests == \A q \in Requests : /\ req'[q].ip = req[q].ip
                                               /\ req'[q].allowed = req[q].allowed
                                               /\ req'[q].life = req[q].life
<1>1. ASSUME SameLimiter, SameRequests PROVE Counted'
  <2>1. \A ip \in IPs : Now(ip)' = Now(ip) /\ Earlier(ip)' = Earlier(ip)
    BY <1>1 DEF Now, Earlier
  <2>2. CounterRuns' /\ NeverAllowedIsUnborn'
    BY <1>1 DEF CounterRuns, NeverAllowedIsUnborn, Counted
  <2>3. NowCounted' /\ EarlierCounted'
    BY <1>1, <2>1 DEF NowCounted, EarlierCounted, Counted
  <2>4. EarlierIsOlder'
    BY <1>1, <2>1 DEF EarlierIsOlder, Counted, Earlier
  <2> QED BY <2>2, <2>3, <2>4 DEF Counted
<1>2. ASSUME NEW r \in Requests, RequestStep(r) PROVE Counted'
  <2>1. req \in [Requests -> RequestStates]
    BY DEF TypeOK
  <2>2. CASE Ask(r) \/ AllowUnsent(r) \/ Store(r) \/ StoreLost(r) \/ StoreUnsent(r)
    <3>1. SameRequests
      BY <2>1, <2>2 DEF Ask, AllowUnsent, Store, StoreLost, StoreUnsent, RequestStates
    <3>2. SameLimiter
      BY <2>2 DEF Ask, AllowUnsent, Store, StoreLost, StoreUnsent
    <3> QED BY <1>1, <3>1, <3>2
  <2>3. CASE AllowLost(r)
    <3>1. SameRequests
      BY <2>1, <2>3 DEF AllowLost, RequestStates
    <3> QED BY <2>3, <3>1, HitCounted DEF AllowLost
  <2>4. CASE Allow(r)
    <3>1. CASE req' = [req EXCEPT ![r].pc = "refused"]
      <4>1. SameRequests
        BY <2>1, <3>1 DEF RequestStates
      <4> QED BY <2>4, <4>1, HitCounted DEF Allow
    <3>2. CASE /\ counter'[req[r].ip] <= Limit
               /\ req' = [req EXCEPT ![r].pc = "storing", ![r].tries = 0,
                                     ![r].allowed = "now", ![r].life = TicketTTL]
      BY <2>4, <3>2, AllowCounted DEF Allow
    <3> QED BY <2>4, <3>1, <3>2 DEF Allow
  <2> QED BY <1>2, <2>2, <2>3, <2>4 DEF RequestStep
<1>3. ASSUME NEW a \in Attempts, AttemptStep(a) PROVE Counted'
  <2>1. SameLimiter /\ req' = req
    BY <1>3 DEF AttemptStep, Present, Consume, ConsumeLost, ConsumeUnsent
  <2> QED BY <1>1, <2>1
<1>4. CASE UNCHANGED vars
  BY <1>1, <1>4 DEF vars
<1> QED BY <1>2, <1>3, <1>4, TickCounted DEF Next

(***************************************************************************)
(* V1AuthTicket never lets more than Limit requests of an IP through in    *)
(* one life of the IP's counter, whatever replies of the rate-limit script *)
(* are lost and repeated (ratelimit.go, atomic_ratelimit.lua).             *)
(***************************************************************************)
THEOREM WindowLimitHolds == Spec => []WindowLimit
<1>1. Init => Counted
  BY CountedInit
<1>2. TypeOK /\ Counted /\ [Next]_vars => Counted'
  BY CountedStep
<1>3. Counted => WindowLimit
  BY DEF Counted, NowCounted, WindowLimit, Now
<1> QED BY <1>1, <1>2, <1>3, TicketTypeCorrect, PTL DEF Spec

(***************************************************************************)
(* What an IP was allowed within the length of a window is at most twice   *)
(* the limit: it was allowed in the present life of the counter or in the  *)
(* one before (atomic_ratelimit.lua:8, EXPIRE on the first hit only).      *)
(***************************************************************************)
THEOREM TwoWindowsHolds == Spec => []TwoWindows
<1>1. TypeOK /\ Counted => TwoWindows
  <2> SUFFICES ASSUME TypeOK, Counted, TicketTTL >= Window, NEW ip \in IPs
               PROVE  Cardinality({r \in Requests : req[r].ip = ip /\ req[r].life > TicketTTL - Window})
                        <= 2 * Limit
    BY DEF TwoWindows
  <2> DEFINE Recent == {r \in Requests : req[r].ip = ip /\ req[r].life > TicketTTL - Window}
  <2>1. Recent \subseteq Now(ip) \cup Earlier(ip)
    <3> SUFFICES ASSUME NEW r \in Recent PROVE r \in Now(ip) \cup Earlier(ip)
      OBVIOUS
    <3>1. req[r].allowed \in {"no", "now", "before"} /\ req[r].life \in 0..TicketTTL
      BY DEF TypeOK, RequestStates
    <3>2. req[r].allowed # "no"
      BY <3>1, WindowAssumption, TicketTTLAssumption DEF Counted, NeverAllowedIsUnborn
    <3> QED BY <3>1, <3>2 DEF Now, Earlier
  <2>2. /\ IsFiniteSet(Now(ip)) /\ Cardinality(Now(ip)) <= Limit
        /\ IsFiniteSet(Earlier(ip)) /\ Cardinality(Earlier(ip)) <= Limit
    BY DEF Counted, NowCounted, EarlierCounted
  <2>3. /\ IsFiniteSet(Now(ip) \cup Earlier(ip))
        /\ Cardinality(Now(ip) \cup Earlier(ip))
             = Cardinality(Now(ip)) + Cardinality(Earlier(ip)) - Cardinality(Now(ip) \cap Earlier(ip))
    BY <2>2, FS_Union
  <2>4. IsFiniteSet(Now(ip) \cap Earlier(ip))
    BY <2>2, FS_Intersection
  <2>5. /\ Cardinality(Now(ip)) \in Nat /\ Cardinality(Earlier(ip)) \in Nat
        /\ Cardinality(Now(ip) \cap Earlier(ip)) \in Nat
        /\ Cardinality(Now(ip) \cup Earlier(ip)) \in Nat
    BY <2>2, <2>3, <2>4, FS_CardinalityType
  <2>6. Cardinality(Recent) <= Cardinality(Now(ip) \cup Earlier(ip)) /\ IsFiniteSet(Recent)
    BY <2>1, <2>3, FS_Subset
  <2>7. Cardinality(Recent) \in Nat
    BY <2>6, FS_CardinalityType
  <2> QED BY <2>2, <2>3, <2>5, <2>6, <2>7, LimitAssumption
<1>2. Init => Counted
  BY CountedInit
<1>3. TypeOK /\ Counted /\ [Next]_vars => Counted'
  BY CountedStep
<1> QED BY <1>1, <1>2, <1>3, TicketTypeCorrect, PTL DEF Spec
=============================================================================
