-------------------------- MODULE AdmissionProofs --------------------------
(***************************************************************************)
(* Theorems about Admission.  The ticket endpoint in front of the registry *)
(* leaves the registry what it is: every step of the composition is one of *)
(* Connections or leaves its variables alone, so that what is proved of    *)
(* the registry holds of the composition.  The proofs of the components    *)
(* are used through instances of their own modules, TP and CP, which hold  *)
(* the same definitions as T and C.                                        *)
(***************************************************************************)
EXTENDS Admission, TLAPS

TP == INSTANCE TicketsProofs
CP == INSTANCE ConnectionsProofs WITH Shutdowns <- {}, MaxLag <- 0

(***************************************************************************)
(* Tickets.                                                                *)
(***************************************************************************)
LEMMA TicketTypesSame == (T!TypeOK <=> TP!TypeOK) /\ (T!TypeOK' <=> TP!TypeOK')
BY DEF T!TypeOK, T!LimiterOK, T!StoreOK, T!AttemptsOK, T!RequestStates, T!AttemptStates,
       TP!TypeOK, TP!LimiterOK, TP!StoreOK, TP!AttemptsOK, TP!RequestStates, TP!AttemptStates

LEMMA TicketInitSame == T!Init => TP!Init
BY DEF T!Init, TP!Init

LEMMA RequestStepSame ==
  ASSUME NEW r \in Requests, T!RequestStep(r)
  PROVE  TP!RequestStep(r)
BY Zenon
   DEF T!RequestStep, T!Ask, T!Allow, T!AllowLost, T!AllowUnsent, T!Store, T!StoreLost,
       T!StoreUnsent, T!RateLimitScript, T!SetTicket, T!WriteKey,
       TP!RequestStep, TP!Ask, TP!Allow, TP!AllowLost, TP!AllowUnsent, TP!Store, TP!StoreLost,
       TP!StoreUnsent, TP!RateLimitScript, TP!SetTicket, TP!WriteKey

LEMMA AttemptStepSame ==
  ASSUME NEW a \in Attempts, T!AttemptStep(a)
  PROVE  TP!AttemptStep(a)
BY Zenon
   DEF T!AttemptStep, T!Present, T!Consume, T!ConsumeLost, T!ConsumeUnsent, T!ConsumeScript,
       T!Valid, T!WriteKey,
       TP!AttemptStep, TP!Present, TP!Consume, TP!ConsumeLost, TP!ConsumeUnsent,
       TP!ConsumeScript, TP!Valid, TP!WriteKey

LEMMA TicketTickSame == T!Tick => TP!Tick
BY Zenon
   DEF T!Tick, T!LimiterTick, T!StoreTick, T!Aged,
       TP!Tick, TP!LimiterTick, TP!StoreTick, TP!Aged

LEMMA TicketsTyped ==
  ASSUME T!TypeOK,
         \/ \E r \in Requests : T!RequestStep(r)
         \/ \E a \in Attempts : T!AttemptStep(a)
         \/ T!Tick
         \/ UNCHANGED tickets
  PROVE  T!TypeOK'
<1>1. [TP!Next]_TP!vars
  BY RequestStepSame, AttemptStepSame, TicketTickSame DEF TP!Next, TP!vars, tickets
<1>2. TP!TypeOK /\ [TP!Next]_TP!vars => TP!TypeOK'
  BY TP!TicketTypeStep, AdmissionAssumption
<1> QED BY <1>1, <1>2, TicketTypesSame

LEMMA AdmissionTicketsStep ==
  ASSUME T!TypeOK, [Next]_vars
  PROVE  T!TypeOK'
<1>1. ASSUME NEW r \in Requests, AskAgain(r) PROVE T!TypeOK'
  <2>1. /\ req \in [Requests -> T!RequestStates] /\ UNCHANGED <<counter, window, store, storeTTL, att>>
        /\ req' = [req EXCEPT ![r] = [req[r] EXCEPT !.pc = "new", !.tries = 0, !.allowed = "no", !.life = 0]]
    BY <1>1 DEF AskAgain, T!TypeOK
  <2>2. 0 \in 0..MaxRetries /\ 0 \in 0..TicketTTL
    BY AdmissionAssumption
  <2>3. req' \in [Requests -> T!RequestStates]
    BY <2>1, <2>2 DEF T!RequestStates
  <2> QED BY <2>1, <2>3 DEF T!TypeOK, T!LimiterOK, T!StoreOK, T!AttemptsOK, T!AttemptStates, T!RequestStates
<1>2. ASSUME NEW a \in Attempts, TryAgain(a) PROVE T!TypeOK'
  <2>1. /\ att' = [att EXCEPT ![a] = [pc |-> "new", ticket |-> NoTicket, tries |-> 0]]
        /\ UNCHANGED <<counter, window, store, storeTTL, req>>
    BY <1>2 DEF TryAgain
  <2>2. 0 \in 0..MaxRetries
    BY AdmissionAssumption
  <2>3. T!AttemptsOK'
    BY <2>1, <2>2 DEF T!TypeOK, T!AttemptsOK, T!AttemptStates
  <2> QED BY <2>1, <2>3 DEF T!TypeOK, T!LimiterOK, T!StoreOK, T!RequestStates
<1>3. ASSUME NEW r \in Requests, TicketStep(r) PROVE T!TypeOK'
  BY <1>3, TicketsTyped DEF TicketStep
<1>4. ASSUME NEW a \in Attempts, T!AttemptStep(a) PROVE T!TypeOK'
  BY <1>4, TicketsTyped
<1>5. ASSUME NEW a \in Attempts, TurnedAway(a) PROVE T!TypeOK'
  BY <1>4, <1>5 DEF TurnedAway, T!AttemptStep
<1>6. ASSUME NEW a \in Attempts, NEW h \in Handlers, NEW i \in Instances, Open(a, h, i) PROVE T!TypeOK'
  BY <1>4, <1>6 DEF Open, T!AttemptStep
<1>7. ASSUME UNCHANGED tickets PROVE T!TypeOK'
  BY <1>7, TicketsTyped
<1>8. CASE Tick
  BY <1>8, TicketsTyped DEF Tick
<1>9. CASE UNCHANGED vars
  BY <1>7, <1>9 DEF vars, tickets
<1> QED
  BY <1>1, <1>2, <1>3, <1>5, <1>6, <1>7, <1>8, <1>9 DEF Next, StreamStep, ProcessStep

LEMMA AdmissionTickets == Spec => []T!TypeOK
<1>1. Init => T!TypeOK
  <2>1. TP!Init => TP!TypeOK
    BY TP!TicketTypeInit, AdmissionAssumption
  <2> QED BY <2>1, TicketInitSame, TicketTypesSame DEF Init
<1>2. T!TypeOK /\ [Next]_vars => T!TypeOK'
  BY AdmissionTicketsStep
<1> QED BY <1>1, <1>2, PTL DEF Spec

(***************************************************************************)
(* The registry.                                                           *)
(***************************************************************************)
LEMMA RegistryStep ==
  ASSUME T!TypeOK, [Next]_vars
  PROVE  [C!Next]_C!vars
<1>1. ASSUME UNCHANGED connections PROVE UNCHANGED C!vars
  BY <1>1 DEF connections, C!vars
<1>2. ASSUME NEW r \in Requests, AskAgain(r) \/ TicketStep(r) PROVE UNCHANGED C!vars
  BY <1>1, <1>2 DEF AskAgain, TicketStep, connections
<1>3. ASSUME NEW a \in Attempts, TryAgain(a) \/ TurnedAway(a) PROVE UNCHANGED C!vars
  BY <1>1, <1>3 DEF TryAgain, TurnedAway, connections
<1>4. ASSUME NEW a \in Attempts, NEW h \in Handlers, NEW i \in Instances, Open(a, h, i) PROVE C!Next
  <2>1. att[a].ticket \in Requests
    BY <1>4 DEF Open, T!TypeOK, T!AttemptsOK
  <2>2. KeyOf(att[a].ticket) \in Keys
    BY <2>1 DEF KeyOf, Keys, T!TypeOK, T!RequestStates
  <2>3. C!Arrive(h, i, KeyOf(att[a].ticket))
    BY <1>4 DEF Open
  <2> QED BY <2>2, <2>3 DEF C!Next, C!HandlerStep
<1>5. ASSUME NEW h \in Handlers, StreamStep(h) PROVE C!Next
  BY <1>5 DEF StreamStep, C!Next, C!HandlerStep
<1>6. ASSUME NEW i \in Instances, ProcessStep(i) PROVE C!Next
  BY <1>6 DEF ProcessStep, C!Next
<1>7. CASE Tick
  BY <1>7 DEF Tick, C!Next
<1>8. CASE UNCHANGED vars
  BY <1>1, <1>8 DEF vars, connections
<1> QED BY <1>2, <1>3, <1>4, <1>5, <1>6, <1>7, <1>8 DEF Next

(***************************************************************************)
(* Tickets and client behaviour in front of it (V1SSEStreamEvents consumes *)
(* the ticket and goes on to Register in one handler) never make the       *)
(* registry do what Connections does not describe.                         *)
(***************************************************************************)
THEOREM RegistryComposed == Spec => C!Spec
<1>1. Init => C!Init
  BY DEF Init
<1>2. T!TypeOK /\ [Next]_vars => [C!Next]_C!vars
  BY RegistryStep
<1> QED BY <1>1, <1>2, AdmissionTickets, PTL DEF Spec, C!Spec
LEMMA RegistrySame ==
  /\ C!Init => CP!Init
  /\ [C!Next]_C!vars => [CP!Next]_CP!vars
<1>1. C!Init => CP!Init
  BY Zenon DEF C!Init, C!NoSweep, CP!Init, CP!NoSweep
<1>2. ASSUME NEW h \in Handlers, C!HandlerStep(h) PROVE CP!HandlerStep(h)
  BY <1>2, Zenon
     DEF C!HandlerStep, C!Arrive, C!Register, C!RegisterDuplicate, C!RegisterLost,
         C!RegisterUnsent, C!Refresh, C!Leave, C!Delete, C!DeleteLost, C!DeleteUnsent,
         C!SetNX, C!Expire, C!Del, C!Return, C!Goto, C!Retry, C!GiveUp, C!redis,
         CP!HandlerStep, CP!Arrive, CP!Register, CP!RegisterDuplicate, CP!RegisterLost,
         CP!RegisterUnsent, CP!Refresh, CP!Leave, CP!Delete, CP!DeleteLost, CP!DeleteUnsent,
         CP!SetNX, CP!Expire, CP!Del, CP!Return, CP!Goto, CP!Retry, CP!GiveUp, CP!redis
<1>3. ASSUME NEW i \in Instances, C!SweepStep(i) PROVE CP!SweepStep(i)
  BY <1>3, Zenon
     DEF C!SweepStep, C!SweepScan, C!SweepScanError, C!SweepGet, C!SweepGetError, C!SweepDel,
         C!SweepDelLost, C!SweepDelError, C!SweptKey, C!NextKey, C!Exit, C!Kill, C!Del, C!NoSweep,
         CP!SweepStep, CP!SweepScan, CP!SweepScanError, CP!SweepGet, CP!SweepGetError, CP!SweepDel,
         CP!SweepDelLost, CP!SweepDelError, CP!SweptKey, CP!NextKey, CP!Exit, CP!Kill, CP!Del, CP!NoSweep
<1>4. ASSUME NEW i \in Instances,
             C!Start(i) \/ C!Crash(i) \/ C!Signal(i) \/ C!Drained(i) \/ C!Forced(i)
      PROVE  CP!Start(i) \/ CP!Crash(i) \/ CP!Signal(i) \/ CP!Drained(i) \/ CP!Forced(i)
  BY <1>4, Zenon
     DEF C!Start, C!Crash, C!Kill, C!Signal, C!Drained, C!Forced, C!BeginSweep, C!NoSweep,
         CP!Start, CP!Crash, CP!Kill, CP!Signal, CP!Drained, CP!Forced, CP!BeginSweep, CP!NoSweep
<1>5. C!Tick => CP!Tick
  BY Zenon DEF C!Tick, C!Holds, CP!Tick, CP!Holds
<1>6. UNCHANGED C!vars => UNCHANGED CP!vars
  BY DEF C!vars, CP!vars
<1>7. C!Next => CP!Next
  BY <1>2, <1>3, <1>4, <1>5 DEF C!Next, CP!Next
<1> QED BY <1>1, <1>6, <1>7

LEMMA RegistryProved == Spec => CP!Spec
<1>1. C!Init => CP!Init
  BY RegistrySame
<1>2. [C!Next]_C!vars => [CP!Next]_CP!vars
  BY RegistrySame
<1> QED BY <1>1, <1>2, RegistryComposed, PTL DEF C!Spec, CP!Spec

(***************************************************************************)
(* Every reachable state of the composition is well typed: a handler that  *)
(* got past its ticket works on the key of a client and an IP.             *)
(***************************************************************************)
THEOREM AdmissionTypeCorrect == Spec => []TypeOK
<1>1. CP!Spec => []CP!TypeOK
  BY CP!TypeCorrect, AdmissionAssumption, Zenon
<1>2. CP!TypeOK => C!TypeOK
  BY Zenon DEF C!TypeOK, C!PCs, C!Statuses, C!SweepStates, CP!TypeOK, CP!PCs, CP!Statuses, CP!SweepStates
<1>3. T!TypeOK /\ C!TypeOK => TypeOK
  BY DEF TypeOK
<1> QED BY <1>1, <1>2, <1>3, AdmissionTickets, RegistryProved, PTL
=============================================================================
