------------------------- MODULE ConnectionsProofs -------------------------
(***************************************************************************)
(* Proofs about the connection registry, for any number of instances,      *)
(* handlers and keys and any TTL.                                          *)
(***************************************************************************)
EXTENDS Connections, TLAPS

\* A handler never goes a whole ConnTTL without a renewal.
Timely == MaxGap < ConnTTL

\* No DEL that Redis executed is ever sent again.
DelOnce == "DEL" \notin LoseReplies \/ MaxRetries = 0

\* A process cleans up only after its handlers have ended, and no time passes
\* between a GET and the DEL that follows it.
Orderly == "forced" \notin Shutdowns /\ MaxLag = 0

USE TTLAssumption, GapAssumption, RetryAssumption, RepliesAssumption,
    ShutdownsAssumption, LagAssumption, NoOwnerAssumption, NoKeyAssumption

(***************************************************************************)
(* Type correctness.                                                       *)
(***************************************************************************)
LEMMA KillTyped ==
  ASSUME TypeOK, NEW i \in Instances, NEW s \in Statuses, Kill(i, s), UNCHANGED <<owner, ttl>>
  PROVE  TypeOK'
<1>1. NoSweep \in SweepStates /\ NoSweep.pc # "del"
  BY DEF NoSweep, SweepStates
<1>2. sweep' \in [Instances -> SweepStates]
  BY <1>1 DEF TypeOK, Kill
<1>3. \A j \in Instances : sweep'[j].pc = "del" => sweep'[j].key \in Keys
  BY <1>1 DEF TypeOK, Kill
<1> QED BY <1>2, <1>3 DEF TypeOK, Kill, PCs

\* TypeOK of a step that changes one clean-up and, maybe, the store.
LEMMA SweepTyped ==
  ASSUME TypeOK, NEW i \in Instances, NEW r \in SweepStates,
         r.pc = "del" => r.key \in Keys,
         sweep' = [sweep EXCEPT ![i] = r],
         UNCHANGED <<status, pc, key, inst, tries, gap>>,
         owner' \in [Keys -> Instances \cup {NoOwner}], ttl' \in [Keys -> 0..ConnTTL]
  PROVE  TypeOK'
<1>1. sweep' \in [Instances -> SweepStates]
  BY DEF TypeOK
<1>2. \A j \in Instances : sweep'[j].pc = "del" => sweep'[j].key \in Keys
  BY DEF TypeOK
<1> QED BY <1>1, <1>2 DEF TypeOK

LEMMA SweepBegins ==
  ASSUME TypeOK, NEW i \in Instances, NEW s \in {"drained", "forced"}, BeginSweep(i),
         status' = [status EXCEPT ![i] = s]
  PROVE  TypeOK'
<1> DEFINE r == [NoSweep EXCEPT !.pc = "scan", !.todo = Keys]
<1>0. NoSweep \in SweepStates
  BY DEF NoSweep, SweepStates
<1>1. r \in SweepStates /\ r.pc = "scan"
  BY <1>0 DEF SweepStates
<1>2. sweep' = [sweep EXCEPT ![i] = r]
  BY DEF BeginSweep
<1> HIDE DEF r
<1>3. sweep' \in [Instances -> SweepStates]
  BY <1>1, <1>2 DEF TypeOK
<1>4. \A j \in Instances : sweep'[j].pc = "del" => sweep'[j].key \in Keys
  BY <1>1, <1>2 DEF TypeOK
<1>5. status' \in [Instances -> Statuses]
  BY DEF TypeOK, Statuses
<1> QED BY <1>3, <1>4, <1>5 DEF TypeOK, BeginSweep

LEMMA SweepStepTyped ==
  ASSUME TypeOK, NEW i \in Instances, SweepStep(i)
  PROVE  TypeOK'
<1>1. /\ sweep[i] \in SweepStates
      /\ owner \in [Keys -> Instances \cup {NoOwner}]
      /\ ttl \in [Keys -> 0..ConnTTL]
      /\ sweep[i].pc = "del" => sweep[i].key \in Keys
  BY DEF TypeOK
<1>2. /\ sweep[i].todo \in SUBSET Keys
      /\ sweep[i].page \in SUBSET Keys
      /\ sweep[i].tries \in 0..MaxRetries
      /\ sweep[i].clean \in BOOLEAN
  BY <1>1 DEF SweepStates
<1>3. \A p : NextKey(p) \in {"off", "scan", "get", "del"} /\ NextKey(p) # "del"
  BY DEF NextKey
<1>4. \A k \in Keys : Del(k) => /\ owner' \in [Keys -> Instances \cup {NoOwner}]
                                /\ ttl' \in [Keys -> 0..ConnTTL]
  BY <1>1 DEF Del
<1>5. CASE SweepScan(i)
  <2>1. PICK part \in SUBSET sweep[i].todo :
           LET page == {k \in part : owner[k] # NoOwner}
           IN  sweep' = [sweep EXCEPT ![i] = [@ EXCEPT !.todo = sweep[i].todo \ part, !.page = page,
                                                       !.pc = NextKey(page)]]
    BY <1>5 DEF SweepScan
  <2> DEFINE page == {k \in part : owner[k] # NoOwner}
             r == [sweep[i] EXCEPT !.todo = sweep[i].todo \ part, !.page = page,
                                   !.pc = NextKey(page)]
  <2>2. r \in SweepStates
    <3>1. sweep[i].todo \ part \in SUBSET Keys /\ page \in SUBSET Keys
      BY <1>2
    <3> HIDE DEF page
    <3> QED BY <1>1, <1>3, <3>1 DEF SweepStates
  <2>3. sweep' = [sweep EXCEPT ![i] = r]
    BY <2>1
  <2>4. r.pc # "del"
    BY <1>1, <1>3 DEF SweepStates
  <2>5. UNCHANGED <<owner, ttl>> /\ UNCHANGED <<status, pc, key, inst, tries, gap>>
    BY <1>5 DEF SweepScan
  <2> HIDE DEF r
  <2> QED BY <1>1, <2>2, <2>3, <2>4, <2>5, SweepTyped
<1>6. CASE SweepScanError(i)
  <2> DEFINE r == [sweep[i] EXCEPT !.todo = {}, !.clean = FALSE]
  <2>1. r \in SweepStates
    BY <1>1 DEF SweepStates
  <2>2. r.pc # "del"
    BY <1>1, <1>6 DEF SweepStates, SweepScanError
  <2>3. /\ sweep' = [sweep EXCEPT ![i] = r]
        /\ UNCHANGED <<owner, ttl>> /\ UNCHANGED <<status, pc, key, inst, tries, gap>>
    BY <1>6 DEF SweepScanError
  <2> HIDE DEF r
  <2> QED BY <1>1, <2>1, <2>2, <2>3, SweepTyped
<1>7. CASE SweepGet(i)
  <2>1. PICK k \in sweep[i].page :
           LET rest == sweep[i].page \ {k}
           IN  \/ /\ owner[k] = i
                  /\ sweep' = [sweep EXCEPT ![i] = [@ EXCEPT !.page = rest, !.key = k, !.pc = "del"]]
               \/ /\ owner[k] # i
                  /\ sweep' = [sweep EXCEPT ![i] = [@ EXCEPT !.page = rest, !.pc = NextKey(rest)]]
    BY <1>7 DEF SweepGet
  <2> DEFINE rest == sweep[i].page \ {k}
             r == [sweep[i] EXCEPT !.page = rest, !.key = k, !.pc = "del"]
             q == [sweep[i] EXCEPT !.page = rest, !.pc = NextKey(rest)]
  <2>2. rest \in SUBSET Keys /\ k \in Keys
    BY <1>2
  <2>3. r \in SweepStates /\ q \in SweepStates
    <3> HIDE DEF rest
    <3> QED BY <1>1, <1>3, <2>2 DEF SweepStates
  <2>4. r.key \in Keys /\ q.pc # "del"
    BY <1>1, <1>3, <2>2 DEF SweepStates
  <2>5. sweep' = [sweep EXCEPT ![i] = r] \/ sweep' = [sweep EXCEPT ![i] = q]
    BY <2>1
  <2>6. UNCHANGED <<owner, ttl>> /\ UNCHANGED <<status, pc, key, inst, tries, gap>>
    BY <1>7 DEF SweepGet
  <2> HIDE DEF r, q
  <2> QED BY <1>1, <2>3, <2>4, <2>5, <2>6, SweepTyped
<1>8. CASE SweepGetError(i)
  <2>1. PICK k \in sweep[i].page :
           LET rest == sweep[i].page \ {k}
           IN  sweep' = [sweep EXCEPT ![i] = [@ EXCEPT !.page = rest, !.pc = NextKey(rest),
                                                       !.clean = FALSE]]
    BY <1>8 DEF SweepGetError
  <2> DEFINE rest == sweep[i].page \ {k}
             r == [sweep[i] EXCEPT !.page = rest, !.pc = NextKey(rest), !.clean = FALSE]
  <2>2. rest \in SUBSET Keys
    BY <1>2
  <2>3. r \in SweepStates
    <3> HIDE DEF rest
    <3> QED BY <1>1, <1>3, <2>2 DEF SweepStates
  <2>4. r.pc # "del"
    BY <1>1, <1>3 DEF SweepStates
  <2>5. sweep' = [sweep EXCEPT ![i] = r]
    BY <2>1
  <2>6. UNCHANGED <<owner, ttl>> /\ UNCHANGED <<status, pc, key, inst, tries, gap>>
    BY <1>8 DEF SweepGetError
  <2> HIDE DEF r
  <2> QED BY <1>1, <2>3, <2>4, <2>5, <2>6, SweepTyped
<1>9. ASSUME NEW ok \in BOOLEAN, SweptKey(i, ok), UNCHANGED <<status, pc, key, inst, tries, gap>>,
             owner' \in [Keys -> Instances \cup {NoOwner}], ttl' \in [Keys -> 0..ConnTTL]
      PROVE  TypeOK'
  <2> DEFINE c == sweep[i].clean /\ ok
             r == [sweep[i] EXCEPT !.pc = NextKey(sweep[i].page), !.key = NoKey, !.tries = 0,
                                   !.lag = 0, !.clean = c]
  <2>1. c \in BOOLEAN
    BY <1>2
  <2>2. r \in SweepStates
    <3>1. /\ NextKey(sweep[i].page) \in {"off", "scan", "get", "del"}
          /\ 0 \in 0..MaxRetries /\ 0 \in 0..MaxLag
      BY <1>3
    <3> HIDE DEF c
    <3> QED BY <1>1, <3>1, <2>1 DEF SweepStates
  <2>3. r.pc # "del"
    BY <1>1, <1>3 DEF SweepStates
  <2>4. sweep' = [sweep EXCEPT ![i] = r]
    BY <1>9 DEF SweptKey
  <2> HIDE DEF r
  <2> QED BY <1>9, <2>2, <2>3, <2>4, SweepTyped
<1>10. CASE SweepDel(i)
  BY <1>1, <1>4, <1>9, <1>10 DEF SweepDel
<1>11. CASE SweepDelLost(i)
  <2>1. CASE sweep[i].tries < MaxRetries /\ sweep' = [sweep EXCEPT ![i] = [@ EXCEPT !.tries = sweep[i].tries + 1]]
    <3> DEFINE r == [sweep[i] EXCEPT !.tries = sweep[i].tries + 1]
    <3>1. sweep[i].tries + 1 \in 0..MaxRetries
      BY <1>2, <2>1
    <3>2. r \in SweepStates
      BY <1>1, <3>1 DEF SweepStates
    <3>3. r.key \in Keys
      BY <1>1, <1>11 DEF SweepStates, SweepDelLost
    <3>4. sweep' = [sweep EXCEPT ![i] = r]
      BY <2>1
    <3>5. /\ Del(sweep[i].key) /\ sweep[i].key \in Keys
          /\ UNCHANGED <<status, pc, key, inst, tries, gap>>
      BY <1>1, <1>11 DEF SweepDelLost
    <3> HIDE DEF r
    <3> QED BY <1>4, <3>2, <3>3, <3>4, <3>5, SweepTyped
  <2>2. CASE SweptKey(i, TRUE)
    BY <1>1, <1>4, <1>9, <1>11, <2>2 DEF SweepDelLost
  <2> QED BY <1>11, <2>1, <2>2 DEF SweepDelLost
<1>12. CASE SweepDelError(i)
  BY <1>1, <1>9, <1>12 DEF SweepDelError
<1>13. CASE Exit(i)
  <2>1. "stopped" \in Statuses /\ "down" \in Statuses
    BY DEF Statuses
  <2> QED BY <1>13, <2>1, KillTyped DEF Exit
<1> QED
  BY <1>5, <1>6, <1>7, <1>8, <1>10, <1>11, <1>12, <1>13 DEF SweepStep

\* A tick takes one off the TTL of every key and drops the keys that reach 0.
LEMMA TickKeys ==
  ASSUME TypeOK, Tick
  PROVE  owner' \in [Keys -> Instances \cup {NoOwner}] /\ ttl' \in [Keys -> 0..ConnTTL]
<1>1. owner \in [Keys -> Instances \cup {NoOwner}] /\ ttl \in [Keys -> 0..ConnTTL]
  BY DEF TypeOK
<1>2. owner' = [k \in Keys |-> IF ttl[k] = 1 THEN NoOwner ELSE owner[k]]
  BY DEF Tick
<1>3. ttl' = [k \in Keys |-> IF ttl[k] = 0 THEN 0 ELSE ttl[k] - 1]
  BY DEF Tick
<1>4. owner' \in [Keys -> Instances \cup {NoOwner}]
  <2>1. \A k \in Keys :
          (IF ttl[k] = 1 THEN NoOwner ELSE owner[k]) \in Instances \cup {NoOwner}
    BY <1>1
  <2> QED BY <1>2, <2>1
<1>5. \A k \in Keys : (IF ttl[k] = 0 THEN 0 ELSE ttl[k] - 1) \in 0..ConnTTL
  <2>1. SUFFICES ASSUME NEW k \in Keys
                 PROVE  (IF ttl[k] = 0 THEN 0 ELSE ttl[k] - 1) \in 0..ConnTTL
    OBVIOUS
  <2>2. ttl[k] \in 0..ConnTTL
    BY <1>1
  <2> QED BY <2>2, TTLAssumption
<1> QED BY <1>3, <1>4, <1>5

\* A tick only moves the lag of a clean-up that has a DEL to send.
LEMMA TickSweeps ==
  ASSUME TypeOK, Tick
  PROVE  /\ sweep' \in [Instances -> SweepStates]
         /\ \A i \in Instances :
               /\ sweep'[i].pc = sweep[i].pc /\ sweep'[i].key = sweep[i].key
               /\ sweep'[i].todo = sweep[i].todo /\ sweep'[i].page = sweep[i].page
               /\ sweep'[i].clean = sweep[i].clean
               /\ sweep[i].pc = "del" => sweep'[i].lag = sweep[i].lag + 1 /\ sweep[i].lag < MaxLag
<1>1. /\ sweep \in [Instances -> SweepStates]
      /\ sweep' = [i \in Instances |-> IF sweep[i].pc = "del"
                                       THEN [sweep[i] EXCEPT !.lag = @ + 1] ELSE sweep[i]]
      /\ \A i \in Instances : sweep[i].pc = "del" => sweep[i].lag < MaxLag
  BY DEF TypeOK, Tick
<1>2. ASSUME NEW r \in SweepStates, r.lag < MaxLag
      PROVE  [r EXCEPT !.lag = @ + 1] \in SweepStates
  <2>1. r.lag + 1 \in 0..MaxLag
    BY <1>2 DEF SweepStates
  <2> QED BY <2>1 DEF SweepStates
<1>3. \A r \in SweepStates :
         LET q == [r EXCEPT !.lag = @ + 1]
         IN  /\ q.pc = r.pc /\ q.key = r.key /\ q.todo = r.todo /\ q.page = r.page
             /\ q.clean = r.clean /\ q.lag = r.lag + 1
  BY DEF SweepStates
<1> QED BY <1>1, <1>2, <1>3

\* Every reachable state of the registry is well typed: in particular a
\* handler outside "idle" always has a key and an instance, so every command
\* it sends (connection.go:46-65) names a real connection key.
THEOREM TypeCorrect == Spec => []TypeOK
<1>1. Init => TypeOK
  BY DEF Init, TypeOK, PCs, Statuses, SweepStates, NoSweep
<1>2. TypeOK /\ [Next]_vars => TypeOK'
  <2> SUFFICES ASSUME TypeOK, [Next]_vars PROVE TypeOK'
    OBVIOUS
  <2> USE DEF TypeOK, PCs
  <2>1. ASSUME NEW h \in Handlers, NEW i \in Instances, NEW k \in Keys, Arrive(h, i, k)
        PROVE  TypeOK'
    BY <2>1 DEF Arrive
  <2>2. ASSUME NEW h \in Handlers, Register(h) PROVE TypeOK'
    BY <2>2 DEF Register, SetNX, Goto
  <2>3. ASSUME NEW h \in Handlers, RegisterDuplicate(h) PROVE TypeOK'
    BY <2>3 DEF RegisterDuplicate, Return
  <2>4. ASSUME NEW h \in Handlers, RegisterLost(h) PROVE TypeOK'
    <3>1. owner' \in [Keys -> Instances \cup {NoOwner}] /\ ttl' \in [Keys -> 0..ConnTTL]
      BY <2>4 DEF RegisterLost, SetNX, redis
    <3>2. CASE Retry(h, "registering")
      BY <2>4, <3>1, <3>2 DEF RegisterLost, Retry
    <3>3. CASE Return(h)
      BY <2>4, <3>1, <3>3 DEF RegisterLost, Return
    <3> QED BY <2>4, <3>2, <3>3 DEF RegisterLost
  <2>5. ASSUME NEW h \in Handlers, RegisterUnsent(h) PROVE TypeOK'
    BY <2>5 DEF RegisterUnsent, Retry, Return
  <2>6. ASSUME NEW h \in Handlers, Refresh(h) PROVE TypeOK'
    BY <2>6 DEF Refresh, Expire
  <2>7. ASSUME NEW h \in Handlers, Leave(h) PROVE TypeOK'
    BY <2>7 DEF Leave, Goto
  <2>8. ASSUME NEW h \in Handlers, Delete(h) PROVE TypeOK'
    BY <2>8 DEF Delete, Del, Return
  <2>9. ASSUME NEW h \in Handlers, DeleteLost(h) PROVE TypeOK'
    <3>1. CASE Retry(h, "redeleting")
      BY <2>9, <3>1 DEF DeleteLost, Del, Retry
    <3>2. CASE GiveUp(h)
      BY <2>9, <3>2 DEF DeleteLost, Del, GiveUp, Return
    <3> QED BY <2>9, <3>1, <3>2 DEF DeleteLost
  <2>10. ASSUME NEW h \in Handlers, DeleteUnsent(h) PROVE TypeOK'
    BY <2>10 DEF DeleteUnsent, Retry, GiveUp, Return
  <2>11. ASSUME NEW i \in Instances, Start(i) PROVE TypeOK'
    BY <2>11 DEF Start, Statuses
  <2>12. ASSUME NEW i \in Instances, Crash(i) PROVE TypeOK'
    BY <2>12, KillTyped DEF Crash, Statuses
  <2>13. CASE Tick
    <3>1. owner' \in [Keys -> Instances \cup {NoOwner}] /\ ttl' \in [Keys -> 0..ConnTTL]
      BY <2>13, TickKeys
    <3>2. gap' \in [Handlers -> 0..MaxGap]
      BY <2>13 DEF Tick, Holds
    <3>3. /\ sweep' \in [Instances -> SweepStates]
          /\ \A i \in Instances : sweep'[i].pc = "del" => sweep'[i].key \in Keys
      BY <2>13, TickSweeps
    <3> QED BY <2>13, <3>1, <3>2, <3>3 DEF Tick
  <2>14. CASE UNCHANGED vars
    BY <2>14 DEF vars
  <2>15. ASSUME NEW i \in Instances, Signal(i) PROVE TypeOK'
    BY <2>15 DEF Signal, Statuses
  <2>16. ASSUME NEW i \in Instances, Drained(i) PROVE TypeOK'
    BY <2>16, SweepBegins DEF Drained
  <2>17. ASSUME NEW i \in Instances, Forced(i) PROVE TypeOK'
    BY <2>17, SweepBegins DEF Forced
  <2>18. ASSUME NEW i \in Instances, SweepStep(i) PROVE TypeOK'
    BY <2>18, SweepStepTyped
  <2> QED
    BY <2>1, <2>2, <2>3, <2>4, <2>5, <2>6, <2>7, <2>8, <2>9, <2>10, <2>11, <2>12,
       <2>13, <2>14, <2>15, <2>16, <2>17, <2>18 DEF Next, HandlerStep
<1> QED
  BY <1>1, <1>2, PTL DEF Spec

(***************************************************************************)
(* The clean-up.                                                           *)
(***************************************************************************)
\* What the clean-up of i has still to look at.
Pending(i, k) ==
    \/ k \in sweep[i].todo
    \/ k \in sweep[i].page
    \/ sweep[i].pc = "del" /\ sweep[i].key = k

\* A page is worked off before the next SCAN.
PageDone(i) == sweep[i].pc = "scan" => sweep[i].page = {}

\* What a step of the clean-up of i, before the exit, may do.
SweepEffect(i) ==
    /\ UNCHANGED <<status, pc, key, inst, tries, gap>>
    /\ sweep[i].pc # "off"
    /\ \A j \in Instances : j # i => sweep'[j] = sweep[j]
    /\ PageDone(i)'
    /\ sweep'[i].clean => sweep[i].clean
    /\ UNCHANGED <<owner, ttl>> \/ (sweep[i].pc = "del" /\ Del(sweep[i].key))
    /\ sweep'[i].pc = "del" =>
          \/ owner[sweep'[i].key] = i /\ UNCHANGED <<owner, ttl>>
          \/ /\ "DEL" \in LoseReplies /\ MaxRetries # 0
             /\ sweep[i].pc = "del" /\ sweep'[i].key = sweep[i].key /\ Del(sweep[i].key)
    /\ sweep'[i].clean => \A k \in Keys : owner'[k] = i /\ Pending(i, k) => Pending(i, k)'

LEMMA SweepEffects ==
  ASSUME TypeOK, NEW i \in Instances, PageDone(i), SweepStep(i)
  PROVE  SweepEffect(i) \/ Exit(i)
<1>1. /\ sweep[i] \in SweepStates
      /\ sweep \in [Instances -> SweepStates]
      /\ owner \in [Keys -> Instances \cup {NoOwner}]
      /\ sweep[i].pc = "del" => sweep[i].key \in Keys
  BY DEF TypeOK
<1>2. NoOwner # i
  OBVIOUS
<1>3. CASE SweepScan(i)
  <2>1. PICK part \in SUBSET sweep[i].todo :
           LET page == {k \in part : owner[k] # NoOwner}
           IN  sweep' = [sweep EXCEPT ![i] = [@ EXCEPT !.todo = sweep[i].todo \ part, !.page = page,
                                                       !.pc = NextKey(page)]]
    BY <1>3 DEF SweepScan
  <2> DEFINE page == {k \in part : owner[k] # NoOwner}
  <2>2. /\ sweep'[i].todo = sweep[i].todo \ part
        /\ sweep'[i].page = page
        /\ sweep'[i].pc = NextKey(page)
        /\ sweep'[i].clean = sweep[i].clean
        /\ \A j \in Instances : j # i => sweep'[j] = sweep[j]
    BY <1>1, <2>1 DEF SweepStates
  <2>3. NextKey(page) # "del" /\ (NextKey(page) = "scan" => page = {})
    BY DEF NextKey
  <2>4. UNCHANGED <<owner, ttl>> /\ UNCHANGED <<status, pc, key, inst, tries, gap>>
    BY <1>3 DEF SweepScan
  <2>5. sweep[i].pc = "scan"
    BY <1>3 DEF SweepScan
  <2> QED BY <1>2, <2>2, <2>3, <2>4, <2>5 DEF SweepEffect, PageDone, Pending
<1>4. CASE SweepScanError(i)
  <2>1. /\ ~sweep'[i].clean /\ sweep'[i].page = sweep[i].page /\ sweep'[i].pc = sweep[i].pc
        /\ \A j \in Instances : j # i => sweep'[j] = sweep[j]
    BY <1>1, <1>4 DEF SweepScanError, SweepStates
  <2>2. UNCHANGED <<owner, ttl>> /\ UNCHANGED <<status, pc, key, inst, tries, gap>>
    BY <1>4 DEF SweepScanError
  <2>3. sweep[i].pc = "scan"
    BY <1>4 DEF SweepScanError
  <2> QED BY <2>1, <2>2, <2>3 DEF SweepEffect, PageDone
<1>5. CASE SweepGet(i)
  <2>1. PICK k \in sweep[i].page :
           LET rest == sweep[i].page \ {k}
           IN  \/ /\ owner[k] = i
                  /\ sweep' = [sweep EXCEPT ![i] = [@ EXCEPT !.page = rest, !.key = k, !.pc = "del"]]
               \/ /\ owner[k] # i
                  /\ sweep' = [sweep EXCEPT ![i] = [@ EXCEPT !.page = rest, !.pc = NextKey(rest)]]
    BY <1>5 DEF SweepGet
  <2> DEFINE rest == sweep[i].page \ {k}
             r == [sweep[i] EXCEPT !.page = rest, !.key = k, !.pc = "del"]
             q == [sweep[i] EXCEPT !.page = rest, !.pc = NextKey(rest)]
  <2>2. /\ r.todo = sweep[i].todo /\ r.page = rest /\ r.clean = sweep[i].clean
        /\ r.pc = "del" /\ r.key = k
        /\ q.todo = sweep[i].todo /\ q.page = rest /\ q.clean = sweep[i].clean
        /\ q.pc = NextKey(rest)
    BY <1>1 DEF SweepStates
  <2>3. NextKey(rest) # "del" /\ (NextKey(rest) = "scan" => rest = {})
    BY DEF NextKey
  <2>4. /\ sweep[i].pc = "get"
        /\ UNCHANGED <<owner, ttl>> /\ UNCHANGED <<status, pc, key, inst, tries, gap>>
    BY <1>5 DEF SweepGet
  <2>5. \/ owner[k] = i /\ sweep' = [sweep EXCEPT ![i] = r]
        \/ owner[k] # i /\ sweep' = [sweep EXCEPT ![i] = q]
    BY <2>1
  <2> HIDE DEF r, q
  <2>6. CASE owner[k] = i /\ sweep' = [sweep EXCEPT ![i] = r]
    <3>1. sweep'[i] = r /\ \A j \in Instances : j # i => sweep'[j] = sweep[j]
      BY <1>1, <2>6
    <3> QED BY <2>2, <2>4, <2>6, <3>1 DEF SweepEffect, PageDone, Pending
  <2>7. CASE owner[k] # i /\ sweep' = [sweep EXCEPT ![i] = q]
    <3>1. sweep'[i] = q /\ \A j \in Instances : j # i => sweep'[j] = sweep[j]
      BY <1>1, <2>7
    <3> QED BY <2>2, <2>3, <2>4, <2>7, <3>1 DEF SweepEffect, PageDone, Pending
  <2> QED BY <2>5, <2>6, <2>7
<1>6. CASE SweepGetError(i)
  <2>1. PICK k \in sweep[i].page :
           LET rest == sweep[i].page \ {k}
           IN  sweep' = [sweep EXCEPT ![i] = [@ EXCEPT !.page = rest, !.pc = NextKey(rest),
                                                       !.clean = FALSE]]
    BY <1>6 DEF SweepGetError
  <2> DEFINE rest == sweep[i].page \ {k}
  <2>2. /\ sweep'[i].page = rest /\ sweep'[i].pc = NextKey(rest) /\ ~sweep'[i].clean
        /\ \A j \in Instances : j # i => sweep'[j] = sweep[j]
    BY <1>1, <2>1 DEF SweepStates
  <2>3. NextKey(rest) # "del" /\ (NextKey(rest) = "scan" => rest = {})
    BY DEF NextKey
  <2>4. UNCHANGED <<owner, ttl>> /\ UNCHANGED <<status, pc, key, inst, tries, gap>>
    BY <1>6 DEF SweepGetError
  <2>5. sweep[i].pc = "get"
    BY <1>6 DEF SweepGetError
  <2> QED BY <2>2, <2>3, <2>4, <2>5 DEF SweepEffect, PageDone
<1>7. ASSUME NEW ok \in BOOLEAN, SweptKey(i, ok)
      PROVE  /\ sweep'[i].todo = sweep[i].todo /\ sweep'[i].page = sweep[i].page
             /\ sweep'[i].pc # "del" /\ PageDone(i)'
             /\ sweep'[i].clean => sweep[i].clean /\ ok
             /\ \A j \in Instances : j # i => sweep'[j] = sweep[j]
  <2>1. /\ sweep'[i].todo = sweep[i].todo /\ sweep'[i].page = sweep[i].page
        /\ sweep'[i].pc = NextKey(sweep[i].page)
        /\ sweep'[i].clean = (sweep[i].clean /\ ok)
        /\ \A j \in Instances : j # i => sweep'[j] = sweep[j]
    BY <1>1, <1>7 DEF SweptKey, SweepStates
  <2> QED BY <2>1 DEF NextKey, PageDone
<1>8. Del(sweep[i].key) /\ sweep[i].key \in Keys => owner'[sweep[i].key] # i
  BY <1>1, <1>2 DEF Del
<1>9. CASE SweepDel(i)
  <2>1. /\ sweep[i].pc = "del" /\ Del(sweep[i].key) /\ SweptKey(i, TRUE)
        /\ UNCHANGED <<status, pc, key, inst, tries, gap>>
    BY <1>9 DEF SweepDel
  <2> QED BY <1>1, <1>7, <1>8, <2>1 DEF SweepEffect, Pending
<1>10. CASE SweepDelLost(i)
  <2>1. /\ sweep[i].pc = "del" /\ Del(sweep[i].key) /\ "DEL" \in LoseReplies
        /\ UNCHANGED <<status, pc, key, inst, tries, gap>>
    BY <1>10 DEF SweepDelLost
  <2>2. CASE SweptKey(i, TRUE)
    BY <1>1, <1>7, <1>8, <2>1, <2>2 DEF SweepEffect, Pending
  <2>3. CASE sweep[i].tries < MaxRetries /\ sweep' = [sweep EXCEPT ![i] = [@ EXCEPT !.tries = sweep[i].tries + 1]]
    <3>1. /\ sweep'[i].todo = sweep[i].todo /\ sweep'[i].page = sweep[i].page
          /\ sweep'[i].pc = sweep[i].pc /\ sweep'[i].key = sweep[i].key
          /\ sweep'[i].clean = sweep[i].clean
          /\ \A j \in Instances : j # i => sweep'[j] = sweep[j]
      BY <1>1, <2>3 DEF SweepStates
    <3>2. MaxRetries # 0
      BY <1>1, <2>3 DEF SweepStates
    <3> QED BY <2>1, <3>1, <3>2 DEF SweepEffect, PageDone, Pending
  <2> QED BY <1>10, <2>2, <2>3 DEF SweepDelLost
<1>11. CASE SweepDelError(i)
  <2>1. /\ sweep[i].pc = "del" /\ SweptKey(i, FALSE)
        /\ UNCHANGED <<owner, ttl>> /\ UNCHANGED <<status, pc, key, inst, tries, gap>>
    BY <1>11 DEF SweepDelError
  <2> QED BY <1>7, <2>1 DEF SweepEffect
<1> QED
  BY <1>3, <1>4, <1>5, <1>6, <1>9, <1>10, <1>11 DEF SweepStep

(***************************************************************************)
(* SweptClean says what is true of a process that is gone.  CleanInv says  *)
(* what makes it so: a drained process has no handler that could register  *)
(* another key, and every key that holds its id is still to be looked at   *)
(* by its clean-up, as long as none of the commands failed.                *)
(***************************************************************************)
SweepPhase ==
    \A i \in Instances : sweep[i].pc # "off" => status[i] \in {"drained", "forced"}

Quiet ==
    \A i \in Instances : status[i] \in {"drained", "stopped"} => \A h \in Handlers : inst[h] # i

CleanSoFar ==
    \A i \in Instances : status[i] = "drained" /\ sweep[i].clean =>
        \A k \in Keys : owner[k] = i => Pending(i, k)

PagesDone == \A i \in Instances : PageDone(i)

CleanInv == TypeOK /\ SweepPhase /\ Quiet /\ PagesDone /\ CleanSoFar /\ SweptClean

\* What a handler can do to the instances and to the values of the keys.
HandlerEffect(h) ==
    /\ UNCHANGED <<status, sweep>>
    /\ \A g \in Handlers : \/ inst'[g] \in {inst[g], NoOwner}
                           \/ /\ inst'[g] \in Instances
                              /\ status[inst'[g]] \in {"up", "stopping", "forced"}
    /\ \A k \in Keys : owner'[k] \in {owner[k], NoOwner, inst[h]}

LEMMA HandlerEffects ==
  ASSUME TypeOK, NEW h \in Handlers, HandlerStep(h)
  PROVE  HandlerEffect(h)
<1> USE DEF TypeOK, HandlerEffect
<1>1. ASSUME NEW i \in Instances, NEW k \in Keys, Arrive(h, i, k) PROVE HandlerEffect(h)
  BY <1>1 DEF Arrive
<1>2. CASE Register(h)
  BY <1>2 DEF Register, SetNX, Goto
<1>3. CASE RegisterDuplicate(h)
  BY <1>3 DEF RegisterDuplicate, Return
<1>4. CASE RegisterLost(h)
  BY <1>4 DEF RegisterLost, SetNX, redis, Retry, Return
<1>5. CASE RegisterUnsent(h)
  BY <1>5 DEF RegisterUnsent, Retry, Return
<1>6. CASE Refresh(h)
  BY <1>6 DEF Refresh, Expire
<1>7. CASE Leave(h)
  BY <1>7 DEF Leave, Goto
<1>8. CASE Delete(h)
  BY <1>8 DEF Delete, Del, Return
<1>9. CASE DeleteLost(h)
  BY <1>9 DEF DeleteLost, Del, Retry, GiveUp, Return
<1>10. CASE DeleteUnsent(h)
  BY <1>10 DEF DeleteUnsent, Retry, GiveUp, Return
<1> QED
  BY <1>1, <1>2, <1>3, <1>4, <1>5, <1>6, <1>7, <1>8, <1>9, <1>10 DEF HandlerStep

\* The end of a process leaves the other processes and the keys alone.
LEMMA KillEffects ==
  ASSUME TypeOK, NEW i \in Instances, NEW s \in Statuses, Kill(i, s)
  PROVE  /\ status'[i] = s /\ sweep'[i].pc = "off"
         /\ \A j \in Instances : j # i => status'[j] = status[j] /\ sweep'[j] = sweep[j]
         /\ \A h \in Handlers : inst'[h] # i /\ inst'[h] \in {inst[h], NoOwner}
<1>1. NoSweep.pc = "off"
  BY DEF NoSweep
<1>2. /\ status \in [Instances -> Statuses] /\ sweep \in [Instances -> SweepStates]
      /\ i # NoOwner
  BY DEF TypeOK
<1> QED BY <1>1, <1>2 DEF Kill

LEMMA CleanStep ==
  ASSUME CleanInv, [Next]_vars, TypeOK'
  PROVE  CleanInv'
<1>1. /\ TypeOK /\ SweepPhase /\ Quiet /\ PagesDone /\ CleanSoFar /\ SweptClean
  BY DEF CleanInv
<1>2. /\ status \in [Instances -> Statuses] /\ sweep \in [Instances -> SweepStates]
      /\ owner \in [Keys -> Instances \cup {NoOwner}]
      /\ inst \in [Handlers -> Instances \cup {NoOwner}]
  BY <1>1 DEF TypeOK
<1>3. \A i \in Instances : i # NoOwner
  OBVIOUS
<1> SUFFICES SweepPhase' /\ Quiet' /\ PagesDone' /\ CleanSoFar' /\ SweptClean'
  BY DEF CleanInv
<1> DEFINE Goal == SweepPhase' /\ Quiet' /\ PagesDone' /\ CleanSoFar' /\ SweptClean'
<1> USE DEF SweepPhase, Quiet, PagesDone, PageDone, CleanSoFar, Pending, SweptClean
<1>4. ASSUME NEW h \in Handlers, HandlerStep(h) PROVE Goal
  <2>1. HandlerEffect(h)
    BY <1>1, <1>4, HandlerEffects
  <2> QED BY <1>1, <1>2, <1>3, <2>1 DEF HandlerEffect
<1>5. ASSUME NEW i \in Instances, Start(i) PROVE Goal
  BY <1>1, <1>2, <1>5 DEF Start
<1>6. ASSUME NEW i \in Instances, Crash(i) PROVE Goal
  <2>1. "down" \in Statuses
    BY DEF Statuses
  <2> QED BY <1>1, <1>2, <1>3, <1>6, <2>1, KillEffects DEF Crash
<1>7. ASSUME NEW i \in Instances, Signal(i) PROVE Goal
  BY <1>1, <1>2, <1>7 DEF Signal
<1>8. ASSUME NEW i \in Instances, BeginSweep(i)
      PROVE  /\ sweep'[i].pc = "scan" /\ sweep'[i].todo = Keys /\ sweep'[i].page = {}
             /\ \A j \in Instances : j # i => sweep'[j] = sweep[j]
  BY <1>2, <1>8 DEF BeginSweep, NoSweep
<1>9. ASSUME NEW i \in Instances, Drained(i) PROVE Goal
  <2>1. /\ status'[i] = "drained"
        /\ \A j \in Instances : j # i => status'[j] = status[j]
        /\ \A h \in Handlers : inst[h] # i
        /\ owner' = owner /\ inst' = inst
    BY <1>2, <1>9 DEF Drained, BeginSweep
  <2>2. /\ sweep'[i].pc = "scan" /\ sweep'[i].todo = Keys /\ sweep'[i].page = {}
        /\ \A j \in Instances : j # i => sweep'[j] = sweep[j]
    BY <1>8, <1>9 DEF Drained
  <2> QED BY <1>1, <2>1, <2>2
<1>10. ASSUME NEW i \in Instances, Forced(i) PROVE Goal
  <2>1. /\ status'[i] = "forced"
        /\ \A j \in Instances : j # i => status'[j] = status[j]
        /\ owner' = owner /\ inst' = inst
    BY <1>2, <1>10 DEF Forced, BeginSweep
  <2>2. /\ sweep'[i].pc = "scan" /\ sweep'[i].todo = Keys /\ sweep'[i].page = {}
        /\ \A j \in Instances : j # i => sweep'[j] = sweep[j]
    BY <1>8, <1>10 DEF Forced
  <2> QED BY <1>1, <2>1, <2>2
<1>11. ASSUME NEW i \in Instances, SweepStep(i) PROVE Goal
  <2>1. CASE Exit(i)
    <3>1. PICK s \in Statuses : /\ Kill(i, s)
                                /\ s = "stopped" => status[i] = "drained" /\ sweep[i].clean
                                /\ s # "drained"
      BY <2>1 DEF Exit, Statuses
    <3>2. sweep[i].pc = "scan" /\ sweep[i].todo = {} /\ UNCHANGED <<owner, ttl>>
      BY <2>1 DEF Exit
    <3> QED BY <1>1, <1>2, <1>3, <3>1, <3>2, KillEffects
  <2>2. CASE SweepEffect(i)
    <3>1. \A k \in Keys : owner'[k] \in {owner[k], NoOwner}
      BY <1>1, <1>2, <2>2 DEF SweepEffect, Del, TypeOK
    <3> QED BY <1>1, <1>2, <1>3, <2>2, <3>1 DEF SweepEffect
  <2> QED BY <1>1, <1>11, <2>1, <2>2, SweepEffects
<1>12. CASE Tick
  <2>1. \A k \in Keys : owner'[k] \in {owner[k], NoOwner}
    BY <1>12 DEF Tick
  <2> QED BY <1>1, <1>2, <1>3, <1>12, <2>1, TickSweeps DEF Tick
<1>13. CASE UNCHANGED vars
  BY <1>1, <1>13 DEF vars
<1> QED
  BY <1>4, <1>5, <1>6, <1>7, <1>9, <1>10, <1>11, <1>12, <1>13 DEF Next

LEMMA CleanAlways == Spec => []CleanInv
<1>1. Init => CleanInv
  <2> SUFFICES ASSUME Init PROVE CleanInv
    OBVIOUS
  <2>1. TypeOK
    BY DEF Init, TypeOK, PCs, Statuses, SweepStates, NoSweep
  <2> QED
    BY <2>1 DEF Init, NoSweep, CleanInv, SweepPhase, Quiet, PagesDone, PageDone, CleanSoFar, SweptClean
<1>2. CleanInv /\ TypeOK' /\ [Next]_vars => CleanInv'
  BY CleanStep
<1> QED
  BY <1>1, <1>2, TypeCorrect, PTL DEF Spec

\* A process that stopped with all its handlers ended and every command of
\* CleanupInstance (connection.go:80-104) carried out leaves no key with its id,
\* however SCAN cuts the key space into pages and whatever other processes do.
THEOREM SweptCleanHolds == Spec => []SweptClean
<1>1. CleanInv => SweptClean
  BY DEF CleanInv
<1> QED
  BY <1>1, CleanAlways, PTL

(***************************************************************************)
(* What a clean-up is about to delete.                                     *)
(***************************************************************************)
\* A key keeps its value and TTL, goes, or gets a fresh TTL, in any step but a
\* tick.
Touched(k) ==
    \/ owner'[k] = owner[k] /\ ttl'[k] = ttl[k]
    \/ owner'[k] = NoOwner
    \/ ttl'[k] = ConnTTL

LEMMA HandlerTouches ==
  ASSUME TypeOK, NEW h \in Handlers, HandlerStep(h)
  PROVE  \A k \in Keys : Touched(k)
<1>1. /\ owner \in [Keys -> Instances \cup {NoOwner}] /\ ttl \in [Keys -> 0..ConnTTL]
      /\ pc[h] # "idle" => key[h] \in Keys
  BY DEF TypeOK
<1>2. ASSUME NEW k \in Keys, NEW v, SetNX(k, v) \/ Expire(k) \/ Del(k)
      PROVE  \A l \in Keys : Touched(l)
  BY <1>1, <1>2 DEF SetNX, Expire, Del, Touched
<1>3. ASSUME UNCHANGED <<owner, ttl>> PROVE \A l \in Keys : Touched(l)
  BY <1>3 DEF Touched
<1>4. ASSUME NEW i \in Instances, NEW k \in Keys, Arrive(h, i, k) PROVE UNCHANGED <<owner, ttl>>
  BY <1>4 DEF Arrive
<1>5. CASE Register(h) \/ RegisterLost(h)
  BY <1>1, <1>2, <1>3, <1>5 DEF Register, RegisterLost, redis
<1>6. CASE RegisterDuplicate(h) \/ RegisterUnsent(h) \/ Leave(h) \/ DeleteUnsent(h)
  BY <1>3, <1>6 DEF RegisterDuplicate, RegisterUnsent, Leave, DeleteUnsent
<1>7. CASE Refresh(h)
  BY <1>1, <1>2, <1>7 DEF Refresh
<1>8. CASE Delete(h) \/ DeleteLost(h)
  BY <1>1, <1>2, <1>8 DEF Delete, DeleteLost
<1> QED BY <1>3, <1>4, <1>5, <1>6, <1>7, <1>8 DEF HandlerStep

LEMMA OwnOrNewStep ==
  ASSUME CleanInv, SweepsOwnOrNew, [Next]_vars
  PROVE  SweepsOwnOrNew'
<1>1. /\ TypeOK /\ PagesDone
      /\ sweep \in [Instances -> SweepStates] /\ ttl \in [Keys -> 0..ConnTTL]
      /\ owner \in [Keys -> Instances \cup {NoOwner}]
      /\ \A i \in Instances : sweep[i].pc = "del" => sweep[i].key \in Keys
      /\ \A i \in Instances : sweep[i].lag \in 0..MaxLag
  BY DEF CleanInv, TypeOK, SweepStates
<1>2. ASSUME \A k \in Keys : Touched(k), NEW i \in Instances, sweep'[i] = sweep[i], sweep'[i].pc = "del"
      PROVE  \/ owner'[sweep'[i].key] \in {i, NoOwner}
             \/ ttl'[sweep'[i].key] >= ConnTTL - sweep'[i].lag
  BY <1>1, <1>2 DEF Touched, SweepsOwnOrNew
<1>3. ASSUME \A k \in Keys : Touched(k), sweep' = sweep PROVE SweepsOwnOrNew'
  BY <1>2, <1>3 DEF SweepsOwnOrNew
<1>4. ASSUME NEW h \in Handlers, HandlerStep(h) PROVE SweepsOwnOrNew'
  BY <1>1, <1>3, <1>4, HandlerTouches, HandlerEffects DEF HandlerEffect
<1>5. ASSUME NEW i \in Instances, sweep'[i].pc # "del", UNCHANGED <<owner, ttl>>,
             \A j \in Instances : j # i => sweep'[j] = sweep[j]
      PROVE  SweepsOwnOrNew'
  BY <1>1, <1>2, <1>5 DEF SweepsOwnOrNew, Touched
<1>6. ASSUME NEW i \in Instances, Start(i) \/ Signal(i) PROVE SweepsOwnOrNew'
  BY <1>3, <1>6 DEF Start, Signal, Touched
<1>7. ASSUME NEW i \in Instances, Crash(i) PROVE SweepsOwnOrNew'
  BY <1>1, <1>5, <1>7, KillEffects DEF Crash, Statuses
<1>8. ASSUME NEW i \in Instances, Drained(i) \/ Forced(i) PROVE SweepsOwnOrNew'
  <2>1. BeginSweep(i)
    BY <1>8 DEF Drained, Forced
  <2>2. sweep'[i].pc = "scan" /\ \A j \in Instances : j # i => sweep'[j] = sweep[j]
    BY <1>1, <2>1 DEF BeginSweep, NoSweep
  <2> QED BY <1>5, <2>1, <2>2 DEF BeginSweep
<1>9. ASSUME NEW i \in Instances, SweepStep(i) PROVE SweepsOwnOrNew'
  <2>1. CASE Exit(i)
    BY <1>1, <1>5, <2>1, KillEffects DEF Exit, Statuses
  <2>2. CASE SweepEffect(i)
    <3>1. \A k \in Keys : Touched(k)
      BY <1>1, <2>2 DEF SweepEffect, Del, Touched
    <3>2. \A j \in Instances : j # i => sweep'[j] = sweep[j]
      BY <2>2 DEF SweepEffect
    <3>3. sweep'[i].pc = "del" => owner'[sweep'[i].key] \in {i, NoOwner}
      BY <1>1, <2>2 DEF SweepEffect, Del
    <3> QED BY <1>2, <3>1, <3>2, <3>3 DEF SweepsOwnOrNew
  <2> QED BY <1>1, <1>9, <2>1, <2>2, SweepEffects DEF PagesDone
<1>10. CASE Tick
  <2> SUFFICES ASSUME NEW i \in Instances, sweep'[i].pc = "del"
               PROVE  \/ owner'[sweep'[i].key] \in {i, NoOwner}
                      \/ ttl'[sweep'[i].key] >= ConnTTL - sweep'[i].lag
    BY DEF SweepsOwnOrNew
  <2> DEFINE k == sweep[i].key
  <2>1. /\ sweep[i].pc = "del" /\ sweep'[i].key = k /\ sweep'[i].lag = sweep[i].lag + 1
        /\ k \in Keys
    BY <1>1, <1>10, TickSweeps
  <2>2. /\ owner'[k] = IF ttl[k] = 1 THEN NoOwner ELSE owner[k]
        /\ ttl'[k] = IF ttl[k] = 0 THEN 0 ELSE ttl[k] - 1
    BY <1>10, <2>1 DEF Tick
  <2>3. owner[k] \in {i, NoOwner} \/ ttl[k] >= ConnTTL - sweep[i].lag
    BY <2>1 DEF SweepsOwnOrNew
  <2>4. ttl[k] \in 0..ConnTTL /\ sweep[i].lag \in 0..MaxLag
    BY <1>1, <2>1
  <2> HIDE DEF k
  <2> QED BY <2>1, <2>2, <2>3, <2>4
<1>11. CASE UNCHANGED vars
  BY <1>3, <1>11 DEF vars, Touched
<1> QED
  BY <1>4, <1>6, <1>7, <1>8, <1>9, <1>10, <1>11 DEF Next

\* CleanupInstance deletes the key of another process only if that key got its
\* TTL after the GET (connection.go:89-94): for any constants, forced shutdowns,
\* any lag between GET and DEL, lost replies and repeated DELs included.
THEOREM SweepsOwnOrNewHolds == Spec => []SweepsOwnOrNew
<1>1. Init => SweepsOwnOrNew
  BY DEF Init, NoSweep, SweepsOwnOrNew
<1>2. CleanInv /\ SweepsOwnOrNew /\ [Next]_vars => SweepsOwnOrNew'
  BY OwnOrNewStep
<1> QED
  BY <1>1, <1>2, CleanAlways, PTL DEF Spec

(***************************************************************************)
(* One stream per key.                                                     *)
(*                                                                         *)
(* OneStream is not inductive: it says nothing of the key in Redis that    *)
(* stops a second Register, nor of a handler whose Delete is still to come *)
(* and would remove whatever key it finds, nor of a clean-up that is about *)
(* to remove one.  Inv adds these, and CleanInv: a clean-up runs in a      *)
(* process without handlers, so the key it removes is nobody's.            *)
(***************************************************************************)
\* At most one handler is between its SET and its DEL on any key.
HeldOnce ==
    \A g, h \in Handlers : Holds(g) /\ Holds(h) /\ key[g] = key[h] => g = h

\* No DEL is sent twice.
NoRedelete == \A h \in Handlers : pc[h] # "redeleting"

\* A clean-up is about to delete a key that holds its instance's id.
OwnDel == \A i \in Instances : sweep[i].pc = "del" => owner[sweep[i].key] = i

NoneForced == \A i \in Instances : status[i] # "forced"

Inv == CleanInv /\ HeldOnce /\ StreamHoldsKey /\ NoRedelete /\ OwnDel /\ NoneForced

\* What a clean-up is about to delete is nobody's stream, and what a stream
\* holds is no clean-up's to delete.
LEMMA SweptNotHeld ==
  ASSUME Inv, NEW i \in Instances, sweep[i].pc = "del"
  PROVE  \A h \in Handlers : /\ inst[h] # i
                             /\ Holds(h) => key[h] # sweep[i].key
<1>1. status[i] = "drained"
  BY DEF Inv, CleanInv, SweepPhase, NoneForced
<1>2. \A h \in Handlers : inst[h] # i
  BY <1>1 DEF Inv, CleanInv, Quiet
<1> QED BY <1>2 DEF Inv, OwnDel, StreamHoldsKey

LEMMA HandlerInv ==
  ASSUME DelOnce, Inv, NEW h \in Handlers, HandlerStep(h)
  PROVE  HeldOnce' /\ StreamHoldsKey' /\ NoRedelete' /\ OwnDel' /\ NoneForced'
<1> DEFINE Streams == HeldOnce /\ StreamHoldsKey /\ NoRedelete
<1>1. TypeOK /\ HeldOnce /\ StreamHoldsKey /\ NoRedelete /\ OwnDel /\ NoneForced
  BY DEF Inv, CleanInv
<1>2. UNCHANGED <<status, sweep>>
  BY <1>1, HandlerEffects DEF HandlerEffect
<1>3. NoneForced'
  BY <1>1, <1>2 DEF NoneForced
<1>4. ASSUME \A k \in Keys : owner[k] # NoOwner =>
                \/ owner'[k] = owner[k]
                \/ Holds(h) /\ key[h] = k
      PROVE  OwnDel'
  <2>1. \A i \in Instances : sweep[i].pc = "del" => sweep[i].key \in Keys /\ i # NoOwner
    BY <1>1 DEF TypeOK
  <2> QED BY <1>1, <1>2, <1>4, <2>1, SweptNotHeld DEF OwnDel
<1> SUFFICES Streams' /\ \A k \in Keys : owner[k] # NoOwner =>
                            \/ owner'[k] = owner[k]
                            \/ Holds(h) /\ key[h] = k
  BY <1>3, <1>4
<1> USE <1>1 DEF TypeOK, PCs, HeldOnce, StreamHoldsKey, NoRedelete, Holds
<1> DEFINE Goal == Streams' /\ \A k \in Keys : owner[k] # NoOwner =>
                                 \/ owner'[k] = owner[k]
                                 \/ Holds(h) /\ key[h] = k
<1>5. ASSUME NEW i \in Instances, NEW k \in Keys, Arrive(h, i, k) PROVE Goal
  BY <1>5 DEF Arrive
<1>6. CASE Register(h)
  <2>1. \A g \in Handlers : Holds(g) => key[g] # key[h]
    BY <1>6 DEF Register
  <2> QED BY <1>6, <2>1 DEF Register, SetNX, Goto
<1>7. CASE RegisterDuplicate(h)
  BY <1>7 DEF RegisterDuplicate, Return
<1>8. CASE RegisterLost(h)
  <2>1. \A k \in Keys : owner[k] # NoOwner => owner'[k] = owner[k] /\ ttl'[k] = ttl[k]
    BY <1>8 DEF RegisterLost, SetNX, redis
  <2>2. CASE Retry(h, "registering")
    BY <1>8, <2>1, <2>2 DEF RegisterLost, Retry
  <2>3. CASE Return(h)
    BY <1>8, <2>1, <2>3 DEF RegisterLost, Return
  <2> QED BY <1>8, <2>2, <2>3 DEF RegisterLost
<1>9. CASE RegisterUnsent(h)
  BY <1>9 DEF RegisterUnsent, Retry, Return
<1>10. CASE Refresh(h)
  <2>1. owner[key[h]] # NoOwner
    BY <1>10 DEF Refresh
  <2>2. \A g \in Handlers : Holds(g) /\ g # h => key[g] # key[h]
    BY <1>10 DEF Refresh
  <2> QED BY <1>10, <2>1, <2>2 DEF Refresh, Expire
<1>11. CASE Leave(h)
  BY <1>11 DEF Leave, Goto
<1>12. CASE Delete(h)
  <2>1. \A g \in Handlers : Holds(g) /\ g # h => key[g] # key[h]
    BY <1>12 DEF Delete
  <2> QED BY <1>12, <2>1 DEF Delete, Del, Return
<1>13. CASE DeleteLost(h)
  <2>1. \A g \in Handlers : Holds(g) /\ g # h => key[g] # key[h]
    BY <1>13 DEF DeleteLost
  <2>2. GiveUp(h)
    BY <1>13 DEF DeleteLost, Retry, DelOnce
  <2> QED BY <1>13, <2>1, <2>2 DEF DeleteLost, Del, GiveUp, Return
<1>14. CASE DeleteUnsent(h)
  <2>1. CASE Retry(h, pc[h])
    BY <1>14, <2>1 DEF DeleteUnsent, Retry
  <2>2. CASE GiveUp(h)
    BY <1>14, <2>2 DEF DeleteUnsent, GiveUp, Return
  <2> QED BY <1>14, <2>1, <2>2 DEF DeleteUnsent
<1> QED
  BY <1>5, <1>6, <1>7, <1>8, <1>9, <1>10, <1>11, <1>12, <1>13, <1>14 DEF HandlerStep

LEMMA KillInv ==
  ASSUME Inv, NEW i \in Instances, NEW s \in Statuses \ {"forced"}, Kill(i, s),
         UNCHANGED <<owner, ttl>>
  PROVE  HeldOnce' /\ StreamHoldsKey' /\ NoRedelete' /\ OwnDel' /\ NoneForced'
<1>1. TypeOK /\ HeldOnce /\ StreamHoldsKey /\ NoRedelete /\ OwnDel /\ NoneForced
  BY DEF Inv, CleanInv
<1>2. OwnDel' /\ NoneForced'
  BY <1>1, KillEffects DEF OwnDel, NoneForced
<1>3. /\ pc' = [h \in Handlers |-> IF inst[h] = i THEN "idle" ELSE pc[h]]
      /\ key' = [h \in Handlers |-> IF inst[h] = i THEN NoKey ELSE key[h]]
      /\ gap' = [h \in Handlers |-> IF inst[h] = i THEN 0 ELSE gap[h]]
      /\ inst' = [h \in Handlers |-> IF inst[h] = i THEN NoOwner ELSE inst[h]]
  BY DEF Kill
<1>4. HeldOnce' /\ StreamHoldsKey' /\ NoRedelete'
  BY <1>1, <1>3 DEF HeldOnce, StreamHoldsKey, NoRedelete, Holds
<1> QED BY <1>2, <1>4

LEMMA InvStep ==
  ASSUME Timely, DelOnce, Orderly, Inv, [Next]_vars, TypeOK'
  PROVE  Inv'
<1>1. CleanInv'
  BY CleanStep DEF Inv
<1>2. TypeOK /\ HeldOnce /\ StreamHoldsKey /\ NoRedelete /\ OwnDel /\ NoneForced
  BY DEF Inv, CleanInv
<1>3. /\ status \in [Instances -> Statuses] /\ sweep \in [Instances -> SweepStates]
      /\ \A i \in Instances : sweep[i].pc = "del" => sweep[i].key \in Keys /\ i # NoOwner
  BY <1>2 DEF TypeOK
<1> DEFINE Goal == HeldOnce' /\ StreamHoldsKey' /\ NoRedelete' /\ OwnDel' /\ NoneForced'
<1>4. ASSUME NEW h \in Handlers, HandlerStep(h) PROVE Goal
  BY <1>4, HandlerInv
<1>5. ASSUME NEW i \in Instances, Start(i) PROVE Goal
  BY <1>2, <1>3, <1>5 DEF Start, HeldOnce, StreamHoldsKey, NoRedelete, OwnDel, NoneForced, Holds
<1>6. ASSUME NEW i \in Instances, Crash(i) PROVE Goal
  BY <1>6, KillInv DEF Crash, Statuses
<1>7. ASSUME NEW i \in Instances, Signal(i) PROVE Goal
  BY <1>2, <1>3, <1>7 DEF Signal, HeldOnce, StreamHoldsKey, NoRedelete, OwnDel, NoneForced, Holds
<1>8. ASSUME NEW i \in Instances, Drained(i) PROVE Goal
  <2>1. /\ sweep'[i].pc = "scan"
        /\ \A j \in Instances : j # i => sweep'[j] = sweep[j]
    BY <1>3, <1>8 DEF Drained, BeginSweep, NoSweep
  <2>2. OwnDel'
    BY <1>2, <1>8, <2>1 DEF Drained, BeginSweep, OwnDel
  <2>3. NoneForced'
    BY <1>2, <1>3, <1>8 DEF Drained, NoneForced
  <2> QED
    BY <1>2, <1>8, <2>2, <2>3 DEF Drained, BeginSweep, HeldOnce, StreamHoldsKey, NoRedelete, Holds
<1>9. ASSUME NEW i \in Instances, Forced(i) PROVE Goal
  BY <1>9 DEF Forced, Orderly
<1>10. ASSUME NEW i \in Instances, SweepStep(i) PROVE Goal
  <2>1. PageDone(i)
    BY DEF Inv, CleanInv, PagesDone
  <2>2. CASE Exit(i)
    BY <2>2, KillInv DEF Exit, Statuses
  <2>3. CASE SweepEffect(i)
    <3>1. /\ UNCHANGED <<status, pc, key, inst, tries, gap>>
          /\ \A j \in Instances : j # i => sweep'[j] = sweep[j]
          /\ UNCHANGED <<owner, ttl>> \/ (sweep[i].pc = "del" /\ Del(sweep[i].key))
          /\ sweep'[i].pc = "del" => owner[sweep'[i].key] = i /\ UNCHANGED <<owner, ttl>>
      BY <2>3 DEF SweepEffect, DelOnce
    <3>2. \A k \in Keys : \/ owner'[k] = owner[k] /\ ttl'[k] = ttl[k]
                          \/ owner[k] = i /\ sweep[i].pc = "del" /\ sweep[i].key = k
      BY <1>2, <3>1 DEF Del, OwnDel, TypeOK
    <3>3. OwnDel'
      BY <1>2, <1>3, <3>1, <3>2 DEF OwnDel
    <3>4. \A h \in Handlers : Holds(h) =>
             owner'[key[h]] = owner[key[h]] /\ ttl'[key[h]] = ttl[key[h]]
      BY <1>2, <3>2, SweptNotHeld DEF TypeOK, Holds
    <3> QED
      BY <1>2, <3>1, <3>3, <3>4 DEF HeldOnce, StreamHoldsKey, NoRedelete, NoneForced, Holds
  <2> QED BY <1>2, <1>10, <2>1, <2>2, <2>3, SweepEffects
<1>11. ASSUME Tick PROVE Goal
  <2>1. \A h \in Handlers : Holds(h) => ttl[key[h]] > 1
    BY <1>2, <1>11 DEF Tick, Timely, TypeOK, StreamHoldsKey
  <2>2. OwnDel'
    <3>1. \A i \in Instances : sweep'[i].pc # "del"
      BY <1>2, <1>3, <1>11, TickSweeps DEF Orderly, SweepStates
    <3> QED BY <3>1 DEF OwnDel
  <2>3. UNCHANGED <<status, pc, key, inst, tries>>
    BY <1>11 DEF Tick
  <2>4. HeldOnce' /\ NoRedelete' /\ NoneForced'
    BY <1>2, <2>3 DEF HeldOnce, NoRedelete, NoneForced, Holds
  <2>5. StreamHoldsKey'
    BY <1>2, <1>11, <2>1 DEF Tick, TypeOK, StreamHoldsKey, Holds
  <2> QED
    BY <2>2, <2>4, <2>5
<1>12. ASSUME UNCHANGED vars PROVE Goal
  <2>1. HeldOnce' /\ NoRedelete' /\ StreamHoldsKey'
    BY <1>2, <1>12 DEF vars, HeldOnce, StreamHoldsKey, NoRedelete, Holds
  <2>2. OwnDel' /\ NoneForced'
    BY <1>2, <1>12 DEF vars, OwnDel, NoneForced
  <2> QED BY <2>1, <2>2
<1> HIDE DEF Goal
<1>13. Goal
  BY <1>4, <1>5, <1>6, <1>7, <1>8, <1>9, <1>10, <1>11, <1>12 DEF Next
<1> QED BY <1>1, <1>13 DEF Inv, Goal

LEMMA InvAlways ==
  ASSUME Timely, DelOnce, Orderly
  PROVE  Spec => []Inv
<1>1. Init /\ CleanInv => Inv
  BY DEF Init, NoSweep, Inv, HeldOnce, StreamHoldsKey, NoRedelete, OwnDel, NoneForced, Holds
<1>2. Inv /\ TypeOK' /\ [Next]_vars => Inv'
  BY InvStep
<1> QED
  BY <1>1, <1>2, TypeCorrect, CleanAlways, PTL DEF Spec

\* README.md:25, "a single active stream per IP address", holds of the code
\* (Register, Refresh and Delete, connection.go:46-65, as the stream handler
\* and RunLoop use them) for any number of instances, crashes, shutdowns,
\* failed commands and lost SET replies, provided no handler goes ConnTTL
\* without a renewal, no executed DEL is sent again, and a clean-up runs only
\* when the handlers of its process have ended and without delay.
THEOREM OneStreamHolds ==
  ASSUME Timely, DelOnce, Orderly
  PROVE  Spec => []OneStream
<1>1. Inv => OneStream
  BY DEF Inv, HeldOnce, OneStream, Holds
<1> QED
  BY <1>1, InvAlways, PTL

\* Under the same conditions a stream never loses its key and never finds
\* another instance's id in it, so the unconditional Delete of
\* connection.go:63-65 only ever removes the handler's own registration.
THEOREM StreamHoldsKeyHolds ==
  ASSUME Timely, DelOnce, Orderly
  PROVE  Spec => []StreamHoldsKey
<1>1. Inv => StreamHoldsKey
  BY DEF Inv
<1> QED
  BY <1>1, InvAlways, PTL

(***************************************************************************)
(* The registry implements the lease.                                      *)
(***************************************************************************)
\* A step that leaves handlers, labels and keys alone leaves the holders alone.
LEMMA HoldersKept ==
  ASSUME UNCHANGED <<pc, key>>
  PROVE  UNCHANGED holders
BY DEF holders, Holds

LEMMA HandlerLease ==
  ASSUME Inv, NEW h \in Handlers, HandlerStep(h)
  PROVE  L!Next \/ UNCHANGED holders
<1>1. TypeOK /\ HeldOnce /\ StreamHoldsKey
  BY DEF Inv, CleanInv
<1> USE <1>1 DEF TypeOK, PCs
<1>2. ASSUME \A g \in Handlers : /\ Holds(g)' <=> Holds(g)
                                 /\ Holds(g) => key'[g] = key[g]
      PROVE  UNCHANGED holders
  BY <1>2 DEF holders
<1>3. ASSUME Holds(h), ~Holds(h)',
             \A g \in Handlers : g # h => Holds(g)' = Holds(g) /\ key'[g] = key[g]
      PROVE  L!Next
  <2>1. holders[key[h]] = {h}
    BY <1>3 DEF holders, HeldOnce, Holds
  <2>2. key[h] \in Keys
    BY <1>3 DEF Holds
  <2>3. L!Release({key[h]})
    BY <1>3, <2>1, <2>2 DEF L!Release, holders
  <2> QED BY <2>2, <2>3 DEF L!Next
<1>4. ASSUME NEW i \in Instances, NEW k \in Keys, Arrive(h, i, k) PROVE UNCHANGED holders
  BY <1>2, <1>4 DEF Arrive, Holds
<1>5. CASE Register(h)
  <2>1. key[h] \in Keys /\ \A g \in Handlers : Holds(g) => key[g] # key[h]
    BY <1>5 DEF Register, StreamHoldsKey, Holds
  <2>2. holders[key[h]] = {}
    BY <2>1 DEF holders
  <2>3. /\ Holds(h)' /\ key' = key
        /\ \A g \in Handlers : g # h => Holds(g)' = Holds(g)
    BY <1>5 DEF Register, Goto, Holds
  <2>4. L!Acquire(h, key[h])
    <3>1. \A k \in Keys : holders'[k] = IF k = key[h] THEN {h} ELSE holders[k]
      BY <2>1, <2>3 DEF holders
    <3>2. /\ holders' = [k \in Keys |-> holders'[k]]
          /\ holders = [k \in Keys |-> holders[k]]
      BY DEF holders
    <3> QED BY <2>1, <2>2, <3>1, <3>2 DEF L!Acquire
  <2> QED BY <2>1, <2>4 DEF L!Next
<1>6. CASE RegisterDuplicate(h)
  BY <1>2, <1>6 DEF RegisterDuplicate, Return, Holds
<1>7. CASE RegisterLost(h)
  BY <1>2, <1>7 DEF RegisterLost, Retry, Return, Holds
<1>8. CASE RegisterUnsent(h)
  BY <1>2, <1>8 DEF RegisterUnsent, Retry, Return, Holds
<1>9. CASE Refresh(h)
  BY <1>9, HoldersKept DEF Refresh
<1>10. CASE Leave(h)
  BY <1>2, <1>10 DEF Leave, Goto, Holds
<1>11. ASSUME Return(h) PROVE L!Next \/ UNCHANGED holders
  <2>1. /\ ~Holds(h)'
        /\ \A g \in Handlers : g # h => Holds(g)' = Holds(g) /\ key'[g] = key[g]
    BY <1>11 DEF Return, Holds
  <2> QED BY <1>2, <1>3, <2>1
<1>12. CASE Delete(h)
  BY <1>11, <1>12 DEF Delete
<1>13. CASE DeleteLost(h)
  <2>1. CASE Retry(h, "redeleting")
    <3>1. /\ ~Holds(h)'
          /\ \A g \in Handlers : g # h => Holds(g)' = Holds(g) /\ key'[g] = key[g]
      BY <2>1 DEF Retry, Holds
    <3> QED BY <1>2, <1>3, <3>1
  <2>2. CASE GiveUp(h)
    BY <1>11, <2>2 DEF GiveUp
  <2> QED BY <1>13, <2>1, <2>2 DEF DeleteLost
<1>14. CASE DeleteUnsent(h)
  <2>1. CASE Retry(h, pc[h])
    BY <1>2, <2>1 DEF Retry, Holds
  <2>2. CASE GiveUp(h)
    BY <1>11, <2>2 DEF GiveUp
  <2> QED BY <1>14, <2>1, <2>2 DEF DeleteUnsent
<1> QED
  BY <1>4, <1>5, <1>6, <1>7, <1>8, <1>9, <1>10, <1>12, <1>13, <1>14 DEF HandlerStep

\* The end of a process releases the keys of its handlers.
LEMMA KillLease ==
  ASSUME Inv, NEW i \in Instances, NEW s, Kill(i, s)
  PROVE  L!Next
<1>1. TypeOK /\ HeldOnce
  BY DEF Inv, CleanInv
<1> DEFINE ks == {k \in Keys : \E h \in Handlers : Holds(h) /\ key[h] = k /\ inst[h] = i}
<1>2. \A h \in Handlers : /\ inst[h] = i => ~Holds(h)'
                          /\ inst[h] # i => Holds(h)' = Holds(h) /\ key'[h] = key[h]
  BY <1>1 DEF TypeOK, Kill, Holds
<1>3. \A k \in ks : \A h \in Handlers : Holds(h) /\ key[h] = k => inst[h] = i
  BY <1>1 DEF HeldOnce
<1>4. \A k \in Keys : holders'[k] = IF k \in ks THEN {} ELSE holders[k]
  BY <1>2, <1>3 DEF holders
<1>5. L!Release(ks)
  <2>1. holders' = [k \in Keys |-> holders'[k]]
    BY DEF holders
  <2> HIDE DEF ks
  <2> QED BY <1>4, <2>1 DEF L!Release
<1> QED BY <1>5 DEF L!Next

\* Under the same conditions the registry is a lease: a (client, IP) pair is
\* taken by one handler at a time, is taken only when nobody has it, and goes
\* back before another handler takes it (Register, stream.go:110; Delete,
\* stream.go:148; the end of a process, start.go:134-138).
THEOREM LeaseImplemented ==
  ASSUME Timely, DelOnce, Orderly
  PROVE  Spec => ImplementsLease
<1>1. Init => L!Init
  BY DEF Init, L!Init, holders, Holds
<1>2. Inv /\ [Next]_vars => [L!Next]_holders
  <2> SUFFICES ASSUME Inv, [Next]_vars PROVE L!Next \/ UNCHANGED holders
    OBVIOUS
  <2>1. ASSUME NEW h \in Handlers, HandlerStep(h) PROVE L!Next \/ UNCHANGED holders
    BY <2>1, HandlerLease
  <2>2. ASSUME NEW i \in Instances, Start(i) \/ Signal(i) \/ Drained(i) \/ Forced(i)
        PROVE  UNCHANGED holders
    BY <2>2, HoldersKept DEF Start, Signal, Drained, Forced, BeginSweep
  <2>3. ASSUME NEW i \in Instances, Crash(i) PROVE L!Next
    BY <2>3, KillLease DEF Crash
  <2>4. ASSUME NEW i \in Instances, SweepStep(i) PROVE L!Next \/ UNCHANGED holders
    <3>1. TypeOK /\ PageDone(i)
      BY DEF Inv, CleanInv, PagesDone
    <3>2. CASE Exit(i)
      BY <3>2, KillLease DEF Exit
    <3>3. CASE SweepEffect(i)
      BY <3>3, HoldersKept DEF SweepEffect
    <3> QED BY <2>4, <3>1, <3>2, <3>3, SweepEffects
  <2>5. CASE Tick \/ UNCHANGED vars
    BY <2>5, HoldersKept DEF Tick, vars
  <2> QED BY <2>1, <2>2, <2>3, <2>4, <2>5 DEF Next
<1> QED
  BY <1>1, <1>2, InvAlways, PTL DEF Spec, ImplementsLease, L!Spec
=============================================================================
