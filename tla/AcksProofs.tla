---------------------------- MODULE AcksProofs ----------------------------
(***************************************************************************)
(* Proofs about acknowledgements, for any number of events and concurrent  *)
(* requests and under every fault, lapsing keys included.                  *)
(***************************************************************************)
EXTENDS Acks, TLAPS

USE AckRetryAssumption, PublishersAssumption, AckFaultsAssumption

\* The attempts are forgotten when a request leaves the publish loop.
LEMMA PastPublishTyped ==
  ASSUME NEW x \in AckStates, NEW l \in {"mark", "dead"}
  PROVE  [x EXCEPT !.pc = l, !.tries = 0] \in AckStates
<1>1. 0 \in 0..MaxRetries
  OBVIOUS
<1>2. [x EXCEPT !.pc = l] \in AckStates
  BY DEF AckStates
<1>3. \A y \in AckStates : [y EXCEPT !.tries = 0] \in AckStates
  BY <1>1 DEF AckStates
<1> QED BY <1>2, <1>3

LEMMA PastPublishKeeps ==
  ASSUME NEW x \in AckStates, NEW l \in {"mark", "dead"}
  PROVE  LET y == [x EXCEPT !.pc = l, !.tries = 0]
         IN  y.pc = l /\ y.event = x.event /\ y.code = x.code /\ y.saw = x.saw
BY DEF AckStates

LEMMA AckTypeStep ==
  ASSUME TypeOK, [Next]_vars
  PROVE  TypeOK'
<1> USE DEF TypeOK, AckStates
<1>1. ASSUME NEW e \in Events, Register(e) PROVE TypeOK'
  BY <1>1 DEF Register
<1>2. ASSUME NEW e \in Events, Expire(e) PROVE TypeOK'
  BY <1>2 DEF Expire
<1>3. CASE NatsChange
  BY <1>3 DEF NatsChange
<1>4. ASSUME NEW a \in Acks, Receive(a) PROVE TypeOK'
  <2>1. Standing(ack[a].event) \in {"nothing", "delivered", "settled"}
    BY DEF Standing
  <2>2. ack[a].pc = "new" /\ UNCHANGED <<inflight, acked, lapsed, delivered, published, logged, nats>>
    BY <1>4, Zenon DEF Receive
  <2>3. ASSUME NEW x \in {"nothing", "delivered", "settled"},
               ack' = [ack EXCEPT ![a] = [pc |-> "validate", event |-> ack[a].event,
                                          via |-> ack[a].via, tries |-> 0, code |-> 0,
                                          saw |-> x]]
        PROVE  TypeOK'
    BY <2>2, <2>3
  <2> QED BY <1>4, <2>1, <2>3, Zenon DEF Receive
<1>5. ASSUME NEW a \in Acks, Refuse(a) PROVE TypeOK'
  BY <1>5 DEF Refuse, Answer
<1>6. ASSUME NEW a \in Acks, CheckAcked(a) PROVE TypeOK'
  <2>1. CASE ack[a].event \in acked
    BY <1>6, <2>1 DEF CheckAcked, Answer
  <2>2. CASE ack[a].event \notin acked
    BY <1>6, <2>2 DEF CheckAcked
  <2> QED BY <2>1, <2>2
<1>7. ASSUME NEW a \in Acks, CheckInFlight(a) PROVE TypeOK'
  <2>1. CASE ack[a].event \in inflight
    BY <1>7, <2>1 DEF CheckInFlight
  <2>2. CASE ack[a].event \notin inflight
    BY <1>7, <2>2 DEF CheckInFlight, Answer
  <2> QED BY <2>1, <2>2
<1>8. ASSUME NEW a \in Acks, ValidateError(a) PROVE TypeOK'
  BY <1>8 DEF ValidateError, Answer
<1>9. ASSUME NEW a \in Acks, Publish(a) PROVE TypeOK'
  <2>1. published' \in [Events -> Nat]
    BY <1>9 DEF Publish, StoreRecord
  <2>2. ack' \in [Acks -> AckStates]
    <3> DEFINE x == [ack[a] EXCEPT !.pc = "mark", !.tries = 0]
    <3> HIDE DEF AckStates
    <3>1. x \in AckStates
      BY PastPublishTyped DEF TypeOK
    <3>2. ack' = [ack EXCEPT ![a] = x]
      BY <1>9 DEF Publish
    <3> HIDE DEF x
    <3> QED BY <3>1, <3>2
  <2>3. \A b \in Acks : ack'[b].pc = "done" <=> ack'[b].code # 0
    <3>1. /\ ack[a].pc # "done"
          /\ ack'[a].pc = "mark" /\ ack'[a].code = ack[a].code
          /\ \A b \in Acks : b # a => ack'[b] = ack[b]
      BY <1>9 DEF Publish
    <3> QED BY <3>1
  <2> QED BY <1>9, <2>1, <2>2, <2>3 DEF Publish
<1>10. ASSUME NEW a \in Acks, PublishLost(a) PROVE TypeOK'
  BY <1>10 DEF PublishLost, StoreRecord, NextAttempt, Answer
<1>11. ASSUME NEW a \in Acks, PublishError(a) PROVE TypeOK'
  <2>1. CASE ack[a].tries < MaxRetries
    BY <1>11, <2>1 DEF PublishError, NextAttempt
  <2>2. CASE ~(ack[a].tries < MaxRetries)
    BY <1>11, <2>2 DEF PublishError, NextAttempt, Answer
  <2> QED BY <2>1, <2>2
<1>12. ASSUME NEW a \in Acks, MarkSet(a) PROVE TypeOK'
  BY <1>12 DEF MarkSet
<1>13. ASSUME NEW a \in Acks, MarkDel(a) PROVE TypeOK'
  BY <1>13 DEF MarkDel
<1>14. ASSUME NEW a \in Acks, MarkError(a) PROVE TypeOK'
  BY <1>14 DEF MarkError
<1>15. CASE UNCHANGED vars
  BY <1>15 DEF vars
<1>16. ASSUME NEW a \in Acks, PublishLog(a) PROVE TypeOK'
  BY <1>16 DEF PublishLog
<1>17. ASSUME NEW a \in Acks, Reply(a) PROVE TypeOK'
  BY <1>17 DEF Reply, Answer
<1>18. ASSUME NEW a \in Acks, Die(a) PROVE TypeOK'
  <2>1. ack' \in [Acks -> AckStates]
    <3> DEFINE x == [ack[a] EXCEPT !.pc = "dead", !.tries = 0]
    <3> HIDE DEF AckStates
    <3>1. x \in AckStates
      BY PastPublishTyped DEF TypeOK
    <3>2. ack' = [ack EXCEPT ![a] = x]
      BY <1>18 DEF Die
    <3> HIDE DEF x
    <3> QED BY <3>1, <3>2
  <2>2. \A b \in Acks : ack'[b].pc = "done" <=> ack'[b].code # 0
    <3>1. /\ ack[a].pc # "done"
          /\ ack'[a].pc = "dead" /\ ack'[a].code = ack[a].code
          /\ \A b \in Acks : b # a => ack'[b] = ack[b]
      BY <1>18 DEF Die
    <3> QED BY <3>1
  <2> QED BY <1>18, <2>1, <2>2 DEF Die
<1> HIDE DEF TypeOK, AckStates
<1> QED
  BY <1>1, <1>2, <1>3, <1>4, <1>5, <1>6, <1>7, <1>8, <1>9, <1>10, <1>11,
     <1>12, <1>13, <1>14, <1>15, <1>16, <1>17, <1>18 DEF Next, AckStep

LEMMA AckTypeInit == Init => TypeOK
<1> SUFFICES ASSUME Init PROVE TypeOK
  OBVIOUS
<1>1. ack \in [Acks -> AckStates] /\ \A a \in Acks : ack[a].pc = "new" /\ ack[a].code = 0
  BY DEF Init, AckStates
<1> QED BY <1>1 DEF Init, TypeOK

\* Every reachable state is well typed, and a request has a response exactly
\* when V1AckEvent (ack.go:19-152) has returned.
THEOREM AckTypeCorrect == Spec => []TypeOK
<1>1. TypeOK /\ [Next]_vars => TypeOK'
  BY AckTypeStep
<1> QED
  BY <1>1, AckTypeInit, PTL DEF Spec

(***************************************************************************)
(* What an answer means.  AnsweredMeansPublished is not inductive: a 409   *)
(* rests on the acked key, which some other request wrote after its own    *)
(* publish; and what is published rests on the in-flight key that Validate *)
(* saw, which may be gone by the time of the publish.                      *)
(***************************************************************************)
\* An acked key is only written after a record was stored.
AckedIsRecorded == \A e \in Events : e \in acked => Recorded(e)

\* A request past its publish has a record of its event where it publishes.
MarkingIsRecorded ==
    \A a \in Acks : ack[a].pc \in {"mark", "marking", "marked"} =>
        /\ Recorded(ack[a].event)
        /\ ack[a].via = "nats" => published[ack[a].event] > 0

\* A request past Validate is about an event that was delivered.
PublishingWasDelivered ==
    /\ inflight \subseteq delivered
    /\ \A a \in Acks : ack[a].pc = "publish" => ack[a].event \in delivered

Inv ==
    /\ TypeOK
    /\ AnsweredMeansPublished
    /\ PublishedWasDelivered
    /\ AckedIsRecorded
    /\ MarkingIsRecorded
    /\ PublishingWasDelivered

LEMMA InvStep ==
  ASSUME Inv, [Next]_vars
  PROVE  Inv'
<1>0. TypeOK'
  BY AckTypeStep DEF Inv
<1> USE <1>0 DEF Inv, TypeOK, AckStates, AnsweredMeansPublished, PublishedWasDelivered,
    AckedIsRecorded, MarkingIsRecorded, PublishingWasDelivered, Recorded
<1>1. ASSUME NEW e \in Events, Register(e) PROVE Inv'
  BY <1>1 DEF Register
<1>2. ASSUME NEW e \in Events, Expire(e) PROVE Inv'
  BY <1>2 DEF Expire
<1>3. CASE NatsChange
  BY <1>3 DEF NatsChange
<1>4. ASSUME NEW a \in Acks, Receive(a) PROVE Inv'
  BY <1>4 DEF Receive
<1>5. ASSUME NEW a \in Acks, Refuse(a) PROVE Inv'
  BY <1>5 DEF Refuse, Answer
<1>6. ASSUME NEW a \in Acks, CheckAcked(a) PROVE Inv'
  <2>1. CASE ack[a].event \in acked
    BY <1>6, <2>1 DEF CheckAcked, Answer
  <2>2. CASE ack[a].event \notin acked
    BY <1>6, <2>2 DEF CheckAcked
  <2> QED BY <2>1, <2>2
<1>7. ASSUME NEW a \in Acks, CheckInFlight(a) PROVE Inv'
  <2>1. CASE ack[a].event \in inflight
    BY <1>7, <2>1 DEF CheckInFlight
  <2>2. CASE ack[a].event \notin inflight
    BY <1>7, <2>2 DEF CheckInFlight, Answer
  <2> QED BY <2>1, <2>2
<1>8. ASSUME NEW a \in Acks, ValidateError(a) PROVE Inv'
  BY <1>8 DEF ValidateError, Answer
<1>9. ASSUME NEW a \in Acks, Publish(a) PROVE Inv'
  BY <1>9 DEF Publish, StoreRecord
<1>10. ASSUME NEW a \in Acks, PublishLost(a) PROVE Inv'
  <2>1. CASE ack[a].tries < MaxRetries
    BY <1>10, <2>1 DEF PublishLost, StoreRecord, NextAttempt
  <2>2. CASE ~(ack[a].tries < MaxRetries)
    BY <1>10, <2>2 DEF PublishLost, StoreRecord, NextAttempt, Answer
  <2> QED BY <2>1, <2>2
<1>11. ASSUME NEW a \in Acks, PublishError(a) PROVE Inv'
  BY <1>11 DEF PublishError, NextAttempt, Answer
<1>12. ASSUME NEW a \in Acks, MarkSet(a) PROVE Inv'
  BY <1>12 DEF MarkSet
<1>13. ASSUME NEW a \in Acks, MarkDel(a) PROVE Inv'
  BY <1>13 DEF MarkDel
<1>14. ASSUME NEW a \in Acks, MarkError(a) PROVE Inv'
  BY <1>14 DEF MarkError
<1>15. CASE UNCHANGED vars
  BY <1>15 DEF vars
<1>16. ASSUME NEW a \in Acks, PublishLog(a) PROVE Inv'
  BY <1>16 DEF PublishLog
<1>17. ASSUME NEW a \in Acks, Reply(a) PROVE Inv'
  BY <1>17 DEF Reply, Answer
<1>18. ASSUME NEW a \in Acks, Die(a) PROVE Inv'
  BY <1>18 DEF Die
<1> HIDE DEF Inv, TypeOK, AckStates, AnsweredMeansPublished, PublishedWasDelivered,
    AckedIsRecorded, MarkingIsRecorded, PublishingWasDelivered, Recorded
<1> QED
  BY <1>1, <1>2, <1>3, <1>4, <1>5, <1>6, <1>7, <1>8, <1>9, <1>10, <1>11,
     <1>12, <1>13, <1>14, <1>15, <1>16, <1>17, <1>18 DEF Next, AckStep

LEMMA InvAlways == Spec => []Inv
<1>1. Init => Inv
  <2> SUFFICES ASSUME Init PROVE Inv
    OBVIOUS
  <2>1. TypeOK /\ \A a \in Acks : ack[a].pc = "new" /\ ack[a].code = 0
    BY AckTypeInit DEF Init
  <2> QED BY <2>1 DEF Init, Inv, AnsweredMeansPublished, PublishedWasDelivered,
     AckedIsRecorded, MarkingIsRecorded, PublishingWasDelivered, Recorded
<1>2. Inv /\ [Next]_vars => Inv'
  BY InvStep
<1> QED
  BY <1>1, <1>2, PTL DEF Spec

\* Whoever is told 200 or 409 by V1AckEvent can rely on a record of the event
\* (in NATS, if told 200 by an instance that has it), whatever fails, for any
\* number of concurrent requests: the acked key that a 409 rests on is never
\* written before a publish (ack.go:112-132).
THEOREM AnsweredMeansPublishedHolds == Spec => []AnsweredMeansPublished
<1>1. Inv => AnsweredMeansPublished
  BY DEF Inv
<1> QED
  BY <1>1, InvAlways, PTL

\* No record is ever published for an event that no stream delivered, even
\* though Validate's answer (ack.go:66) is old when Publish uses it.
THEOREM PublishedWasDeliveredHolds == Spec => []PublishedWasDelivered
<1>1. Inv => PublishedWasDelivered
  BY DEF Inv
<1> QED
  BY <1>1, InvAlways, PTL

(***************************************************************************)
(* Requests after an acknowledged one.  Such a request only ever meets the *)
(* acked key, because nothing but its TTL removes it.                      *)
(***************************************************************************)
SettledIsMarked ==
    \A a \in Acks : ack[a].saw = "settled" /\ <<"acked", ack[a].event>> \notin lapsed =>
        /\ ack[a].event \in acked
        /\ ack[a].pc \in {"validate", "done", "dead"}
        /\ ack[a].code \in {0, 409, 500}

LEMMA SettledStep ==
  ASSUME TypeOK, SettledIsMarked, [Next]_vars
  PROVE  SettledIsMarked'
<1>0. TypeOK'
  BY AckTypeStep
<1> USE <1>0 DEF TypeOK, AckStates, SettledIsMarked
<1>1. ASSUME NEW e \in Events, Register(e) PROVE SettledIsMarked'
  BY <1>1 DEF Register
<1>2. ASSUME NEW e \in Events, Expire(e) PROVE SettledIsMarked'
  BY <1>2 DEF Expire
<1>3. CASE NatsChange
  BY <1>3 DEF NatsChange
<1>4. ASSUME NEW a \in Acks, Receive(a) PROVE SettledIsMarked'
  <2>1. Standing(ack[a].event) = "settled" => ack[a].event \in acked
    BY DEF Standing, Settled
  <2>2. UNCHANGED <<acked, lapsed>>
    BY <1>4 DEF Receive
  <2>3. /\ ack'[a].event = ack[a].event /\ ack'[a].saw = Standing(ack[a].event)
        /\ ack'[a].pc = "validate" /\ ack'[a].code = 0
        /\ \A b \in Acks : b # a => ack'[b] = ack[b]
    BY <1>4 DEF Receive
  <2> QED BY <2>1, <2>2, <2>3
<1>5. ASSUME NEW a \in Acks, Refuse(a) PROVE SettledIsMarked'
  BY <1>5 DEF Refuse, Answer
<1>6. ASSUME NEW a \in Acks, CheckAcked(a) PROVE SettledIsMarked'
  <2>1. CASE ack[a].event \in acked
    BY <1>6, <2>1 DEF CheckAcked, Answer
  <2>2. CASE ack[a].event \notin acked
    BY <1>6, <2>2 DEF CheckAcked
  <2> QED BY <2>1, <2>2
<1>7. ASSUME NEW a \in Acks, CheckInFlight(a) PROVE SettledIsMarked'
  <2>1. CASE ack[a].event \in inflight
    BY <1>7, <2>1 DEF CheckInFlight
  <2>2. CASE ack[a].event \notin inflight
    BY <1>7, <2>2 DEF CheckInFlight, Answer
  <2> QED BY <2>1, <2>2
<1>8. ASSUME NEW a \in Acks, ValidateError(a) PROVE SettledIsMarked'
  BY <1>8 DEF ValidateError, Answer
<1>9. ASSUME NEW a \in Acks, Publish(a) PROVE SettledIsMarked'
  BY <1>9 DEF Publish, StoreRecord
<1>10. ASSUME NEW a \in Acks, PublishLost(a) PROVE SettledIsMarked'
  <2>1. CASE ack[a].tries < MaxRetries
    BY <1>10, <2>1 DEF PublishLost, StoreRecord, NextAttempt
  <2>2. CASE ~(ack[a].tries < MaxRetries)
    BY <1>10, <2>2 DEF PublishLost, StoreRecord, NextAttempt, Answer
  <2> QED BY <2>1, <2>2
<1>11. ASSUME NEW a \in Acks, PublishError(a) PROVE SettledIsMarked'
  <2>1. CASE ack[a].tries < MaxRetries
    BY <1>11, <2>1 DEF PublishError, NextAttempt
  <2>2. CASE ~(ack[a].tries < MaxRetries)
    BY <1>11, <2>2 DEF PublishError, NextAttempt, Answer
  <2> QED BY <2>1, <2>2
<1>12. ASSUME NEW a \in Acks, MarkSet(a) PROVE SettledIsMarked'
  BY <1>12 DEF MarkSet
<1>13. ASSUME NEW a \in Acks, MarkDel(a) PROVE SettledIsMarked'
  BY <1>13 DEF MarkDel
<1>14. ASSUME NEW a \in Acks, MarkError(a) PROVE SettledIsMarked'
  BY <1>14 DEF MarkError
<1>15. CASE UNCHANGED vars
  BY <1>15 DEF vars
<1>16. ASSUME NEW a \in Acks, PublishLog(a) PROVE SettledIsMarked'
  BY <1>16 DEF PublishLog
<1>17. ASSUME NEW a \in Acks, Reply(a) PROVE SettledIsMarked'
  BY <1>17 DEF Reply, Answer
<1>18. ASSUME NEW a \in Acks, Die(a) PROVE SettledIsMarked'
  BY <1>18 DEF Die
<1> HIDE DEF TypeOK, AckStates, SettledIsMarked
<1> QED
  BY <1>1, <1>2, <1>3, <1>4, <1>5, <1>6, <1>7, <1>8, <1>9, <1>10, <1>11,
     <1>12, <1>13, <1>14, <1>15, <1>16, <1>17, <1>18 DEF Next, AckStep

\* An ACK that comes after an acknowledged and marked one of the same event is
\* never published nor answered 200 or 404 while the mark lasts, for any number
\* of concurrent requests and under every fault: Validate's first EXISTS
\* (inflight.go:58) always finds the acked key.
THEOREM DuplicateRejectedHolds == Spec => []DuplicateRejected
<1>1. Init => SettledIsMarked
  <2> SUFFICES ASSUME Init PROVE SettledIsMarked
    OBVIOUS
  <2>1. \A a \in Acks : ack[a].saw = "nothing"
    BY DEF Init
  <2> QED BY <2>1 DEF SettledIsMarked
<1>2. TypeOK /\ SettledIsMarked /\ [Next]_vars => SettledIsMarked'
  BY SettledStep
<1>3. SettledIsMarked => DuplicateRejected
  BY DEF SettledIsMarked, DuplicateRejected
<1> QED
  BY <1>1, <1>2, <1>3, AckTypeCorrect, PTL DEF Spec

(***************************************************************************)
(* Why an ACK is told 404.  An event that was once registered stays in the *)
(* registry until its key lapses or a record of it is stored: the DEL of   *)
(* MarkAcked is the only command that removes it, and comes after the      *)
(* publish (MarkingIsRecorded).                                            *)
(***************************************************************************)
Explained(e) == <<"inflight", e>> \in lapsed \/ Recorded(e)

DeliveredIsKnown == \A e \in delivered : e \in inflight \/ Explained(e)

SawDelivered == \A a \in Acks : ack[a].saw # "nothing" => ack[a].event \in delivered

\* What a step may do to requests and to the registry.
RegistryEffect ==
    /\ delivered \subseteq delivered' /\ lapsed \subseteq lapsed'
    /\ \A e \in delivered' : e \in delivered \/ e \in inflight'
    /\ \A e \in Events : Recorded(e) => Recorded(e)'
    /\ \A e \in inflight : \/ e \in inflight' \/ <<"inflight", e>> \in lapsed'
                           \/ \E a \in Acks : ack[a].pc = "marking" /\ ack[a].event = e
    /\ \A b \in Acks :
          /\ ack'[b].event = ack[b].event
          /\ ack[b].code # 0 => ack'[b].code = ack[b].code
          /\ ack'[b].code = 404 /\ ack[b].code = 0 => ack[b].event \notin inflight /\ inflight' = inflight
          /\ ack'[b].saw = ack[b].saw \/ (ack'[b].saw = Standing(ack[b].event) /\ ack'[b].code = 0)

LEMMA RegistryEffects ==
  ASSUME TypeOK, [Next]_vars
  PROVE  RegistryEffect
<1> USE DEF TypeOK, AckStates, RegistryEffect, Recorded
<1>1. ASSUME NEW e \in Events, Register(e) PROVE RegistryEffect
  BY <1>1 DEF Register
<1>2. ASSUME NEW e \in Events, Expire(e) PROVE RegistryEffect
  BY <1>2 DEF Expire
<1>3. CASE NatsChange \/ UNCHANGED vars
  BY <1>3 DEF NatsChange, vars
<1>4. ASSUME NEW a \in Acks, Receive(a) PROVE RegistryEffect
  <2> DEFINE x == Standing(ack[a].event)
  <2>1. ack[a].code = 0 /\ UNCHANGED <<inflight, acked, lapsed, delivered, published, logged>>
    BY <1>4 DEF Receive
  <2>2. /\ ack'[a].event = ack[a].event /\ ack'[a].code = 0 /\ ack'[a].saw = x
        /\ \A b \in Acks : b # a => ack'[b] = ack[b]
    <3>1. ack' = [ack EXCEPT ![a] = [pc |-> "validate", event |-> ack[a].event,
                                     via |-> ack[a].via, tries |-> 0, code |-> 0, saw |-> x]]
      BY <1>4 DEF Receive
    <3> HIDE DEF x
    <3> QED BY <3>1
  <2> QED BY <2>1, <2>2
<1>5. ASSUME NEW a \in Acks, Refuse(a) PROVE RegistryEffect
  BY <1>5 DEF Refuse, Answer
<1>6. ASSUME NEW a \in Acks, CheckAcked(a) PROVE RegistryEffect
  BY <1>6 DEF CheckAcked, Answer
<1>7. ASSUME NEW a \in Acks, CheckInFlight(a) PROVE RegistryEffect
  BY <1>7 DEF CheckInFlight, Answer
<1>8. ASSUME NEW a \in Acks, ValidateError(a) PROVE RegistryEffect
  BY <1>8 DEF ValidateError, Answer
<1>9. ASSUME NEW a \in Acks, Publish(a) \/ PublishLog(a) PROVE RegistryEffect
  <2>1. /\ UNCHANGED <<inflight, lapsed, delivered>>
        /\ \A e \in Events : Recorded(e) => Recorded(e)'
    BY <1>9 DEF Publish, PublishLog, StoreRecord
  <2>2. \A b \in Acks : /\ ack'[b].event = ack[b].event /\ ack'[b].code = ack[b].code
                        /\ ack'[b].saw = ack[b].saw
    <3>1. CASE Publish(a)
      <4> DEFINE x == [ack[a] EXCEPT !.pc = "mark", !.tries = 0]
      <4>1. ack' = [ack EXCEPT ![a] = x]
        BY <3>1 DEF Publish
      <4>2. x.event = ack[a].event /\ x.code = ack[a].code /\ x.saw = ack[a].saw
        <5> HIDE DEF AckStates
        <5> QED BY PastPublishKeeps
      <4> HIDE DEF x
      <4> QED BY <4>1, <4>2
    <3>2. CASE PublishLog(a)
      BY <3>2 DEF PublishLog
    <3> QED BY <1>9, <3>1, <3>2
  <2> QED BY <2>1, <2>2
<1>10. ASSUME NEW a \in Acks, PublishLost(a) \/ PublishError(a) PROVE RegistryEffect
  BY <1>10 DEF PublishLost, PublishError, StoreRecord, NextAttempt, Answer
<1>11. ASSUME NEW a \in Acks, MarkSet(a) PROVE RegistryEffect
  BY <1>11 DEF MarkSet
<1>12. ASSUME NEW a \in Acks, MarkDel(a) PROVE RegistryEffect
  BY <1>12 DEF MarkDel
<1>13. ASSUME NEW a \in Acks, MarkError(a) \/ Die(a) PROVE RegistryEffect
  <2>1. UNCHANGED <<inflight, lapsed, delivered, published, logged>>
    BY <1>13 DEF MarkError, Die
  <2>2. \A b \in Acks : /\ ack'[b].event = ack[b].event /\ ack'[b].code = ack[b].code
                        /\ ack'[b].saw = ack[b].saw
    <3>1. CASE Die(a)
      <4> DEFINE x == [ack[a] EXCEPT !.pc = "dead", !.tries = 0]
      <4>1. ack' = [ack EXCEPT ![a] = x]
        BY <3>1 DEF Die
      <4>2. x.event = ack[a].event /\ x.code = ack[a].code /\ x.saw = ack[a].saw
        <5> HIDE DEF AckStates
        <5> QED BY PastPublishKeeps
      <4> HIDE DEF x
      <4> QED BY <4>1, <4>2
    <3>2. CASE MarkError(a)
      BY <3>2 DEF MarkError
    <3> QED BY <1>13, <3>1, <3>2
  <2> QED BY <2>1, <2>2
<1>14. ASSUME NEW a \in Acks, Reply(a) PROVE RegistryEffect
  BY <1>14 DEF Reply, Answer
<1> HIDE DEF TypeOK, AckStates, RegistryEffect, Recorded
<1> QED
  BY <1>1, <1>2, <1>3, <1>4, <1>5, <1>6, <1>7, <1>8, <1>9, <1>10, <1>11, <1>12, <1>13, <1>14
     DEF Next, AckStep

Known == DeliveredIsKnown /\ SawDelivered /\ NotFoundIsRecorded

LEMMA KnownStep ==
  ASSUME Inv, Known, [Next]_vars
  PROVE  Known'
<1>1. RegistryEffect
  BY RegistryEffects DEF Inv
<1>2. \A a \in Acks : ack[a].event \in Events
  BY DEF Inv, TypeOK, AckStates
<1>3. \A e \in Events : Explained(e) => Explained(e)'
  BY <1>1 DEF RegistryEffect, Explained
<1>4. DeliveredIsKnown'
  <2>1. \A a \in Acks : ack[a].pc = "marking" => Explained(ack[a].event)
    BY DEF Inv, MarkingIsRecorded, Explained
  <2>2. ASSUME NEW e \in inflight, e \notin inflight' PROVE Explained(e)'
    <3>1. e \in Events
      BY DEF Inv, TypeOK
    <3>2. CASE <<"inflight", e>> \in lapsed'
      BY <3>2 DEF Explained
    <3>3. CASE \E a \in Acks : ack[a].pc = "marking" /\ ack[a].event = e
      BY <1>3, <2>1, <3>1, <3>3
    <3> QED BY <1>1, <2>2, <3>2, <3>3 DEF RegistryEffect
  <2>3. delivered \subseteq Events
    BY DEF Inv, TypeOK
  <2> QED BY <1>1, <1>3, <2>2, <2>3 DEF RegistryEffect, Known, DeliveredIsKnown
<1>5. \A e \in Events : Standing(e) # "nothing" => e \in delivered
  BY DEF Standing, Settled, Inv, AckedIsRecorded, PublishedWasDelivered
<1>6. SawDelivered'
  BY <1>1, <1>2, <1>5 DEF RegistryEffect, Known, SawDelivered
<1>7. NotFoundIsRecorded'
  <2> SUFFICES ASSUME NEW a \in Acks, NEW e \in Events, e = ack[a].event,
                      ack'[a].code = 404, ack'[a].saw # "nothing"
               PROVE  Explained(e)'
    BY <1>1, <1>2 DEF NotFoundIsRecorded, Explained, RegistryEffect
  <2>1. CASE ack[a].code = 404
    <3>1. ack'[a].saw = ack[a].saw
      BY <1>1, <2>1 DEF RegistryEffect
    <3>2. Explained(e)
      BY <2>1, <3>1 DEF Known, NotFoundIsRecorded, Explained
    <3> QED BY <1>3, <3>2
  <2>2. CASE ack[a].code = 0
    <3>1. e \in delivered /\ e \notin inflight
      BY <1>1, <1>2, <2>2 DEF RegistryEffect, Known, SawDelivered
    <3>2. Explained(e)
      BY <3>1 DEF Known, DeliveredIsKnown
    <3> QED BY <1>3, <3>2
  <2> QED BY <1>1, <2>1, <2>2 DEF RegistryEffect
<1> QED BY <1>4, <1>6, <1>7 DEF Known

\* A client is told 404 for an event that was in the registry when its ACK came
\* in only after the key lapsed or a record of the event was stored, for any
\* number of concurrent requests, with MarkAcked cut anywhere between publish,
\* SET, DEL and response (ack.go:112-151, inflight.go:80-82) and under every
\* fault.
THEOREM NotFoundIsRecordedHolds == Spec => []NotFoundIsRecorded
<1>1. Init => Known
  <2> SUFFICES ASSUME Init PROVE Known
    OBVIOUS
  <2>1. \A a \in Acks : ack[a].saw = "nothing" /\ ack[a].code = 0
    BY DEF Init
  <2> QED BY <2>1 DEF Init, Known, DeliveredIsKnown, SawDelivered, NotFoundIsRecorded
<1>2. Inv /\ Known /\ [Next]_vars => Known'
  BY KnownStep
<1>3. Known => NotFoundIsRecorded
  BY DEF Known
<1> QED
  BY <1>1, <1>2, <1>3, InvAlways, PTL DEF Spec
=============================================================================
