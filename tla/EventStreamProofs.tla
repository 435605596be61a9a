------------------------- MODULE EventStreamProofs -------------------------
(***************************************************************************)
(* Theorems about EventStream.                                             *)
(***************************************************************************)
EXTENDS EventStream, SequenceTheorems, FiniteSetTheorems, TLAPS

(***************************************************************************)
(* Sequences of ordinals.                                                  *)
(***************************************************************************)
Increasing(q) == \A i, j \in 1..Len(q) : i < j => q[i] < q[j]

Before(q, r) == \A a \in ToSet(q), b \in ToSet(r) : a < b

UpTo(q, n) == \A a \in ToSet(q) : a <= n

Smaller(m, n) == IF m < n THEN m ELSE n

LEMMA SeqWider ==
  ASSUME NEW S, NEW T, S \subseteq T, NEW q \in Seq(S)
  PROVE  q \in Seq(T)
OBVIOUS

LEMMA FirstProperties ==
  ASSUME NEW S, NEW q \in Seq(S), NEW n \in Nat
  PROVE  /\ First(q, n) \in Seq(S) /\ Len(First(q, n)) = Smaller(n, Len(q))
         /\ \A i \in 1..Smaller(n, Len(q)) : First(q, n)[i] = q[i]
BY DEF First, Smaller

LEMMA RestProperties ==
  ASSUME NEW S, NEW q \in Seq(S), NEW n \in Nat
  PROVE  /\ Rest(q, n) \in Seq(S) /\ Len(Rest(q, n)) = Len(q) - Smaller(n, Len(q))
         /\ \A i \in 1..(Len(q) - Smaller(n, Len(q))) : Rest(q, n)[i] = q[Smaller(n, Len(q)) + i]
<1>1. CASE n < Len(q)
  BY <1>1 DEF Rest, Smaller
<1>2. CASE ~(n < Len(q))
  BY <1>2 DEF Rest, Smaller
<1> QED BY <1>1, <1>2

LEMMA HeadTail ==
  ASSUME NEW S, NEW q \in Seq(S), q # <<>>
  PROVE  Head(q) \in S /\ Tail(q) = Rest(q, 1) /\ <<Head(q)>> = First(q, 1)
BY DEF First, Rest

LEMMA ConcatAppend ==
  ASSUME NEW S, NEW q \in Seq(S), NEW e \in S
  PROVE  Append(q, e) = q \o <<e>> /\ <<e>> \in Seq(S)
OBVIOUS

LEMMA ToSetMember ==
  ASSUME NEW S, NEW q \in Seq(S)
  PROVE  /\ ToSet(q) \subseteq S
         /\ \A i \in 1..Len(q) : q[i] \in ToSet(q)
         /\ \A e \in ToSet(q) : \E i \in 1..Len(q) : q[i] = e
BY DEF ToSet

LEMMA ToSetEmpty == ToSet(<<>>) = {}
BY DEF ToSet

LEMMA ToSetConcat ==
  ASSUME NEW S, NEW q \in Seq(S), NEW r \in Seq(S)
  PROVE  ToSet(q \o r) = ToSet(q) \cup ToSet(r)
<1> DEFINE c == q \o r
<1>1. /\ c \in Seq(S) /\ Len(c) = Len(q) + Len(r)
      /\ \A i \in 1..Len(q) : c[i] = q[i]
      /\ \A i \in 1..Len(r) : c[Len(q) + i] = r[i]
      /\ \A i \in 1..(Len(q) + Len(r)) : i > Len(q) => c[i] = r[i - Len(q)]
  OBVIOUS
<1> HIDE DEF c
<1>2. ASSUME NEW e \in ToSet(c) PROVE e \in ToSet(q) \cup ToSet(r)
  <2>1. PICK i \in 1..Len(c) : c[i] = e
    BY <1>1, ToSetMember
  <2>2. CASE i <= Len(q)
    BY <1>1, <2>1, <2>2, ToSetMember
  <2>3. CASE i > Len(q)
    <3>1. i - Len(q) \in 1..Len(r) /\ r[i - Len(q)] = e
      BY <1>1, <2>1, <2>3
    <3> QED BY <3>1, ToSetMember
  <2> QED BY <2>2, <2>3
<1>3. ASSUME NEW e \in ToSet(q) PROVE e \in ToSet(c)
  <2>1. PICK i \in 1..Len(q) : q[i] = e
    BY ToSetMember
  <2>2. c[i] = e /\ i \in 1..Len(c)
    BY <1>1, <2>1
  <2>3. \A j \in 1..Len(c) : c[j] \in ToSet(c)
    BY <1>1, ToSetMember
  <2> QED BY <2>2, <2>3
<1>4. ASSUME NEW e \in ToSet(r) PROVE e \in ToSet(c)
  <2>1. PICK i \in 1..Len(r) : r[i] = e
    BY ToSetMember
  <2>2. c[Len(q) + i] = e /\ Len(q) + i \in 1..Len(c)
    BY <1>1, <2>1
  <2> QED BY <1>1, <2>2, ToSetMember
<1>5. ToSet(c) = ToSet(q) \cup ToSet(r)
  BY <1>2, <1>3, <1>4
<1> QED BY <1>5 DEF c

LEMMA ToSetFirstRest ==
  ASSUME NEW S, NEW q \in Seq(S), NEW n \in Nat
  PROVE  ToSet(q) = ToSet(First(q, n)) \cup ToSet(Rest(q, n))
<1> DEFINE m == Smaller(n, Len(q))
<1>1. m \in 0..Len(q)
  BY DEF Smaller
<1>2. /\ First(q, n) \in Seq(S) /\ Len(First(q, n)) = m
      /\ \A i \in 1..m : First(q, n)[i] = q[i]
  BY FirstProperties
<1>3. /\ Rest(q, n) \in Seq(S) /\ Len(Rest(q, n)) = Len(q) - m
      /\ \A i \in 1..(Len(q) - m) : Rest(q, n)[i] = q[m + i]
  BY RestProperties
<1> HIDE DEF m
<1>4. ASSUME NEW e \in ToSet(q) PROVE e \in ToSet(First(q, n)) \cup ToSet(Rest(q, n))
  <2>1. PICK i \in 1..Len(q) : q[i] = e
    BY ToSetMember
  <2>2. CASE i <= m
    <3>1. i \in 1..m /\ First(q, n)[i] = e
      BY <1>1, <1>2, <2>1, <2>2
    <3> QED BY <1>2, <3>1, ToSetMember
  <2>3. CASE i > m
    <3>1. i - m \in 1..(Len(q) - m) /\ Rest(q, n)[i - m] = e
      BY <1>1, <1>3, <2>1, <2>3
    <3> QED BY <1>3, <3>1, ToSetMember
  <2> QED BY <1>1, <2>2, <2>3
<1>5. ASSUME NEW e \in ToSet(First(q, n)) PROVE e \in ToSet(q)
  <2>1. PICK i \in 1..m : First(q, n)[i] = e
    BY <1>2, ToSetMember
  <2> QED BY <1>1, <1>2, <2>1, ToSetMember
<1>6. ASSUME NEW e \in ToSet(Rest(q, n)) PROVE e \in ToSet(q)
  <2>1. PICK i \in 1..(Len(q) - m) : Rest(q, n)[i] = e
    BY <1>3, ToSetMember
  <2>2. q[m + i] = e /\ m + i \in 1..Len(q)
    BY <1>1, <1>3, <2>1
  <2> QED BY <2>2, ToSetMember
<1> QED BY <1>4, <1>5, <1>6

LEMMA FirstRestIncreasing ==
  ASSUME NEW k \in Nat, NEW q \in Seq(1..k), NEW n \in Nat, Increasing(q)
  PROVE  Increasing(First(q, n)) /\ Increasing(Rest(q, n)) /\ Before(First(q, n), Rest(q, n))
<1> DEFINE m == Smaller(n, Len(q))
<1>1. m \in 0..Len(q)
  BY DEF Smaller
<1>2. /\ First(q, n) \in Seq(1..k) /\ Len(First(q, n)) = m
      /\ \A i \in 1..m : First(q, n)[i] = q[i]
  BY FirstProperties
<1>3. /\ Rest(q, n) \in Seq(1..k) /\ Len(Rest(q, n)) = Len(q) - m
      /\ \A i \in 1..(Len(q) - m) : Rest(q, n)[i] = q[m + i]
  BY RestProperties
<1> HIDE DEF m
<1>4. \A i, j \in 1..Len(q) : i < j => q[i] < q[j]
  BY DEF Increasing
<1>5. Increasing(First(q, n))
  <2> SUFFICES ASSUME NEW i \in 1..m, NEW j \in 1..m, i < j
               PROVE  First(q, n)[i] < First(q, n)[j]
    BY <1>2 DEF Increasing
  <2>1. i \in 1..Len(q) /\ j \in 1..Len(q)
    BY <1>1
  <2> QED BY <1>2, <1>4, <2>1
<1>6. Increasing(Rest(q, n))
  <2> SUFFICES ASSUME NEW i \in 1..(Len(q) - m), NEW j \in 1..(Len(q) - m), i < j
               PROVE  Rest(q, n)[i] < Rest(q, n)[j]
    BY <1>3 DEF Increasing
  <2>1. m + i \in 1..Len(q) /\ m + j \in 1..Len(q) /\ m + i < m + j
    BY <1>1
  <2> QED BY <1>3, <1>4, <2>1
<1>7. ASSUME NEW a \in ToSet(First(q, n)), NEW b \in ToSet(Rest(q, n)) PROVE a < b
  <2>1. PICK i \in 1..m : First(q, n)[i] = a
    BY <1>2, ToSetMember
  <2>2. PICK j \in 1..(Len(q) - m) : Rest(q, n)[j] = b
    BY <1>3, ToSetMember
  <2>3. i \in 1..Len(q) /\ m + j \in 1..Len(q) /\ i < m + j
    BY <1>1
  <2> QED BY <1>2, <1>3, <1>4, <2>1, <2>2, <2>3
<1> QED BY <1>5, <1>6, <1>7 DEF Before

LEMMA ConcatIncreasing ==
  ASSUME NEW k \in Nat, NEW q \in Seq(1..k), NEW r \in Seq(1..k),
         Increasing(q), Increasing(r), Before(q, r)
  PROVE  Increasing(q \o r)
<1> DEFINE c == q \o r
<1>1. /\ c \in Seq(1..k) /\ Len(c) = Len(q) + Len(r)
      /\ \A i \in 1..(Len(q) + Len(r)) :
           IF i <= Len(q) THEN c[i] = q[i] ELSE c[i] = r[i - Len(q)]
  OBVIOUS
<1> HIDE DEF c
<1>2. ASSUME NEW i \in 1..Len(c), NEW j \in 1..Len(c), i < j
      PROVE  c[i] < c[j]
  <2>1. Len(q) \in Nat /\ Len(c) \in Nat
    BY <1>1
  <2>2. CASE j <= Len(q)
    <3>1. i \in 1..Len(q) /\ j \in 1..Len(q)
      BY <1>2, <2>1, <2>2
    <3>2. c[i] = q[i] /\ c[j] = q[j]
      BY <1>1, <1>2, <2>2, <3>1
    <3> QED BY <1>2, <3>1, <3>2 DEF Increasing
  <2>3. CASE i <= Len(q) /\ j > Len(q)
    <3>1. j - Len(q) \in 1..Len(r) /\ i \in 1..Len(q)
      BY <1>1, <1>2, <2>3
    <3>2. q[i] \in ToSet(q) /\ r[j - Len(q)] \in ToSet(r)
      BY <3>1, ToSetMember
    <3>3. c[i] = q[i] /\ c[j] = r[j - Len(q)]
      BY <1>1, <1>2, <2>3
    <3> QED BY <3>2, <3>3 DEF Before
  <2>4. CASE i > Len(q)
    <3>1. i - Len(q) \in 1..Len(r) /\ j - Len(q) \in 1..Len(r) /\ i - Len(q) < j - Len(q)
      BY <1>1, <1>2, <2>4
    <3>2. /\ i \in 1..(Len(q) + Len(r)) /\ ~(i <= Len(q))
          /\ j \in 1..(Len(q) + Len(r)) /\ ~(j <= Len(q))
      BY <1>1, <1>2, <2>4
    <3>3. c[i] = r[i - Len(q)] /\ c[j] = r[j - Len(q)]
      BY <1>1, <3>2
    <3> QED BY <3>1, <3>3 DEF Increasing
  <2> QED BY <1>1, <2>2, <2>3, <2>4
<1>3. Increasing(c)
  BY <1>2 DEF Increasing
<1> QED BY <1>3 DEF c

(***************************************************************************)
(* The invariant behind the order of delivery, for any interleaving of the *)
(* commands of pipelines.  The list always holds the entries pushed last,  *)
(* Gone of them have left it.  What a client received and what its stream  *)
(* holds lies in this order and among the entries that are gone, except    *)
(* for a batch between its LRANGE and its LTRIM: the LTRIM will remove at  *)
(* least what the batch holds, since Gone only grows.                      *)
(***************************************************************************)
Gone == Len(log) - Len(queue)

ListOK ==
    /\ Len(queue) <= Len(log)
    /\ \A i \in 1..Len(queue) : queue[i] = Gone + i

\* Where a stream keeps entries.
Placed(r) ==
    /\ r.batch # <<>> => r.pc \in {"ranged", "trimmed", "write", "register"}
    /\ r.buf # <<>> => r.pc \in {"write", "register", "flush"}
    /\ r.pc = "write" => r.batch # <<>>
    /\ r.pc = "register" => r.cur > 0

\* A drain runs with a closed breaker, which opens at the MaxFails-th failure.
BreakerOK(r) ==
    /\ r.breaker = "closed" => r.fails < MaxFails
    /\ r.pc \in {"send", "ranged", "trimmed"} => r.breaker = "closed"

InOrder(r, g) ==
    /\ Increasing(g) /\ Increasing(r.buf) /\ Increasing(r.batch)
    /\ Before(g, r.buf) /\ Before(g, r.batch) /\ Before(r.buf, r.batch)

Behind(r, g, gone) ==
    /\ UpTo(g, gone) /\ UpTo(r.buf, gone)
    /\ UpTo(r.batch, IF r.pc = "ranged" THEN gone + BatchSize ELSE gone)

\* Stream state r of a client that received g, when n entries have been pushed
\* and gone of them have left the list.
StreamOK(r, g, gone, n) ==
    /\ r \in StreamStates(n) /\ g \in Seq(1..n)
    /\ Placed(r)
    /\ BreakerOK(r)
    /\ InOrder(r, g)
    /\ Behind(r, g, gone)

StreamsOK == \A s \in Streams : StreamOK(st[s], got[s], Gone, Len(log))

OrderInv == TypeOK /\ ListOK /\ StreamsOK

LEMMA StreamLater ==
  ASSUME NEW n \in Nat, NEW m \in Nat, NEW gone \in Nat, NEW later \in Nat,
         n <= m, gone <= later, NEW r, NEW g, StreamOK(r, g, gone, n)
  PROVE  StreamOK(r, g, later, m)
<1>1. r \in StreamStates(m) /\ g \in Seq(1..m)
  <2>1. 1..n \subseteq 1..m /\ 0..n \subseteq 0..m
    OBVIOUS
  <2>2. r.batch \in Seq(1..m) /\ r.buf \in Seq(1..m) /\ g \in Seq(1..m)
    BY <2>1, SeqWider DEF StreamOK, StreamStates
  <2> QED BY <2>1, <2>2 DEF StreamOK, StreamStates
<1>2. Behind(r, g, later)
  <2>1. ToSet(g) \subseteq 1..n /\ ToSet(r.buf) \subseteq 1..n /\ ToSet(r.batch) \subseteq 1..n
    BY ToSetMember DEF StreamOK, StreamStates
  <2> QED BY <2>1, BatchAssumption DEF StreamOK, Behind, UpTo
<1> QED BY <1>1, <1>2 DEF StreamOK

\* A step that moves no entry of the stream.
LEMMA StreamMoves ==
  ASSUME NEW n \in Nat, NEW gone \in Nat, NEW r, NEW g, StreamOK(r, g, gone, n),
         NEW q \in StreamStates(n), q.batch = r.batch, q.buf = r.buf,
         Placed(q), BreakerOK(q), q.pc = "ranged" <=> r.pc = "ranged"
  PROVE  StreamOK(q, g, gone, n)
BY DEF StreamOK, InOrder, Behind

\* A step that leaves the stream with no entry.
LEMMA StreamEmptied ==
  ASSUME NEW n \in Nat, NEW gone \in Nat,
         NEW g \in Seq(1..n), Increasing(g), UpTo(g, gone),
         NEW q \in StreamStates(n), q.batch = <<>>, q.buf = <<>>, Placed(q), BreakerOK(q)
  PROVE  StreamOK(q, g, gone, n)
<1>1. Increasing(<<>>)
  BY DEF Increasing
<1> QED BY <1>1, ToSetEmpty DEF StreamOK, InOrder, Behind, Before, UpTo

LEMMA OrderInit == Init => OrderInv
<1> SUFFICES ASSUME Init PROVE OrderInv
  OBVIOUS
<1>1. Len(log) = 0 /\ Len(queue) = 0 /\ Gone = 0 /\ log = <<>> /\ queue = <<>>
  BY DEF Init, Gone
<1>2. Closed \in StreamStates(0) /\ Placed(Closed) /\ BreakerOK(Closed)
  BY FailsAssumption, StreamRetryAssumption DEF Closed, StreamStates, Placed, BreakerOK
<1>3. StreamOK(Closed, <<>>, 0, 0)
  <2>1. <<>> \in Seq(1..0) /\ Increasing(<<>>)
    BY DEF Increasing
  <2>2. UpTo(<<>>, 0)
    BY ToSetEmpty DEF UpTo
  <2>3. Closed.batch = <<>> /\ Closed.buf = <<>>
    BY DEF Closed
  <2> QED BY <1>2, <2>1, <2>2, <2>3, StreamEmptied
<1>4. StreamsOK
  BY <1>1, <1>3 DEF StreamsOK, Init
<1>5. ListOK
  BY <1>1 DEF ListOK
<1>6. TypeOK
  BY <1>1, <1>2, StreamRetryAssumption DEF TypeOK, Init
<1> QED BY <1>4, <1>5, <1>6 DEF OrderInv

LEMMA OrderTypes ==
  ASSUME OrderInv
  PROVE  /\ log \in Seq(Pushers) /\ Len(log) \in Nat
         /\ queue \in Seq(1..Len(log)) /\ Len(queue) \in Nat /\ Gone \in Nat
         /\ \A s \in Streams : StreamOK(st[s], got[s], Gone, Len(log))
<1>1. log \in Seq(Pushers) /\ queue \in Seq(1..Len(log))
  BY DEF OrderInv, TypeOK
<1>2. Len(log) \in Nat /\ Len(queue) \in Nat
  BY <1>1
<1> QED BY <1>1, <1>2 DEF OrderInv, ListOK, Gone, StreamsOK

\* A step of stream s that leaves the list alone.
LEMMA StreamUpdate ==
  ASSUME OrderInv, NEW s \in Streams, NEW q, NEW g,
         st' = [st EXCEPT ![s] = q], got' = [got EXCEPT ![s] = g],
         UNCHANGED <<queue, log, push>>, StreamOK(q, g, Gone, Len(log)),
         inflight' \subseteq Pushers, dropped' \subseteq 1..Len(log)
  PROVE  OrderInv'
<1>1. Gone' = Gone /\ log' = log /\ queue' = queue
  BY DEF Gone
<1>2. ListOK'
  BY <1>1 DEF ListOK, OrderInv
<1>3. TypeOK'
  BY <1>1 DEF OrderInv, TypeOK, StreamOK
<1>4. ASSUME NEW t \in Streams PROVE StreamOK(st'[t], got'[t], Gone, Len(log))
  BY OrderTypes DEF OrderInv, TypeOK
<1>5. StreamsOK'
  BY <1>1, <1>4 DEF StreamsOK
<1> QED BY <1>2, <1>3, <1>5 DEF OrderInv

\* The same, when the client receives nothing.
LEMMA StreamUpdateOnly ==
  ASSUME OrderInv, NEW s \in Streams, NEW q,
         st' = [st EXCEPT ![s] = q], StreamOK(q, got[s], Gone, Len(log)),
         UNCHANGED <<queue, log, push, got>>,
         inflight' \subseteq Pushers, dropped' \subseteq 1..Len(log)
  PROVE  OrderInv'
<1>1. got' = [got EXCEPT ![s] = got[s]]
  BY DEF OrderInv, TypeOK
<1> QED BY <1>1, StreamUpdate

LEMMA AfterOK ==
  ASSUME NEW n \in Nat, NEW gone \in Nat, NEW g \in Seq(1..n), Increasing(g), UpTo(g, gone),
         NEW q \in StreamStates(n), q.batch = <<>>, q.buf = <<>>,
         q.breaker = "closed" => q.fails < MaxFails
  PROVE  StreamOK(After(q), g, gone, n) /\ StreamOK(Closed, g, gone, n)
<1>1. /\ Closed \in StreamStates(n) /\ Closed.batch = <<>> /\ Closed.buf = <<>>
      /\ Placed(Closed) /\ BreakerOK(Closed)
  BY FailsAssumption, StreamRetryAssumption DEF Closed, StreamStates, Placed, BreakerOK
<1>2. StreamOK(Closed, g, gone, n)
  BY <1>1, StreamEmptied
<1>3. CASE ~q.final
  <2> DEFINE w == [q EXCEPT !.pc = "wait"]
  <2>1. w \in StreamStates(n) /\ w.batch = <<>> /\ w.buf = <<>> /\ Placed(w) /\ BreakerOK(w)
    BY DEF StreamStates, Placed, BreakerOK
  <2>2. StreamOK(w, g, gone, n)
    BY <2>1, StreamEmptied
  <2> QED BY <1>2, <1>3, <2>2 DEF After
<1> QED BY <1>2, <1>3 DEF After

(***************************************************************************)
(* Steps of a stream that move no entry.                                   *)
(***************************************************************************)
LEMMA OrderMoves ==
  ASSUME OrderInv, NEW s \in Streams,
         \/ DrainStart(s) \/ BreakerElapse(s) \/ Connect(s) \/ PollTick(s) \/ ContextDone(s)
         \/ ClientGone(s) \/ ContextCancel(s) \/ RegisterInFlight(s) \/ RegisterInFlightError(s)
  PROVE  OrderInv'
<1> DEFINE r == st[s]
<1>1. /\ Len(log) \in Nat /\ Gone \in Nat /\ log \in Seq(Pushers)
      /\ StreamOK(r, got[s], Gone, Len(log))
      /\ st \in [Streams -> StreamStates(Len(log))]
      /\ inflight \subseteq Pushers /\ dropped \subseteq 1..Len(log)
  BY OrderTypes DEF OrderInv, TypeOK
<1>2. r \in StreamStates(Len(log)) /\ Placed(r) /\ BreakerOK(r)
  BY <1>1 DEF StreamOK
<1>3. ASSUME NEW q \in StreamStates(Len(log)), st' = [st EXCEPT ![s] = q],
             q.batch = r.batch, q.buf = r.buf, Placed(q), BreakerOK(q),
             q.pc = "ranged" <=> r.pc = "ranged",
             UNCHANGED <<queue, log, push, got, dropped>>, inflight' \subseteq Pushers
      PROVE  OrderInv'
  <2>1. StreamOK(q, got[s], Gone, Len(log))
    BY <1>1, <1>3, StreamMoves
  <2> QED BY <1>1, <1>3, <2>1, StreamUpdateOnly
<1> HIDE DEF r
<1>4. CASE DrainStart(s)
  <2> DEFINE q == [closeElapsed(r) EXCEPT !.pc = "send"]
  <2>1. st' = [st EXCEPT ![s] = q] /\ r.pc = "drain" /\ r.breaker # "open"
    BY <1>4 DEF DrainStart, isOpen, r
  <2> HIDE DEF q
  <2>2. /\ q \in StreamStates(Len(log)) /\ q.batch = r.batch /\ q.buf = r.buf
        /\ Placed(q) /\ BreakerOK(q) /\ q.pc # "ranged"
    <3>1. CASE r.breaker = "elapsed"
      <4>1. q = [r EXCEPT !.breaker = "closed", !.fails = 0, !.pc = "send"]
        BY <3>1 DEF closeElapsed, q
      <4>2. q \in StreamStates(Len(log))
        <5>1. 0 \in 0..MaxFails
          BY FailsAssumption
        <5> QED BY <1>2, <4>1, <5>1 DEF StreamStates
      <4>3. /\ q.pc = "send" /\ q.batch = r.batch /\ q.buf = r.buf
            /\ q.breaker = "closed" /\ q.fails = 0
        BY <1>2, <4>1 DEF StreamStates
      <4> QED BY <1>2, <2>1, <4>2, <4>3, FailsAssumption DEF Placed, BreakerOK
    <3>2. CASE r.breaker # "elapsed"
      <4>1. q = [r EXCEPT !.pc = "send"]
        BY <3>2 DEF closeElapsed, q
      <4> QED BY <1>2, <2>1, <3>2, <4>1 DEF StreamStates, Placed, BreakerOK
    <3> QED BY <3>1, <3>2
  <2> QED BY <1>1, <1>3, <1>4, <2>1, <2>2 DEF DrainStart
<1>5. CASE BreakerElapse(s)
  <2> DEFINE q == [r EXCEPT !.breaker = "elapsed"]
  <2>1. st' = [st EXCEPT ![s] = q] /\ r.breaker = "open"
    BY <1>1, <1>5 DEF BreakerElapse, r
  <2>2. /\ q \in StreamStates(Len(log)) /\ q.batch = r.batch /\ q.buf = r.buf
        /\ Placed(q) /\ BreakerOK(q) /\ q.pc = r.pc
    BY <1>2, <2>1 DEF StreamStates, Placed, BreakerOK
  <2> QED BY <1>1, <1>3, <1>5, <2>1, <2>2 DEF BreakerElapse
<1>6. CASE Connect(s) \/ PollTick(s) \/ ContextDone(s)
  <2>1. PICK f \in BOOLEAN : st' = [st EXCEPT ![s] = [r EXCEPT !.pc = "drain", !.final = f]]
    <3>1. r.final \in BOOLEAN
      BY <1>2 DEF StreamStates
    <3>2. CASE Connect(s) \/ PollTick(s)
      BY <1>1, <1>2, <3>1, <3>2 DEF Connect, PollTick, StreamStates, r
    <3>3. CASE ContextDone(s)
      BY <1>1, <1>2, <3>3 DEF ContextDone, StreamStates, r
    <3> QED BY <1>6, <3>2, <3>3
  <2> DEFINE q == [r EXCEPT !.pc = "drain", !.final = f]
  <2>2. r.pc \in {"off", "wait"}
    BY <1>6 DEF Connect, PollTick, ContextDone, r
  <2>3. /\ q \in StreamStates(Len(log)) /\ q.batch = r.batch /\ q.buf = r.buf
        /\ Placed(q) /\ BreakerOK(q) /\ q.pc # "ranged"
    BY <1>2, <2>1, <2>2 DEF StreamStates, Placed, BreakerOK
  <2>4. UNCHANGED <<queue, log, push, got, inflight, dropped>>
    BY <1>6 DEF Connect, PollTick, ContextDone
  <2> QED BY <1>1, <1>3, <2>1, <2>2, <2>3, <2>4
<1>7. CASE ClientGone(s)
  <2> DEFINE q == [r EXCEPT !.link = "gone"]
  <2>1. st' = [st EXCEPT ![s] = q]
    BY <1>1, <1>7 DEF ClientGone, r
  <2>2. /\ q \in StreamStates(Len(log)) /\ q.batch = r.batch /\ q.buf = r.buf
        /\ Placed(q) /\ BreakerOK(q) /\ q.pc = r.pc
    BY <1>2 DEF StreamStates, Placed, BreakerOK
  <2> QED BY <1>1, <1>3, <1>7, <2>1, <2>2 DEF ClientGone
<1>8. CASE ContextCancel(s)
  <2> DEFINE q == [r EXCEPT !.done = TRUE]
  <2>1. st' = [st EXCEPT ![s] = q]
    BY <1>1, <1>8 DEF ContextCancel, r
  <2>2. /\ q \in StreamStates(Len(log)) /\ q.batch = r.batch /\ q.buf = r.buf
        /\ Placed(q) /\ BreakerOK(q) /\ q.pc = r.pc
    BY <1>2 DEF StreamStates, Placed, BreakerOK
  <2> QED BY <1>1, <1>3, <1>8, <2>1, <2>2 DEF ContextCancel
<1>9. CASE RegisterInFlight(s) \/ RegisterInFlightError(s)
  <2> DEFINE q == NextFrame(r)
  <2>1. st' = [st EXCEPT ![s] = q] /\ r.pc = "register"
    BY <1>9 DEF RegisterInFlight, RegisterInFlightError, r
  <2> HIDE DEF q
  <2>2. /\ q \in StreamStates(Len(log)) /\ q.batch = r.batch /\ q.buf = r.buf
        /\ Placed(q) /\ BreakerOK(q) /\ q.pc # "ranged"
    <3>1. CASE r.batch = <<>>
      <4>1. q = [r EXCEPT !.pc = "flush", !.cur = 0]
        BY <3>1 DEF NextFrame, q
      <4>2. q \in StreamStates(Len(log))
        <5>1. 0 \in 0..Len(log)
          BY <1>1
        <5> QED BY <1>2, <4>1, <5>1 DEF StreamStates
      <4>3. /\ q.pc = "flush" /\ q.batch = r.batch /\ q.buf = r.buf
            /\ q.breaker = r.breaker /\ q.fails = r.fails
        BY <1>2, <4>1 DEF StreamStates
      <4> QED BY <1>2, <2>1, <3>1, <4>2, <4>3 DEF Placed, BreakerOK
    <3>2. CASE r.batch # <<>>
      <4>1. q = [r EXCEPT !.pc = "write", !.cur = 0]
        BY <3>2 DEF NextFrame, q
      <4>2. q \in StreamStates(Len(log))
        <5>1. 0 \in 0..Len(log)
          BY <1>1
        <5> QED BY <1>2, <4>1, <5>1 DEF StreamStates
      <4>3. /\ q.pc = "write" /\ q.batch = r.batch /\ q.buf = r.buf
            /\ q.breaker = r.breaker /\ q.fails = r.fails
        BY <1>2, <4>1 DEF StreamStates
      <4> QED BY <1>2, <2>1, <3>2, <4>2, <4>3 DEF Placed, BreakerOK
    <3> QED BY <3>1, <3>2
  <2>3. UNCHANGED <<queue, log, push, got, dropped>>
    BY <1>9 DEF RegisterInFlight, RegisterInFlightError
  <2>4. inflight' \subseteq Pushers
    <3>1. r.cur \in 1..Len(log)
      BY <1>1, <1>2, <2>1 DEF StreamStates, Placed
    <3>2. log[r.cur] \in Pushers
      BY <1>1, <3>1
    <3> QED BY <1>1, <1>9, <3>2 DEF RegisterInFlight, RegisterInFlightError, r
  <2> QED BY <1>3, <2>1, <2>2, <2>3, <2>4
<1> QED BY <1>4, <1>5, <1>6, <1>7, <1>8, <1>9

(***************************************************************************)
(* Steps that leave the stream without entries.                            *)
(***************************************************************************)
LEMMA FailureOK ==
  ASSUME NEW n \in Nat, NEW r \in StreamStates(n), r.breaker = "closed", r.fails < MaxFails
  PROVE  LET q == recordFailure(r)
         IN  /\ q \in StreamStates(n) /\ q.batch = r.batch /\ q.buf = r.buf
             /\ q.breaker = "closed" => q.fails < MaxFails
<1> DEFINE b == IF r.fails + 1 >= MaxFails THEN "open" ELSE r.breaker
           q == [r EXCEPT !.fails = r.fails + 1, !.breaker = b]
<1>1. r.fails + 1 \in 0..MaxFails /\ b \in {"closed", "open", "elapsed"}
  BY FailsAssumption DEF StreamStates
<1>2. b = "closed" => r.fails + 1 < MaxFails
  BY FailsAssumption DEF StreamStates
<1> HIDE DEF b
<1>3. /\ q \in StreamStates(n) /\ q.batch = r.batch /\ q.buf = r.buf
      /\ q.breaker = b /\ q.fails = r.fails + 1
  BY <1>1 DEF StreamStates
<1>4. recordFailure(r) = q
  BY DEF recordFailure, b
<1> QED BY <1>2, <1>3, <1>4

LEMMA OrderEmpties ==
  ASSUME OrderInv, NEW s \in Streams,
         \/ DrainSkip(s) \/ DrainLost(s) \/ DrainUnsent(s)
         \/ WriteError(s) \/ FlushError(s) \/ HeartbeatError(s) \/ Crash(s)
  PROVE  OrderInv'
<1> DEFINE r == st[s]
           g == got[s]
           n == Len(log)
<1>1. /\ n \in Nat /\ Gone \in Nat
      /\ st \in [Streams -> StreamStates(n)]
      /\ inflight \subseteq Pushers /\ dropped \subseteq 1..n
  BY OrderTypes DEF OrderInv, TypeOK
<1>2. /\ r \in StreamStates(n) /\ Placed(r) /\ BreakerOK(r)
      /\ g \in Seq(1..n) /\ Increasing(g) /\ UpTo(g, Gone)
  BY OrderTypes DEF StreamOK, InOrder, Behind
<1>3. ToSet(r.batch) \subseteq 1..n /\ ToSet(r.buf) \subseteq 1..n
  <2>1. r.batch \in Seq(1..n) /\ r.buf \in Seq(1..n)
    BY <1>2 DEF StreamStates
  <2> QED BY <2>1, ToSetMember
<1>4. ASSUME NEW q \in StreamStates(n), q.batch = <<>>, q.buf = <<>>,
             q.breaker = "closed" => q.fails < MaxFails,
             st' = [st EXCEPT ![s] = After(q)] \/ st' = [st EXCEPT ![s] = Closed],
             UNCHANGED <<queue, log, push, got, inflight>>,
             dropped' \subseteq dropped \cup ToSet(r.batch) \cup ToSet(r.buf)
      PROVE  OrderInv'
  <2>1. StreamOK(After(q), g, Gone, n) /\ StreamOK(Closed, g, Gone, n)
    BY <1>1, <1>2, <1>4, AfterOK
  <2>2. dropped' \subseteq 1..n /\ inflight' \subseteq Pushers
    BY <1>1, <1>3, <1>4
  <2>3. CASE st' = [st EXCEPT ![s] = After(q)]
    BY <1>4, <2>1, <2>2, <2>3, StreamUpdateOnly
  <2>4. CASE st' = [st EXCEPT ![s] = Closed]
    BY <1>4, <2>1, <2>2, <2>4, StreamUpdateOnly
  <2> QED BY <1>4, <2>3, <2>4
<1> HIDE DEF r, g, n
<1>5. CASE DrainSkip(s) \/ HeartbeatError(s)
  <2>1. r.pc \in {"drain", "wait"} /\ UNCHANGED <<queue, log, push, got, inflight, dropped>>
        /\ (st' = [st EXCEPT ![s] = After(r)] \/ st' = [st EXCEPT ![s] = Closed])
    BY <1>5 DEF DrainSkip, HeartbeatError, r
  <2>2. r.batch = <<>> /\ r.buf = <<>>
    BY <1>2, <2>1 DEF Placed
  <2> QED BY <1>2, <1>4, <2>1, <2>2 DEF BreakerOK
<1>6. CASE DrainLost(s)
  <2> DEFINE e == [r EXCEPT !.batch = <<>>, !.tries = 0]
  <2>1. /\ r.pc = "trimmed" /\ UNCHANGED <<queue, log, push, got, inflight>>
        /\ \/ /\ r.tries < MaxRetries
              /\ st' = [st EXCEPT ![s] = [e EXCEPT !.pc = "send", !.tries = r.tries + 1]]
              /\ dropped' = dropped
           \/ /\ st' = [st EXCEPT ![s] = After(recordFailure(e))]
              /\ dropped' = dropped \cup ToSet(r.batch)
    BY <1>6 DEF DrainLost, r
  <2>2. r.buf = <<>> /\ r.breaker = "closed" /\ r.fails < MaxFails
    BY <1>2, <2>1 DEF Placed, BreakerOK
  <2>3. /\ e \in StreamStates(n) /\ e.batch = <<>> /\ e.buf = <<>>
        /\ e.breaker = "closed" /\ e.fails < MaxFails
    <3>1. 0 \in 0..MaxRetries /\ <<>> \in Seq(1..n)
      BY StreamRetryAssumption
    <3> QED BY <1>2, <2>2, <3>1 DEF StreamStates
  <2> HIDE DEF e
  <2>4. CASE /\ r.tries < MaxRetries
             /\ st' = [st EXCEPT ![s] = [e EXCEPT !.pc = "send", !.tries = r.tries + 1]]
             /\ dropped' = dropped
    <3> DEFINE q == [e EXCEPT !.pc = "send", !.tries = r.tries + 1]
    <3>1. r.tries + 1 \in 0..MaxRetries
      BY <1>2, <2>4, StreamRetryAssumption DEF StreamStates
    <3>2. /\ q \in StreamStates(n) /\ q.pc = "send" /\ q.batch = <<>> /\ q.buf = <<>>
          /\ q.breaker = "closed" /\ q.fails = e.fails
      BY <2>3, <3>1 DEF StreamStates
    <3>3. Placed(q) /\ BreakerOK(q)
      BY <2>3, <3>2 DEF Placed, BreakerOK
    <3>4. StreamOK(q, g, Gone, n)
      BY <1>1, <1>2, <3>2, <3>3, StreamEmptied
    <3> QED BY <1>1, <2>1, <2>4, <3>4, StreamUpdateOnly DEF g, n
  <2>5. CASE /\ st' = [st EXCEPT ![s] = After(recordFailure(e))]
             /\ dropped' = dropped \cup ToSet(r.batch)
    BY <1>1, <1>4, <2>1, <2>3, <2>5, FailureOK
  <2> QED BY <2>1, <2>4, <2>5
<1>7. CASE DrainUnsent(s)
  <2> DEFINE e == [r EXCEPT !.tries = 0]
  <2>1. /\ r.pc = "send" /\ UNCHANGED <<queue, log, push, got, inflight, dropped>>
        /\ st' = [st EXCEPT ![s] = After(recordFailure(e))]
    BY <1>7 DEF DrainUnsent, r
  <2>2. r.batch = <<>> /\ r.buf = <<>> /\ r.breaker = "closed" /\ r.fails < MaxFails
    BY <1>2, <2>1 DEF Placed, BreakerOK
  <2>3. /\ e \in StreamStates(n) /\ e.batch = <<>> /\ e.buf = <<>>
        /\ e.breaker = "closed" /\ e.fails < MaxFails
    <3>1. 0 \in 0..MaxRetries
      BY StreamRetryAssumption
    <3> QED BY <1>2, <2>2, <3>1 DEF StreamStates
  <2> HIDE DEF e
  <2> QED BY <1>1, <1>4, <2>1, <2>3, FailureOK
<1>8. CASE WriteError(s) \/ FlushError(s)
  <2> DEFINE q == [r EXCEPT !.batch = <<>>, !.buf = <<>>, !.link = "broken", !.done = TRUE]
  <2>1. st' = [st EXCEPT ![s] = After(q)]
    <3>1. CASE WriteError(s)
      BY <3>1 DEF WriteError, r
    <3>2. CASE FlushError(s)
      <4>1. r.pc = "flush" /\ st' = [st EXCEPT ![s] = After([r EXCEPT !.buf = <<>>, !.link = "broken", !.done = TRUE])]
        BY <3>2 DEF FlushError, r
      <4>2. r.batch = <<>>
        BY <1>2, <4>1 DEF Placed
      <4>3. [r EXCEPT !.buf = <<>>, !.link = "broken", !.done = TRUE] = q
        BY <1>2, <4>2 DEF StreamStates
      <4> QED BY <4>1, <4>3
    <3> QED BY <1>8, <3>1, <3>2
  <2>2. /\ UNCHANGED <<queue, log, push, got, inflight>>
        /\ dropped' \subseteq dropped \cup ToSet(r.batch) \cup ToSet(r.buf)
    BY <1>8 DEF WriteError, FlushError, r
  <2>3. /\ q \in StreamStates(n) /\ q.batch = <<>> /\ q.buf = <<>>
        /\ q.breaker = r.breaker /\ q.fails = r.fails
    <3>1. <<>> \in Seq(1..n)
      OBVIOUS
    <3> QED BY <1>2, <3>1 DEF StreamStates
  <2> HIDE DEF q
  <2> QED BY <1>2, <1>4, <2>1, <2>2, <2>3 DEF BreakerOK
<1>9. CASE Crash(s)
  <2>1. /\ st' = [st EXCEPT ![s] = Closed] /\ UNCHANGED <<queue, log, push, got, inflight>>
        /\ dropped' \subseteq dropped \cup ToSet(r.batch) \cup ToSet(r.buf)
    BY <1>9 DEF Crash, r
  <2>2. /\ Closed \in StreamStates(n) /\ Closed.batch = <<>> /\ Closed.buf = <<>>
        /\ Closed.breaker = "closed" => Closed.fails < MaxFails
    BY <1>1, FailsAssumption, StreamRetryAssumption DEF Closed, StreamStates
  <2> QED BY <1>4, <2>1, <2>2
<1> QED BY <1>5, <1>6, <1>7, <1>8, <1>9

(***************************************************************************)
(* Steps that move entries from the list to the batch, to the write buffer *)
(* and to the client.                                                      *)
(***************************************************************************)
LEMMA OrderReply ==
  ASSUME OrderInv, NEW s \in Streams, DrainReply(s)
  PROVE  OrderInv'
<1> DEFINE r == st[s]
           g == got[s]
           n == Len(log)
           e == [r EXCEPT !.fails = 0, !.breaker = "closed", !.tries = 0]
<1>1. /\ n \in Nat /\ Gone \in Nat /\ StreamOK(r, g, Gone, n)
      /\ inflight \subseteq Pushers /\ dropped \subseteq 1..n
  BY OrderTypes DEF OrderInv, TypeOK
<1>2. /\ r.pc = "trimmed"
      /\ st' = [st EXCEPT ![s] = IF e.batch = <<>> THEN After(e) ELSE [e EXCEPT !.pc = "write"]]
      /\ UNCHANGED <<queue, log, push, got, inflight, dropped>>
  BY DEF DrainReply, recordSuccess
<1> HIDE DEF r, g, n
<1>3. /\ r \in StreamStates(n) /\ Placed(r) /\ BreakerOK(r)
      /\ g \in Seq(1..n) /\ Increasing(g) /\ UpTo(g, Gone)
  BY <1>1 DEF StreamOK, InOrder, Behind
<1>4. r.buf = <<>>
  BY <1>2, <1>3 DEF Placed
<1>5. /\ e \in StreamStates(n) /\ e.batch = r.batch /\ e.buf = r.buf
      /\ e.breaker = "closed" /\ e.fails = 0
  <2>1. 0 \in 0..MaxFails /\ 0 \in 0..MaxRetries
    BY FailsAssumption, StreamRetryAssumption
  <2> QED BY <1>3, <2>1 DEF StreamStates
<1> HIDE DEF e
<1>6. CASE r.batch = <<>>
  <2>1. StreamOK(After(e), g, Gone, n)
    BY <1>1, <1>3, <1>4, <1>5, <1>6, FailsAssumption, AfterOK
  <2>2. st' = [st EXCEPT ![s] = After(e)]
    BY <1>2, <1>5, <1>6
  <2> QED BY <1>1, <1>2, <2>1, <2>2, StreamUpdateOnly DEF g, n
<1>7. CASE r.batch # <<>>
  <2> DEFINE q == [e EXCEPT !.pc = "write"]
  <2>1. /\ q \in StreamStates(n) /\ q.batch = r.batch /\ q.buf = r.buf /\ q.pc = "write"
        /\ q.breaker = "closed" /\ q.fails = 0
    BY <1>5 DEF StreamStates
  <2>2. Placed(q) /\ BreakerOK(q)
    BY <1>4, <1>7, <2>1, FailsAssumption DEF Placed, BreakerOK
  <2>3. StreamOK(q, g, Gone, n)
    BY <1>1, <1>2, <2>1, <2>2, StreamMoves
  <2>4. st' = [st EXCEPT ![s] = q]
    BY <1>2, <1>5, <1>7
  <2> QED BY <1>1, <1>2, <2>3, <2>4, StreamUpdateOnly DEF g, n
<1> QED BY <1>6, <1>7

LEMMA OrderRange ==
  ASSUME OrderInv, NEW s \in Streams, DrainRange(s)
  PROVE  OrderInv'
<1> DEFINE r == st[s]
           g == got[s]
           n == Len(log)
           b == First(queue, BatchSize)
           q == [r EXCEPT !.pc = "ranged", !.batch = b]
<1>1. /\ n \in Nat /\ Gone \in Nat /\ StreamOK(r, g, Gone, n) /\ queue \in Seq(1..n)
      /\ st \in [Streams -> StreamStates(n)]
      /\ inflight \subseteq Pushers /\ dropped \subseteq 1..n
  BY OrderTypes DEF OrderInv, TypeOK
<1>2. /\ r \in StreamStates(n) /\ Placed(r) /\ BreakerOK(r)
      /\ g \in Seq(1..n) /\ Increasing(g) /\ UpTo(g, Gone)
  BY <1>1 DEF StreamOK, InOrder, Behind
<1>3. /\ r.pc = "send" /\ st' = [st EXCEPT ![s] = q]
      /\ UNCHANGED <<queue, log, push, got, inflight, dropped>>
  BY <1>1, <1>2 DEF DrainRange, StreamStates
<1>4. /\ b \in Seq(1..n) /\ Len(b) <= BatchSize
      /\ \A i \in 1..Len(b) : b[i] = Gone + i
  <2>1. /\ b \in Seq(1..n) /\ Len(b) = Smaller(BatchSize, Len(queue))
        /\ \A i \in 1..Smaller(BatchSize, Len(queue)) : b[i] = queue[i]
    BY <1>1, BatchAssumption, FirstProperties
  <2>2. Smaller(BatchSize, Len(queue)) <= BatchSize /\ Smaller(BatchSize, Len(queue)) <= Len(queue)
        /\ Smaller(BatchSize, Len(queue)) \in Nat
    BY <1>1, BatchAssumption DEF Smaller
  <2>3. \A i \in 1..Len(queue) : queue[i] = Gone + i
    BY DEF OrderInv, ListOK
  <2>4. \A i \in 1..Smaller(BatchSize, Len(queue)) : i \in 1..Len(queue)
    BY <1>1, <2>2
  <2> HIDE DEF b, n
  <2>5. \A i \in 1..Len(b) : b[i] = Gone + i
    BY <2>1, <2>3, <2>4
  <2> QED BY <2>1, <2>2, <2>5
<1> HIDE DEF r, g, n, b
<1>5. /\ q \in StreamStates(n) /\ q.pc = "ranged" /\ q.batch = b /\ q.buf = r.buf
      /\ q.breaker = r.breaker /\ q.fails = r.fails
  BY <1>2, <1>4 DEF StreamStates
<1>6. r.buf = <<>>
  BY <1>2, <1>3 DEF Placed
<1>7. Placed(q) /\ BreakerOK(q)
  BY <1>2, <1>3, <1>5, <1>6 DEF Placed, BreakerOK
<1>8. Increasing(b)
  BY <1>1, <1>4 DEF Increasing
<1>9. \A a \in ToSet(b) : Gone < a /\ a <= Gone + BatchSize
  <2> SUFFICES ASSUME NEW a \in ToSet(b) PROVE Gone < a /\ a <= Gone + BatchSize
    OBVIOUS
  <2>1. PICK i \in 1..Len(b) : b[i] = a
    BY <1>4, ToSetMember
  <2>2. Len(b) \in Nat
    BY <1>4
  <2> QED BY <1>1, <1>4, <2>1, <2>2, BatchAssumption
<1>10. InOrder(q, g)
  <2>1. Increasing(<<>>)
    BY DEF Increasing
  <2>2. ToSet(g) \subseteq 1..n /\ ToSet(b) \subseteq 1..n
    BY <1>2, <1>4, ToSetMember
  <2>3. Before(g, b)
    BY <1>1, <1>2, <1>9, <2>2 DEF Before, UpTo
  <2>4. Before(g, <<>>) /\ Before(<<>>, b)
    BY ToSetEmpty DEF Before
  <2> QED BY <1>2, <1>5, <1>6, <1>8, <2>1, <2>3, <2>4 DEF InOrder
<1>11. Behind(q, g, Gone)
  <2>1. UpTo(<<>>, Gone) /\ UpTo(b, Gone + BatchSize)
    BY <1>9, ToSetEmpty DEF UpTo
  <2> QED BY <1>2, <1>5, <1>6, <2>1 DEF Behind
<1>12. StreamOK(q, g, Gone, n)
  BY <1>2, <1>5, <1>7, <1>10, <1>11 DEF StreamOK
<1> HIDE DEF q
<1> QED BY <1>1, <1>3, <1>12, StreamUpdateOnly DEF g, n

LEMMA OrderFlush ==
  ASSUME OrderInv, NEW s \in Streams, Flush(s)
  PROVE  OrderInv'
<1> DEFINE r == st[s]
           g == got[s]
           n == Len(log)
           e == [r EXCEPT !.buf = <<>>]
<1>1. /\ n \in Nat /\ Gone \in Nat /\ StreamOK(r, g, Gone, n)
      /\ inflight \subseteq Pushers /\ dropped \subseteq 1..n
  BY OrderTypes DEF OrderInv, TypeOK
<1>2. /\ r.pc = "flush" /\ st' = [st EXCEPT ![s] = After(e)]
      /\ \/ got' = [got EXCEPT ![s] = g \o r.buf] /\ dropped' = dropped
         \/ got' = got /\ dropped' = dropped \cup ToSet(r.buf)
      /\ UNCHANGED <<queue, log, push, inflight>>
  BY DEF Flush, Deliver
<1> HIDE DEF r, g, n
<1>3. /\ r \in StreamStates(n) /\ Placed(r) /\ BreakerOK(r)
      /\ g \in Seq(1..n) /\ InOrder(r, g) /\ Behind(r, g, Gone)
  BY <1>1 DEF StreamOK
<1>4. r.buf \in Seq(1..n) /\ r.batch = <<>>
  BY <1>2, <1>3 DEF Placed, StreamStates
<1>5. /\ e \in StreamStates(n) /\ e.batch = <<>> /\ e.buf = <<>>
      /\ e.breaker = r.breaker /\ e.fails = r.fails
  <2>1. <<>> \in Seq(1..n)
    OBVIOUS
  <2> QED BY <1>3, <1>4, <2>1 DEF StreamStates
<1> HIDE DEF e
<1>6. CASE got' = [got EXCEPT ![s] = g \o r.buf] /\ dropped' = dropped
  <2> DEFINE h == g \o r.buf
  <2>1. h \in Seq(1..n)
    BY <1>3, <1>4
  <2>2. Increasing(h)
    BY <1>1, <1>3, <1>4, ConcatIncreasing DEF InOrder
  <2>3. ToSet(h) = ToSet(g) \cup ToSet(r.buf)
    BY <1>3, <1>4, ToSetConcat
  <2> HIDE DEF h
  <2>4. UpTo(h, Gone)
    BY <1>3, <2>3 DEF UpTo, Behind
  <2>5. StreamOK(After(e), h, Gone, n)
    BY <1>1, <1>3, <1>5, <2>1, <2>2, <2>4, AfterOK DEF BreakerOK
  <2>6. got' = [got EXCEPT ![s] = h]
    BY <1>6 DEF h
  <2> QED BY <1>1, <1>2, <1>6, <2>5, <2>6, StreamUpdate DEF n
<1>7. CASE got' = got /\ dropped' = dropped \cup ToSet(r.buf)
  <2>1. dropped' \subseteq 1..n
    BY <1>1, <1>4, <1>7, ToSetMember
  <2>2. StreamOK(After(e), g, Gone, n)
    BY <1>1, <1>3, <1>5, AfterOK DEF BreakerOK, InOrder, Behind
  <2> QED BY <1>1, <1>2, <1>7, <2>1, <2>2, StreamUpdateOnly DEF g, n
<1> QED BY <1>2, <1>6, <1>7

LEMMA OrderWrite ==
  ASSUME OrderInv, NEW s \in Streams, Write(s)
  PROVE  OrderInv'
<1> DEFINE r == st[s]
           g == got[s]
           n == Len(log)
           k == Head(r.batch)
           filled == Append(r.buf, k)
           one == <<k>>
           rest == Tail(r.batch)
<1>1. /\ n \in Nat /\ Gone \in Nat /\ StreamOK(r, g, Gone, n)
      /\ inflight \subseteq Pushers /\ dropped \subseteq 1..n
  BY OrderTypes DEF OrderInv, TypeOK
<1>2. PICK m \in 0..Len(filled) :
         /\ Deliver(s, First(filled, m))
         /\ st' = [st EXCEPT ![s] = [r EXCEPT !.pc = "register", !.cur = k, !.batch = rest,
                                              !.buf = Rest(filled, m)]]
  BY DEF Write
<1>19. \/ got' = [got EXCEPT ![s] = g \o First(filled, m)] /\ dropped' = dropped
       \/ got' = got /\ dropped' = dropped \cup ToSet(First(filled, m))
  BY <1>2 DEF Deliver
<1>3. r.pc = "write" /\ UNCHANGED <<queue, log, push, inflight>>
  BY DEF Write
<1> HIDE DEF r, g, n
<1>4. /\ r \in StreamStates(n) /\ Placed(r) /\ BreakerOK(r)
      /\ g \in Seq(1..n) /\ InOrder(r, g) /\ Behind(r, g, Gone)
  BY <1>1 DEF StreamOK
<1>5. r.buf \in Seq(1..n) /\ r.batch \in Seq(1..n) /\ r.batch # <<>>
  BY <1>3, <1>4 DEF Placed, StreamStates
<1>6. k \in 1..n /\ rest = Rest(r.batch, 1) /\ one = First(r.batch, 1)
  BY <1>5, HeadTail
<1>7. /\ rest \in Seq(1..n) /\ one \in Seq(1..n)
      /\ Increasing(one) /\ Increasing(rest) /\ Before(one, rest)
      /\ ToSet(r.batch) = ToSet(one) \cup ToSet(rest)
  <2>1. /\ First(r.batch, 1) \in Seq(1..n) /\ Rest(r.batch, 1) \in Seq(1..n)
        /\ ToSet(r.batch) = ToSet(First(r.batch, 1)) \cup ToSet(Rest(r.batch, 1))
    BY <1>5, FirstProperties, RestProperties, ToSetFirstRest
  <2>2. /\ Increasing(First(r.batch, 1)) /\ Increasing(Rest(r.batch, 1))
        /\ Before(First(r.batch, 1), Rest(r.batch, 1))
    BY <1>1, <1>4, <1>5, FirstRestIncreasing DEF InOrder
  <2> QED BY <1>6, <2>1, <2>2
<1>8. filled = r.buf \o one /\ filled \in Seq(1..n)
  BY <1>5, <1>6, ConcatAppend
<1> HIDE DEF k, one, rest, filled
<1>9. ToSet(filled) = ToSet(r.buf) \cup ToSet(one)
  <2>1. ToSet(r.buf \o one) = ToSet(r.buf) \cup ToSet(one)
    BY <1>5, <1>7, ToSetConcat
  <2> QED BY <1>8, <2>1
<1>10. Increasing(filled)
  <2>1. Before(r.buf, one) /\ Increasing(r.buf)
    BY <1>4, <1>7 DEF InOrder, Before
  <2>2. Increasing(r.buf \o one)
    BY <1>1, <1>5, <1>7, <2>1, ConcatIncreasing
  <2> QED BY <1>8, <2>2
<1>11. Before(filled, rest) /\ Before(g, filled) /\ Before(g, rest) /\ UpTo(filled, Gone) /\ UpTo(rest, Gone)
  BY <1>3, <1>4, <1>7, <1>9 DEF InOrder, Behind, Before, UpTo
<1> DEFINE sent == First(filled, m)
           kept == Rest(filled, m)
<1>12. /\ m \in Nat /\ sent \in Seq(1..n) /\ kept \in Seq(1..n)
       /\ Increasing(sent) /\ Increasing(kept) /\ Before(sent, kept)
       /\ ToSet(filled) = ToSet(sent) \cup ToSet(kept)
  <2>1. m \in Nat
    BY <1>2, <1>8
  <2>2. sent \in Seq(1..n) /\ kept \in Seq(1..n)
    BY <1>8, <2>1, FirstProperties, RestProperties
  <2>3. ToSet(filled) = ToSet(sent) \cup ToSet(kept)
    <3>1. filled \in Seq(1..n)
      BY <1>8
    <3> QED BY <2>1, <3>1, ToSetFirstRest
  <2>4. Increasing(sent) /\ Increasing(kept) /\ Before(sent, kept)
    BY <1>1, <1>8, <1>10, <2>1, FirstRestIncreasing
  <2> QED BY <2>1, <2>2, <2>3, <2>4
<1> DEFINE q == [r EXCEPT !.pc = "register", !.cur = k, !.batch = rest, !.buf = kept]
<1>13. st' = [st EXCEPT ![s] = q]
  BY <1>2
<1> HIDE DEF sent, kept
<1>14. /\ q \in StreamStates(n) /\ q.pc = "register" /\ q.batch = rest /\ q.buf = kept /\ q.cur = k
       /\ q.breaker = r.breaker /\ q.fails = r.fails
  <2>1. k \in 0..n
    BY <1>1, <1>6
  <2> QED BY <1>4, <1>7, <1>12, <2>1 DEF StreamStates
<1>15. Placed(q) /\ BreakerOK(q)
  BY <1>1, <1>4, <1>6, <1>14 DEF Placed, BreakerOK
<1> HIDE DEF q
<1>16. ASSUME NEW h \in Seq(1..n), Increasing(h), UpTo(h, Gone), Before(h, kept), Before(h, rest)
       PROVE  StreamOK(q, h, Gone, n)
  <2>1. InOrder(q, h)
    BY <1>7, <1>11, <1>12, <1>14, <1>16 DEF InOrder, Before
  <2>2. Behind(q, h, Gone)
    BY <1>11, <1>12, <1>14, <1>16 DEF Behind, UpTo
  <2> QED BY <1>14, <1>15, <1>16, <2>1, <2>2 DEF StreamOK
<1>17. CASE got' = [got EXCEPT ![s] = g \o sent] /\ dropped' = dropped
  <2> DEFINE h == g \o sent
  <2>1. h \in Seq(1..n)
    BY <1>4, <1>12
  <2>2. Increasing(h)
    <3>1. Before(g, sent) /\ Increasing(g)
      BY <1>4, <1>11, <1>12 DEF Before, InOrder
    <3> QED BY <1>1, <1>4, <1>12, <3>1, ConcatIncreasing
  <2>3. ToSet(h) = ToSet(g) \cup ToSet(sent)
    BY <1>4, <1>12, ToSetConcat
  <2> HIDE DEF h
  <2>4. UpTo(h, Gone) /\ Before(h, kept) /\ Before(h, rest)
    BY <1>4, <1>11, <1>12, <2>3 DEF UpTo, Behind, Before
  <2>5. StreamOK(q, h, Gone, n)
    BY <1>16, <2>1, <2>2, <2>4
  <2>6. got' = [got EXCEPT ![s] = h]
    BY <1>17 DEF h
  <2> QED BY <1>1, <1>3, <1>13, <1>17, <2>5, <2>6, StreamUpdate DEF n
<1>18. CASE got' = got /\ dropped' = dropped \cup ToSet(sent)
  <2>1. dropped' \subseteq 1..n
    BY <1>1, <1>12, <1>18, ToSetMember
  <2>2. Before(g, kept) /\ Before(g, rest) /\ Increasing(g) /\ UpTo(g, Gone)
    BY <1>4, <1>11, <1>12 DEF Before, InOrder, Behind
  <2>3. StreamOK(q, g, Gone, n)
    BY <1>4, <1>16, <2>2
  <2> QED BY <1>1, <1>3, <1>13, <1>18, <2>1, <2>3, StreamUpdateOnly DEF g, n
<1> QED BY <1>19, <1>17, <1>18 DEF sent

(***************************************************************************)
(* Steps that change the list.                                             *)
(***************************************************************************)
LEMMA ListTrimmed ==
  ASSUME OrderInv, NEW k \in Nat, queue' = Rest(queue, k), log' = log
  PROVE  /\ ListOK' /\ queue' \in Seq(1..Len(log))
         /\ Len(queue') = Len(queue) - Smaller(k, Len(queue))
         /\ Gone' = Gone + Smaller(k, Len(queue)) /\ Gone' \in Nat /\ Gone <= Gone'
<1> DEFINE m == Smaller(k, Len(queue))
<1>1. /\ queue \in Seq(1..Len(log)) /\ Len(queue) \in Nat /\ Len(log) \in Nat /\ Gone \in Nat
      /\ Len(queue) <= Len(log)
      /\ \A i \in 1..Len(queue) : queue[i] = Gone + i
  BY OrderTypes DEF OrderInv, ListOK
<1>2. m \in 0..Len(queue)
  BY <1>1 DEF Smaller
<1>3. /\ queue' \in Seq(1..Len(log)) /\ Len(queue') = Len(queue) - m
      /\ \A i \in 1..(Len(queue) - m) : queue'[i] = queue[m + i]
  BY <1>1, RestProperties
<1> HIDE DEF m
<1>4. Gone' = Gone + m
  BY <1>1, <1>2, <1>3 DEF Gone
<1>5. \A i \in 1..(Len(queue) - m) : m + i \in 1..Len(queue) /\ queue'[i] = Gone + (m + i)
  BY <1>1, <1>2, <1>3
<1>6. ListOK'
  BY <1>1, <1>2, <1>3, <1>4, <1>5 DEF ListOK
<1> QED BY <1>1, <1>2, <1>3, <1>4, <1>6 DEF m

LEMMA OrderRPush ==
  ASSUME OrderInv, NEW p \in Pushers, RPush(p)
  PROVE  OrderInv'
<1> DEFINE n == Len(log)
<1>1. /\ n \in Nat /\ Gone \in Nat /\ log \in Seq(Pushers)
      /\ queue \in Seq(1..n) /\ Len(queue) \in Nat
      /\ Len(queue) <= n /\ Gone = n - Len(queue)
      /\ \A i \in 1..Len(queue) : queue[i] = Gone + i
  BY OrderTypes DEF OrderInv, ListOK, Gone
<1>2. /\ log' = Append(log, p) /\ queue' = Append(queue, n + 1)
      /\ push' = [push EXCEPT ![p].pc = "capping"]
      /\ UNCHANGED <<st, got, inflight, dropped>>
  BY DEF RPush
<1>3. log' \in Seq(Pushers) /\ Len(log') = n + 1
  BY <1>1, <1>2
<1>4. /\ queue' \in Seq(1..(n + 1)) /\ Len(queue') = Len(queue) + 1
      /\ \A i \in 1..Len(queue) : queue'[i] = queue[i]
      /\ queue'[Len(queue) + 1] = n + 1
  <2>1. queue \in Seq(1..(n + 1)) /\ n + 1 \in 1..(n + 1)
    <3>1. 1..n \subseteq 1..(n + 1)
      BY <1>1
    <3> QED BY <1>1, <3>1, SeqWider
  <2> HIDE DEF n
  <2> QED BY <1>2, <2>1
<1>5. Gone' = Gone
  BY <1>1, <1>3, <1>4 DEF Gone
<1>6. ListOK'
  <2>1. ASSUME NEW i \in 1..(Len(queue) + 1) PROVE queue'[i] = Gone + i
    <3>1. CASE i \in 1..Len(queue)
      BY <1>1, <1>4, <3>1
    <3>2. CASE i = Len(queue) + 1
      BY <1>1, <1>4, <3>2
    <3> QED BY <1>1, <2>1, <3>1, <3>2
  <2>2. Len(queue') <= Len(log')
    BY <1>1, <1>3, <1>4
  <2> QED BY <1>4, <1>5, <2>1, <2>2 DEF ListOK
<1>7. ASSUME NEW s \in Streams PROVE StreamOK(st[s], got[s], Gone, n + 1)
  BY <1>1, OrderTypes, StreamLater
<1>8. StreamsOK'
  BY <1>2, <1>3, <1>5, <1>7 DEF StreamsOK
<1>9. TypeOK'
  <2>1. push' \in [Pushers -> [pc : {"new", "capping", "capped", "created", "failed"},
                               tries : 0..MaxRetries]]
    BY <1>2 DEF OrderInv, TypeOK
  <2>2. st' \in [Streams -> StreamStates(n + 1)] /\ got' \in [Streams -> Seq(1..(n + 1))]
    BY <1>2, <1>7 DEF OrderInv, TypeOK, StreamOK
  <2>3. inflight' \subseteq Pushers /\ dropped' \subseteq 1..(n + 1)
    BY <1>1, <1>2 DEF OrderInv, TypeOK
  <2> QED BY <1>3, <1>4, <2>1, <2>2, <2>3 DEF TypeOK
<1> QED BY <1>6, <1>8, <1>9 DEF OrderInv

LEMMA OrderLTrim ==
  ASSUME OrderInv, NEW p \in Pushers, LTrim(p)
  PROVE  OrderInv'
<1> DEFINE k == Excess(queue)
<1>1. /\ Len(log) \in Nat /\ Gone \in Nat /\ queue \in Seq(1..Len(log)) /\ Len(queue) \in Nat
  BY OrderTypes
<1>2. /\ queue' = Rest(queue, k) /\ log' = log
      /\ dropped' = dropped \cup ToSet(First(queue, k))
      /\ push' = [push EXCEPT ![p].pc = "capped"]
      /\ UNCHANGED <<st, got, inflight>>
  BY DEF LTrim
<1>3. k \in Nat
  BY <1>1, DepthAssumption DEF Excess
<1> HIDE DEF k
<1>4. ListOK' /\ queue' \in Seq(1..Len(log)) /\ Gone' \in Nat /\ Gone <= Gone'
  BY <1>2, <1>3, ListTrimmed
<1>5. ASSUME NEW s \in Streams PROVE StreamOK(st[s], got[s], Gone', Len(log))
  BY <1>1, <1>4, OrderTypes, StreamLater
<1>6. StreamsOK'
  BY <1>2, <1>5 DEF StreamsOK
<1>7. TypeOK'
  <2>1. ToSet(First(queue, k)) \subseteq 1..Len(log)
    <3>1. First(queue, k) \in Seq(1..Len(log))
      BY <1>1, <1>3, FirstProperties
    <3> QED BY <3>1, ToSetMember
  <2> QED BY <1>2, <1>4, <2>1 DEF OrderInv, TypeOK
<1> QED BY <1>4, <1>6, <1>7 DEF OrderInv

LEMMA OrderDrainTrim ==
  ASSUME OrderInv, NEW s \in Streams, DrainTrim(s)
  PROVE  OrderInv'
<1> DEFINE r == st[s]
           n == Len(log)
           q == [r EXCEPT !.pc = "trimmed"]
<1>1. /\ n \in Nat /\ Gone \in Nat /\ queue \in Seq(1..n) /\ Len(queue) \in Nat
      /\ st \in [Streams -> StreamStates(n)] /\ StreamOK(r, got[s], Gone, n)
      /\ Gone = n - Len(queue)
  BY OrderTypes DEF OrderInv, TypeOK, Gone
<1>2. /\ queue' = Rest(queue, BatchSize) /\ r.pc = "ranged" /\ st' = [st EXCEPT ![s] = q]
      /\ UNCHANGED <<log, push, got, inflight, dropped>>
  BY <1>1 DEF DrainTrim
<1>3. /\ ListOK' /\ queue' \in Seq(1..n) /\ Gone' \in Nat /\ Gone <= Gone'
      /\ Gone' = Gone + Smaller(BatchSize, Len(queue))
  BY <1>2, BatchAssumption, ListTrimmed
<1>4. StreamOK(q, got[s], Gone', n)
  <2>1. StreamOK(r, got[s], Gone', n)
    BY <1>1, <1>3, StreamLater
  <2> HIDE DEF r, n
  <2>2. /\ q \in StreamStates(n) /\ q.pc = "trimmed" /\ q.batch = r.batch /\ q.buf = r.buf
        /\ q.breaker = r.breaker /\ q.fails = r.fails
    BY <2>1 DEF StreamOK, StreamStates
  <2>3. Placed(q) /\ BreakerOK(q)
    BY <1>2, <2>1, <2>2 DEF StreamOK, Placed, BreakerOK
  <2>4. UpTo(r.batch, Gone')
    <3> SUFFICES ASSUME NEW a \in ToSet(r.batch) PROVE a <= Gone'
      BY DEF UpTo
    <3>1. a <= Gone + BatchSize
      BY <1>1, <1>2 DEF StreamOK, Behind, UpTo
    <3>2. a \in 1..n
      <4>1. r.batch \in Seq(1..n)
        BY <2>1 DEF StreamOK, StreamStates
      <4> QED BY <4>1, ToSetMember
    <3>3. Gone' = Gone + BatchSize \/ Gone' = n
      BY <1>1, <1>3, BatchAssumption DEF Smaller
    <3> QED BY <1>1, <3>1, <3>2, <3>3, BatchAssumption
  <2> HIDE DEF q
  <2> QED BY <2>1, <2>2, <2>3, <2>4 DEF StreamOK, InOrder, Behind
<1>5. ASSUME NEW t \in Streams PROVE StreamOK(st'[t], got[t], Gone', n)
  <2>1. CASE t = s
    BY <1>1, <1>2, <1>4, <2>1
  <2>2. CASE t # s
    <3>1. StreamOK(st[t], got[t], Gone', n)
      BY <1>1, <1>3, OrderTypes, StreamLater
    <3> QED BY <1>1, <1>2, <2>2, <3>1
  <2> QED BY <2>1, <2>2
<1>6. StreamsOK'
  BY <1>2, <1>5 DEF StreamsOK
<1>7. TypeOK'
  <2>1. st' \in [Streams -> StreamStates(n)]
    BY <1>1, <1>2, <1>4 DEF StreamOK
  <2> QED BY <1>2, <1>3, <2>1 DEF OrderInv, TypeOK
<1> QED BY <1>3, <1>6, <1>7 DEF OrderInv

\* Steps of a push that only concern its reply, and stuttering.
LEMMA OrderReplies ==
  ASSUME OrderInv, UNCHANGED <<queue, log, st, got, inflight, dropped>>,
         push' \in [Pushers -> [pc : {"new", "capping", "capped", "created", "failed"},
                               tries : 0..MaxRetries]]
  PROVE  OrderInv'
BY DEF OrderInv, TypeOK, ListOK, StreamsOK, Gone

LEMMA OrderStep == OrderInv /\ [Next]_vars => OrderInv'
<1> SUFFICES ASSUME OrderInv, [Next]_vars PROVE OrderInv'
  OBVIOUS
<1> DEFINE PushStates == [pc : {"new", "capping", "capped", "created", "failed"},
                          tries : 0..MaxRetries]
<1>1. push \in [Pushers -> PushStates]
  BY DEF OrderInv, TypeOK
<1>2. ASSUME NEW p \in Pushers, PushStep(p) PROVE OrderInv'
  <2>1. CASE PushReply(p) \/ PushUnsent(p)
    <3>1. push' \in [Pushers -> PushStates]
      BY <1>1, <2>1 DEF PushReply, PushUnsent
    <3> QED BY <2>1, <3>1, OrderReplies DEF PushReply, PushUnsent
  <2>2. CASE PushLost(p)
    <3>1. push' \in [Pushers -> PushStates]
      <4>1. CASE push' = [push EXCEPT ![p].pc = "failed"]
        BY <1>1, <4>1
      <4>2. CASE /\ push[p].tries < MaxRetries
                 /\ push' = [push EXCEPT ![p] = [pc |-> "new", tries |-> push[p].tries + 1]]
        <5>1. push[p].tries + 1 \in 0..MaxRetries
          BY <1>1, <4>2, StreamRetryAssumption
        <5> QED BY <1>1, <4>2, <5>1
      <4> QED BY <2>2, <4>1, <4>2 DEF PushLost
    <3> QED BY <2>2, <3>1, OrderReplies DEF PushLost
  <2> QED BY <1>2, <2>1, <2>2, OrderRPush, OrderLTrim DEF PushStep
<1>3. ASSUME NEW s \in Streams, LoopStep(s) \/ Connect(s) \/ BreakerElapse(s)
      PROVE  OrderInv'
  BY <1>3, OrderMoves, OrderEmpties, OrderReply, OrderRange, OrderFlush, OrderWrite, OrderDrainTrim
     DEF LoopStep
<1>4. ASSUME NEW s \in Streams, ClientGone(s) \/ ContextCancel(s) \/ Crash(s)
      PROVE  OrderInv'
  BY <1>4, OrderMoves, OrderEmpties
<1>5. CASE UNCHANGED vars
  BY <1>1, <1>5, OrderReplies DEF vars
<1> QED BY <1>2, <1>3, <1>4, <1>5 DEF Next

LEMMA OrderInvariant == Spec => []OrderInv
<1> QED BY OrderInit, OrderStep, PTL DEF Spec

(***************************************************************************)
(* Type correctness: in particular the breaker of a stream never counts    *)
(* more than MaxFails failures (circuitBreaker.recordFailure, loop.go),    *)
(* and the entry RegisterInFlight looks up was pushed.                     *)
(***************************************************************************)
THEOREM StreamTypeCorrect == Spec => []TypeOK
<1>1. OrderInv => TypeOK
  BY DEF OrderInv
<1> QED BY <1>1, OrderInvariant, PTL

(***************************************************************************)
(* Whatever pushes and other streams do between the LRANGE and the LTRIM   *)
(* of a drain (EventRepository.Drain), at every IP the client receives     *)
(* entries in push order and none twice.                                   *)
(***************************************************************************)
THEOREM StreamOrderHolds == Spec => []StreamOrder
<1>1. OrderInv => StreamOrder
  <2> SUFFICES ASSUME OrderInv, NEW s \in Streams
               PROVE  LET all == got[s] \o st[s].buf \o st[s].batch
                      IN  \A i, j \in DOMAIN all : i < j => all[i] < all[j]
    BY DEF StreamOrder
  <2> DEFINE g == got[s]
             b == st[s].buf
             d == st[s].batch
             n == Len(log)
             h == g \o b
             all == h \o d
  <2>1. /\ n \in Nat /\ g \in Seq(1..n) /\ b \in Seq(1..n) /\ d \in Seq(1..n)
        /\ Increasing(g) /\ Increasing(b) /\ Increasing(d)
        /\ Before(g, b) /\ Before(g, d) /\ Before(b, d)
    BY OrderTypes DEF StreamOK, StreamStates, InOrder
  <2> HIDE DEF g, b, d, n
  <2>2. h \in Seq(1..n) /\ Increasing(h) /\ ToSet(h) = ToSet(g) \cup ToSet(b)
    BY <2>1, ConcatIncreasing, ToSetConcat
  <2> HIDE DEF h
  <2>3. Before(h, d)
    BY <2>1, <2>2 DEF Before
  <2>4. all \in Seq(1..n) /\ Increasing(all)
    BY <2>1, <2>2, <2>3, ConcatIncreasing
  <2> HIDE DEF all
  <2>5. DOMAIN all = 1..Len(all)
    BY <2>4
  <2>6. \A i, j \in DOMAIN all : i < j => all[i] < all[j]
    BY <2>4, <2>5 DEF Increasing
  <2> QED BY <2>6 DEF all, h, g, b, d
<1> QED BY <1>1, OrderInvariant, PTL

(***************************************************************************)
(* The length of the list.                                                 *)
(***************************************************************************)
Capping == {p \in Pushers : push[p].pc = "capping"}

BoundInv == IsFiniteSet(Capping) /\ Len(queue) <= MaxQueueDepth + Cardinality(Capping)

LEMMA BoundInit == Init => BoundInv
<1> SUFFICES ASSUME Init PROVE BoundInv
  OBVIOUS
<1>1. Capping = {} /\ Len(queue) = 0
  BY DEF Init, Capping
<1>2. IsFiniteSet({}) /\ Cardinality({}) = 0
  BY FS_EmptySet
<1> QED BY <1>1, <1>2, DepthAssumption DEF BoundInv

\* All steps of streams but DrainTrim leave the list and the pushes alone.
LEMMA StreamLeavesList ==
  ASSUME NEW s \in Streams,
         \/ LoopStep(s) \/ Connect(s) \/ BreakerElapse(s)
         \/ ClientGone(s) \/ ContextCancel(s) \/ Crash(s)
  PROVE  UNCHANGED <<log, push>> /\ (UNCHANGED queue \/ DrainTrim(s))
<1>1. CASE \/ DrainSkip(s) \/ DrainStart(s) \/ DrainRange(s) \/ DrainTrim(s)
           \/ DrainReply(s) \/ DrainLost(s) \/ DrainUnsent(s)
  BY <1>1 DEF DrainSkip, DrainStart, DrainRange, DrainTrim, DrainReply, DrainLost, DrainUnsent
<1>2. CASE \/ Write(s) \/ WriteError(s) \/ RegisterInFlight(s) \/ RegisterInFlightError(s)
           \/ Flush(s) \/ FlushError(s) \/ PollTick(s) \/ ContextDone(s) \/ HeartbeatError(s)
  BY <1>2 DEF Write, WriteError, RegisterInFlight, RegisterInFlightError, Flush, FlushError,
              PollTick, ContextDone, HeartbeatError
<1>3. CASE Connect(s) \/ BreakerElapse(s) \/ ClientGone(s) \/ ContextCancel(s) \/ Crash(s)
  BY <1>3 DEF Connect, BreakerElapse, ClientGone, ContextCancel, Crash
<1> QED BY <1>1, <1>2, <1>3 DEF LoopStep

LEMMA BoundStep == OrderInv /\ BoundInv /\ [Next]_vars => BoundInv'
<1> SUFFICES ASSUME OrderInv, BoundInv, [Next]_vars PROVE BoundInv'
  OBVIOUS
<1>1. /\ Len(queue) \in Nat /\ queue \in Seq(1..Len(log)) /\ Len(log) \in Nat
      /\ push \in [Pushers -> [pc : {"new", "capping", "capped", "created", "failed"},
                               tries : 0..MaxRetries]]
  BY OrderTypes DEF OrderInv, TypeOK
<1>2. /\ IsFiniteSet(Capping) /\ Cardinality(Capping) \in Nat
      /\ Len(queue) <= MaxQueueDepth + Cardinality(Capping)
  BY FS_CardinalityType DEF BoundInv
<1>3. ASSUME Capping' = Capping, Len(queue') <= Len(queue), Len(queue') \in Nat PROVE BoundInv'
  BY <1>1, <1>2, <1>3, DepthAssumption DEF BoundInv
<1>4. ASSUME NEW p \in Pushers, PushStep(p) PROVE BoundInv'
  <2>1. CASE PushReply(p) \/ PushUnsent(p) \/ PushLost(p)
    <3>1. queue' = queue /\ \A q \in Pushers : push'[q].pc = "capping" <=> push[q].pc = "capping"
      BY <1>1, <2>1 DEF PushReply, PushUnsent, PushLost
    <3> QED BY <1>1, <1>3, <3>1 DEF Capping
  <2>2. CASE RPush(p)
    <3>1. Capping' = Capping \cup {p} /\ p \notin Capping
      BY <1>1, <2>2 DEF RPush, Capping
    <3>2. Len(queue') = Len(queue) + 1
      BY <1>1, <2>2 DEF RPush
    <3>3. IsFiniteSet(Capping') /\ Cardinality(Capping') = Cardinality(Capping) + 1
      BY <1>2, <3>1, FS_AddElement
    <3> QED BY <1>1, <1>2, <3>2, <3>3, DepthAssumption DEF BoundInv
  <2>3. CASE LTrim(p)
    <3>1. Capping' \subseteq Capping
      BY <1>1, <2>3 DEF LTrim, Capping
    <3>2. IsFiniteSet(Capping') /\ Cardinality(Capping') \in Nat
      BY <1>2, <3>1, FS_Subset, FS_CardinalityType
    <3>3. Excess(queue) \in Nat
      BY <1>1, DepthAssumption DEF Excess
    <3>4. Len(queue') = Len(queue) - Smaller(Excess(queue), Len(queue))
      BY <2>3, <3>3, ListTrimmed DEF LTrim
    <3>5. Len(queue') <= MaxQueueDepth /\ Len(queue') \in Nat
      BY <1>1, <3>4, DepthAssumption DEF Excess, Smaller
    <3> QED BY <3>2, <3>5, DepthAssumption DEF BoundInv
  <2> QED BY <1>4, <2>1, <2>2, <2>3 DEF PushStep
<1>5. ASSUME NEW s \in Streams,
             \/ LoopStep(s) \/ Connect(s) \/ BreakerElapse(s)
             \/ ClientGone(s) \/ ContextCancel(s) \/ Crash(s)
      PROVE  BoundInv'
  <2>1. push' = push /\ log' = log /\ (queue' = queue \/ DrainTrim(s))
    BY <1>5, StreamLeavesList
  <2>2. Capping' = Capping
    BY <2>1 DEF Capping
  <2>3. CASE DrainTrim(s)
    <3>1. Len(queue') = Len(queue) - Smaller(BatchSize, Len(queue))
      BY <2>3, BatchAssumption, ListTrimmed DEF DrainTrim
    <3>2. Len(queue') <= Len(queue) /\ Len(queue') \in Nat
      BY <1>1, <3>1, BatchAssumption DEF Smaller
    <3> QED BY <1>3, <2>2, <3>2
  <2> QED BY <1>1, <1>3, <2>1, <2>2, <2>3
<1>6. CASE UNCHANGED vars
  BY <1>1, <1>3, <1>6 DEF vars, Capping
<1> QED BY <1>4, <1>5, <1>6 DEF Next

(***************************************************************************)
(* Push (RPUSH, LTRIM -max -1) keeps the list within MaxQueueDepth but for *)
(* one entry per push that is between its two commands, with any number of *)
(* pushes and drains in between.                                           *)
(***************************************************************************)
THEOREM QueueBoundedHolds == Spec => []QueueBounded
<1>1. Init => BoundInv
  BY BoundInit
<1>2. OrderInv /\ BoundInv /\ [Next]_vars => BoundInv'
  BY BoundStep
<1>3. BoundInv => QueueBounded
  BY DEF BoundInv, QueueBounded, Capping
<1> QED BY <1>1, <1>2, <1>3, OrderInvariant, PTL DEF Spec

(***************************************************************************)
(* The channel.  Every step of a stream hands entries to the client, loses *)
(* entries, or moves nothing, with one exception: the reply of a drain is  *)
(* lost and go-redis drains again (Vanish).                                *)
(***************************************************************************)
LEMMA WholeSequence ==
  ASSUME NEW S, NEW q \in Seq(S)
  PROVE  /\ q \o <<>> = q /\ <<>> \o q = q
         /\ SubSeq(q, 1, Len(q)) = q /\ SubSeq(q, Len(q) + 1, Len(q)) = <<>>
OBVIOUS

\* Handing m frames over, where one frame has moved from d to the buffer b.
LEMMA FrameMoved ==
  ASSUME NEW S, NEW b \in Seq(S), NEW d \in Seq(S), d # <<>>,
         NEW m \in 0..(Len(b) + 1)
  PROVE  LET c == b \o d
             f == Append(b, Head(d))
         IN  /\ First(f, m) = SubSeq(c, 1, m)
             /\ Rest(f, m) \o Tail(d) = SubSeq(c, m + 1, Len(c))
             /\ Len(c) \in Nat /\ m <= Len(c)
<1> DEFINE c == b \o d
           f == Append(b, Head(d))
           t == Tail(d)
<1>1. /\ Len(b) \in Nat /\ Len(d) \in Nat /\ Len(d) >= 1 /\ m \in Nat
      /\ f \in Seq(S) /\ Len(f) = Len(b) + 1
      /\ \A i \in 1..Len(b) : f[i] = b[i]
      /\ f[Len(b) + 1] = d[1]
  OBVIOUS
<1>2. /\ t \in Seq(S) /\ Len(t) = Len(d) - 1
      /\ \A i \in 1..(Len(d) - 1) : t[i] = d[i + 1]
  OBVIOUS
<1>3. /\ c \in Seq(S) /\ Len(c) = Len(b) + Len(d)
      /\ \A i \in 1..Len(b) : c[i] = b[i]
      /\ \A i \in 1..Len(d) : c[Len(b) + i] = d[i]
  OBVIOUS
<1> HIDE DEF c, f, t
<1>4. \A i \in 1..Len(f) : f[i] = c[i]
  <2> SUFFICES ASSUME NEW i \in 1..Len(f) PROVE f[i] = c[i]
    OBVIOUS
  <2>1. CASE i \in 1..Len(b)
    BY <1>1, <1>3, <2>1
  <2>2. CASE i = Len(b) + 1
    BY <1>1, <1>3, <2>2
  <2> QED BY <1>1, <2>1, <2>2
<1>5. First(f, m) = SubSeq(c, 1, m)
  <2>1. /\ First(f, m) \in Seq(S) /\ Len(First(f, m)) = m
        /\ \A i \in 1..m : First(f, m)[i] = f[i]
    BY <1>1, FirstProperties DEF Smaller
  <2>2. /\ SubSeq(c, 1, m) \in Seq(S) /\ Len(SubSeq(c, 1, m)) = m
        /\ \A i \in 1..m : SubSeq(c, 1, m)[i] = c[i]
    BY <1>1, <1>3
  <2>3. \A i \in 1..m : i \in 1..Len(f)
    BY <1>1
  <2> QED BY <1>4, <2>1, <2>2, <2>3, SeqEqual
<1> DEFINE k == Rest(f, m)
           u == k \o t
           v == SubSeq(c, m + 1, Len(c))
<1>6. /\ k \in Seq(S) /\ Len(k) = Len(b) + 1 - m
      /\ \A i \in 1..(Len(b) + 1 - m) : k[i] = f[m + i]
  <2>1. Smaller(m, Len(f)) = m
    BY <1>1 DEF Smaller
  <2>2. /\ k \in Seq(S) /\ Len(k) = Len(f) - Smaller(m, Len(f))
        /\ \A i \in 1..(Len(f) - Smaller(m, Len(f))) : k[i] = f[Smaller(m, Len(f)) + i]
    BY <1>1, RestProperties
  <2>3. Len(f) - Smaller(m, Len(f)) = Len(b) + 1 - m
    BY <1>1, <2>1
  <2> HIDE DEF k
  <2> QED BY <2>1, <2>2, <2>3
<1>7. /\ v \in Seq(S) /\ Len(v) = Len(b) + Len(d) - m
      /\ \A i \in 1..(Len(b) + Len(d) - m) : v[i] = c[m + i]
  BY <1>1, <1>3
<1> HIDE DEF k, v
<1>8. /\ u \in Seq(S) /\ Len(u) = Len(b) + Len(d) - m
      /\ \A i \in 1..Len(k) : u[i] = k[i]
      /\ \A i \in 1..Len(t) : u[Len(k) + i] = t[i]
  <2>1. k \in Seq(S) /\ t \in Seq(S)
    BY <1>2, <1>6
  <2>2. /\ u \in Seq(S) /\ Len(u) = Len(k) + Len(t)
        /\ \A i \in 1..Len(k) : u[i] = k[i]
        /\ \A i \in 1..Len(t) : u[Len(k) + i] = t[i]
    BY <2>1
  <2> HIDE DEF u
  <2>3. Len(k) + Len(t) = Len(b) + Len(d) - m
    <3>1. Len(k) = Len(b) + 1 - m /\ Len(t) = Len(d) - 1 /\ Len(b) \in Nat /\ Len(d) \in Nat
      BY <1>1, <1>2, <1>6
    <3> HIDE DEF k, t
    <3> QED BY <3>1
  <2>4. Len(u) = Len(b) + Len(d) - m
    BY <2>2, <2>3
  <2> QED BY <2>2, <2>4
<1> HIDE DEF u
<1>9. ASSUME NEW i \in 1..Len(u) PROVE u[i] = v[i]
  <2>1. CASE i <= Len(b) + 1 - m
    <3>1. i \in 1..Len(k) /\ m + i \in 1..Len(f) /\ i \in 1..(Len(b) + Len(d) - m)
      BY <1>1, <1>6, <1>8, <2>1
    <3> QED BY <1>4, <1>6, <1>7, <1>8, <3>1
  <2>2. CASE i > Len(b) + 1 - m
    <3> DEFINE j == i - (Len(b) + 1 - m)
    <3>1. /\ j \in 1..(Len(d) - 1) /\ i = Len(k) + j /\ j + 1 \in 1..Len(d)
          /\ m + i = Len(b) + (j + 1) /\ i \in 1..(Len(b) + Len(d) - m)
      BY <1>1, <1>6, <1>8, <2>2
    <3> HIDE DEF j
    <3>2. u[i] = d[j + 1]
      BY <1>2, <1>8, <3>1
    <3>3. v[i] = d[j + 1]
      BY <1>3, <1>7, <3>1
    <3> QED BY <3>2, <3>3
  <2> QED BY <1>1, <1>8, <2>1, <2>2
<1>10. u = v
  BY <1>7, <1>8, <1>9, SeqEqual
<1>11. Len(c) \in Nat /\ m <= Len(c)
  BY <1>1, <1>3
<1> QED BY <1>5, <1>10, <1>11 DEF u, v, k, t, c, f

\* What stream state r holds.
HeldOf(r) == IF r.pc = "ranged" THEN r.buf ELSE r.buf \o r.batch

LEMMA HeldProperties ==
  ASSUME NEW n \in Nat, NEW r \in StreamStates(n), Placed(r)
  PROVE  /\ HeldOf(r) \in Seq(1..n)
         /\ r.batch = <<>> => HeldOf(r) = r.buf
         /\ r.pc = "ranged" => HeldOf(r) = <<>>
         /\ r.pc = "trimmed" => HeldOf(r) = r.batch
<1>1. r.buf \in Seq(1..n) /\ r.batch \in Seq(1..n)
  BY DEF StreamStates
<1>2. r.buf \o r.batch \in Seq(1..n)
  BY <1>1
<1>3. r.buf \o <<>> = r.buf /\ <<>> \o r.batch = r.batch
  BY <1>1, WholeSequence
<1>4. r.pc \in {"ranged", "trimmed"} => r.buf = <<>>
  BY DEF Placed
<1> QED BY <1>1, <1>2, <1>3, <1>4 DEF HeldOf

LEMMA HeldUpdate ==
  ASSUME OrderInv, NEW s \in Streams, NEW q, st' = [st EXCEPT ![s] = q]
  PROVE  /\ held' = [held EXCEPT ![s] = HeldOf(q)]
         /\ HeldOf(q) = HeldOf(st[s]) => held' = held
<1>1. st \in [Streams -> StreamStates(Len(log))]
  BY DEF OrderInv, TypeOK
<1>2. held' = [t \in Streams |-> HeldOf(st'[t])] /\ held = [t \in Streams |-> HeldOf(st[t])]
  BY DEF held, HeldOf
<1>3. \A t \in Streams : st'[t] = IF t = s THEN q ELSE st[t]
  BY <1>1
<1> QED BY <1>2, <1>3

LEMMA HeldTypes ==
  ASSUME OrderInv, NEW s \in Streams
  PROVE  /\ held[s] = HeldOf(st[s]) /\ held[s] \in Seq(1..Len(log))
         /\ st[s].batch = <<>> => held[s] = st[s].buf
         /\ st[s].pc = "ranged" => held[s] = <<>>
         /\ st[s].pc = "trimmed" => held[s] = st[s].batch
<1>1. Len(log) \in Nat /\ st[s] \in StreamStates(Len(log)) /\ Placed(st[s])
  BY OrderTypes DEF StreamOK
<1>2. held[s] = HeldOf(st[s])
  BY DEF held, HeldOf
<1> QED BY <1>1, <1>2, HeldProperties

LEMMA AfterHolds ==
  ASSUME NEW n \in Nat, NEW q \in StreamStates(n), q.batch = <<>>, q.buf = <<>>
  PROVE  HeldOf(After(q)) = <<>> /\ HeldOf(Closed) = <<>>
<1>1. Closed.pc = "off" /\ Closed.batch = <<>> /\ Closed.buf = <<>>
  BY DEF Closed
<1>2. <<>> \o <<>> = <<>>
  OBVIOUS
<1>3. HeldOf(Closed) = <<>>
  BY <1>1, <1>2 DEF HeldOf
<1>4. CASE ~q.final
  <2> DEFINE w == [q EXCEPT !.pc = "wait"]
  <2>1. w.pc = "wait" /\ w.batch = <<>> /\ w.buf = <<>>
    BY DEF StreamStates
  <2> HIDE DEF w
  <2>2. HeldOf(w) = <<>>
    BY <1>2, <2>1 DEF HeldOf
  <2>3. After(q) = w
    BY <1>4 DEF After, w
  <2> QED BY <1>3, <2>2, <2>3
<1> QED BY <1>3, <1>4 DEF After

\* The client receives everything a stream holds, or all of it is lost.
LEMMA HandOrLoseAll ==
  ASSUME OrderInv, NEW s \in Streams, UNCHANGED <<queue, log>>,
         held' = [held EXCEPT ![s] = <<>>],
         \/ got' = got /\ dropped' = dropped \cup ToSet(held[s])
         \/ got' = [got EXCEPT ![s] = @ \o held[s]] /\ dropped' = dropped
  PROVE  \/ UNCHANGED <<held, got, dropped>>
         \/ \E m \in DOMAIN held[s] : C!Hand(s, m) \/ C!Lose(s, m)
<1> DEFINE h == held[s]
<1>1. /\ h \in Seq(1..Len(log)) /\ got \in [Streams -> Seq(1..Len(log))]
      /\ held = [t \in Streams |-> held[t]]
  BY HeldTypes DEF OrderInv, TypeOK, held
<1>2. /\ SubSeq(h, 1, Len(h)) = h /\ SubSeq(h, Len(h) + 1, Len(h)) = <<>>
      /\ got[s] \o <<>> = got[s]
  BY <1>1, WholeSequence
<1> HIDE DEF h
<1>3. CASE h = <<>>
  <2>1. held' = held
    BY <1>1, <1>3 DEF h
  <2>2. dropped' = dropped
    BY <1>3, ToSetEmpty DEF h
  <2>3. got' = got
    <3>1. [got EXCEPT ![s] = got[s] \o held[s]] = got
      BY <1>1, <1>2, <1>3 DEF h
    <3> QED BY <3>1
  <2> QED BY <2>1, <2>2, <2>3
<1>4. CASE h # <<>>
  <2>1. Len(h) \in DOMAIN h
    BY <1>1, <1>4
  <2>2. held' = [held EXCEPT ![s] = C!Suffix(@, Len(h))] /\ C!Prefix(held[s], Len(h)) = held[s]
    BY <1>2 DEF h, C!Suffix, C!Prefix
  <2>3. Len(log)' = Len(log) /\ queue' = queue
    OBVIOUS
  <2>4. CASE got' = got /\ dropped' = dropped \cup ToSet(held[s])
    <3>1. C!Lose(s, Len(h))
      <4>1. C!ToSet(C!Prefix(held[s], Len(h))) = ToSet(held[s])
        BY <2>2 DEF C!ToSet, ToSet
      <4> QED BY <2>2, <2>3, <2>4, <4>1 DEF C!Lose
    <3> QED BY <2>1, <3>1 DEF h
  <2>5. CASE got' = [got EXCEPT ![s] = @ \o held[s]] /\ dropped' = dropped
    <3>1. C!Hand(s, Len(h))
      BY <2>2, <2>3, <2>5 DEF C!Hand
    <3> QED BY <2>1, <3>1 DEF h
  <2> QED BY <2>4, <2>5
<1> QED BY <1>3, <1>4

\* The batch of a drain disappears between Redis and a go-redis that retries.
Vanish(s) ==
    /\ "drain" \in Faults /\ MaxRetries > 0
    /\ held' = [held EXCEPT ![s] = <<>>]
    /\ UNCHANGED <<got, dropped>>

LEMMA ChannelMoves ==
  ASSUME OrderInv, NEW s \in Streams,
         \/ DrainStart(s) \/ BreakerElapse(s) \/ Connect(s) \/ PollTick(s) \/ ContextDone(s)
         \/ ClientGone(s) \/ ContextCancel(s) \/ RegisterInFlight(s) \/ RegisterInFlightError(s)
         \/ DrainRange(s) \/ DrainReply(s) \/ DrainSkip(s) \/ HeartbeatError(s) \/ DrainUnsent(s)
  PROVE  UNCHANGED <<held, got, dropped>>
<1> DEFINE r == st[s]
           n == Len(log)
<1>1. n \in Nat /\ r \in StreamStates(n) /\ Placed(r) /\ st \in [Streams -> StreamStates(n)]
  BY OrderTypes DEF StreamOK, OrderInv, TypeOK
<1>2. /\ r.batch = <<>> => HeldOf(r) = r.buf
      /\ r.pc = "trimmed" => HeldOf(r) = r.batch
  BY <1>1, HeldProperties
<1>3. got' = got /\ dropped' = dropped
  BY DEF DrainStart, BreakerElapse, Connect, PollTick, ContextDone, ClientGone, ContextCancel,
         RegisterInFlight, RegisterInFlightError, DrainRange, DrainReply, DrainSkip,
         HeartbeatError, DrainUnsent
<1>4. ASSUME NEW q, st' = [st EXCEPT ![s] = q], HeldOf(q) = HeldOf(r) PROVE held' = held
  BY <1>4, HeldUpdate
<1> HIDE DEF r, n
<1>5. ASSUME NEW q, q.batch = r.batch, q.buf = r.buf, q.pc = "ranged" <=> r.pc = "ranged"
      PROVE  HeldOf(q) = HeldOf(r)
  BY <1>5 DEF HeldOf
<1>6. CASE DrainStart(s) \/ Connect(s) \/ PollTick(s) \/ ContextDone(s)
           \/ BreakerElapse(s) \/ ClientGone(s) \/ ContextCancel(s)
           \/ RegisterInFlight(s) \/ RegisterInFlightError(s)
  <2>1. PICK q : /\ st' = [st EXCEPT ![s] = q]
                 /\ q.batch = r.batch /\ q.buf = r.buf
                 /\ q.pc = "ranged" <=> r.pc = "ranged"
    <3>1. CASE DrainStart(s)
      <4> DEFINE q == [closeElapsed(r) EXCEPT !.pc = "send"]
      <4>1. st' = [st EXCEPT ![s] = q] /\ r.pc = "drain"
        BY <3>1 DEF DrainStart, r
      <4>2. q.batch = r.batch /\ q.buf = r.buf /\ q.pc = "send"
        <5>1. CASE r.breaker = "elapsed"
          BY <1>1, <5>1 DEF closeElapsed, StreamStates
        <5>2. CASE r.breaker # "elapsed"
          BY <1>1, <5>2 DEF closeElapsed, StreamStates
        <5> QED BY <5>1, <5>2
      <4> HIDE DEF q
      <4> QED BY <4>1, <4>2
    <3>2. CASE Connect(s) \/ PollTick(s) \/ ContextDone(s)
      <4>1. st' = [st EXCEPT ![s] = st'[s]]
        BY <1>1, <3>2 DEF Connect, PollTick, ContextDone
      <4>2. st'[s].batch = r.batch /\ st'[s].buf = r.buf /\ st'[s].pc = "drain" /\ r.pc # "ranged"
        BY <1>1, <3>2 DEF Connect, PollTick, ContextDone, StreamStates, r
      <4> QED BY <4>1, <4>2
    <3>3. CASE BreakerElapse(s) \/ ClientGone(s) \/ ContextCancel(s)
      <4>1. st' = [st EXCEPT ![s] = st'[s]]
        BY <1>1, <3>3 DEF BreakerElapse, ClientGone, ContextCancel
      <4>2. st'[s].batch = r.batch /\ st'[s].buf = r.buf /\ st'[s].pc = r.pc
        BY <1>1, <3>3 DEF BreakerElapse, ClientGone, ContextCancel, StreamStates, r
      <4> QED BY <4>1, <4>2
    <3>4. CASE RegisterInFlight(s) \/ RegisterInFlightError(s)
      <4> DEFINE q == NextFrame(r)
      <4>1. st' = [st EXCEPT ![s] = q] /\ r.pc = "register"
        BY <3>4 DEF RegisterInFlight, RegisterInFlightError, r
      <4>2. q.batch = r.batch /\ q.buf = r.buf /\ q.pc \in {"flush", "write"}
        <5>1. CASE r.batch = <<>>
          BY <1>1, <5>1 DEF NextFrame, StreamStates
        <5>2. CASE r.batch # <<>>
          BY <1>1, <5>2 DEF NextFrame, StreamStates
        <5> QED BY <5>1, <5>2
      <4> HIDE DEF q
      <4> QED BY <4>1, <4>2
    <3> QED BY <1>6, <3>1, <3>2, <3>3, <3>4
  <2> QED BY <1>3, <1>4, <1>5, <2>1
<1>7. CASE DrainRange(s)
  <2> DEFINE b == First(queue, BatchSize)
             q == [r EXCEPT !.pc = "ranged", !.batch = b]
  <2>1. st' = [st EXCEPT ![s] = q] /\ r.pc = "send"
    BY <1>1, <1>7 DEF DrainRange, StreamStates, r
  <2> HIDE DEF b
  <2>2. q.pc = "ranged" /\ q.buf = r.buf
    BY <1>1 DEF StreamStates
  <2> HIDE DEF q
  <2>3. r.batch = <<>>
    BY <1>1, <2>1 DEF Placed
  <2>4. HeldOf(q) = HeldOf(r)
    BY <1>2, <2>2, <2>3 DEF HeldOf
  <2> QED BY <1>3, <1>4, <2>1, <2>4
<1>8. CASE DrainReply(s)
  <2> DEFINE e == [r EXCEPT !.fails = 0, !.breaker = "closed", !.tries = 0]
  <2>1. /\ r.pc = "trimmed"
        /\ st' = [st EXCEPT ![s] = IF e.batch = <<>> THEN After(e) ELSE [e EXCEPT !.pc = "write"]]
    BY <1>8 DEF DrainReply, recordSuccess, r
  <2>2. e \in StreamStates(n) /\ e.batch = r.batch /\ e.buf = r.buf
    <3>1. 0 \in 0..MaxFails /\ 0 \in 0..MaxRetries
      BY FailsAssumption, StreamRetryAssumption
    <3> QED BY <1>1, <3>1 DEF StreamStates
  <2> HIDE DEF e
  <2>3. r.buf = <<>>
    BY <1>1, <2>1 DEF Placed
  <2>4. CASE r.batch = <<>>
    <3>1. HeldOf(After(e)) = <<>>
      BY <1>1, <2>2, <2>3, <2>4, AfterHolds
    <3>2. st' = [st EXCEPT ![s] = After(e)] /\ HeldOf(r) = <<>>
      BY <1>2, <2>1, <2>2, <2>3, <2>4
    <3> QED BY <1>3, <1>4, <3>1, <3>2
  <2>5. CASE r.batch # <<>>
    <3> DEFINE q == [e EXCEPT !.pc = "write"]
    <3>1. st' = [st EXCEPT ![s] = q]
      BY <2>1, <2>2, <2>5
    <3>2. q.batch = r.batch /\ q.buf = r.buf /\ q.pc = "write"
      BY <2>2 DEF StreamStates
    <3> HIDE DEF q
    <3> QED BY <1>3, <1>4, <1>5, <2>1, <3>1, <3>2
  <2> QED BY <2>4, <2>5
<1>9. CASE DrainSkip(s) \/ HeartbeatError(s)
  <2>1. r.pc \in {"drain", "wait"}
        /\ (st' = [st EXCEPT ![s] = After(r)] \/ st' = [st EXCEPT ![s] = Closed])
    BY <1>9 DEF DrainSkip, HeartbeatError, r
  <2>2. r.batch = <<>> /\ r.buf = <<>>
    BY <1>1, <2>1 DEF Placed
  <2>3. HeldOf(After(r)) = HeldOf(r) /\ HeldOf(Closed) = HeldOf(r)
    BY <1>1, <1>2, <2>2, AfterHolds
  <2> QED BY <1>3, <1>4, <2>1, <2>3
<1>10. CASE DrainUnsent(s)
  <2> DEFINE e == [r EXCEPT !.tries = 0]
  <2>1. r.pc = "send" /\ st' = [st EXCEPT ![s] = After(recordFailure(e))]
    BY <1>10 DEF DrainUnsent, r
  <2>2. r.batch = <<>> /\ r.buf = <<>> /\ r.breaker = "closed" /\ r.fails < MaxFails
    BY <1>1, <2>1, OrderTypes DEF Placed, StreamOK, BreakerOK, r
  <2>3. /\ e \in StreamStates(n) /\ e.batch = <<>> /\ e.buf = <<>>
        /\ e.breaker = "closed" /\ e.fails < MaxFails
    <3>1. 0 \in 0..MaxRetries
      BY StreamRetryAssumption
    <3> QED BY <1>1, <2>2, <3>1 DEF StreamStates
  <2> HIDE DEF e
  <2>4. HeldOf(After(recordFailure(e))) = HeldOf(r)
    BY <1>1, <1>2, <2>2, <2>3, FailureOK, AfterHolds
  <2> QED BY <1>3, <1>4, <2>1, <2>4
<1> QED BY <1>6, <1>7, <1>8, <1>9, <1>10

LEMMA ChannelWrite ==
  ASSUME OrderInv, NEW s \in Streams, Write(s)
  PROVE  \/ UNCHANGED <<held, got, dropped>>
         \/ \E m \in DOMAIN held[s] : C!Hand(s, m) \/ C!Lose(s, m)
<1> DEFINE r == st[s]
           n == Len(log)
           h == r.buf \o r.batch
           k == Head(r.batch)
           filled == Append(r.buf, k)
           rest == Tail(r.batch)
<1>1. /\ n \in Nat /\ r \in StreamStates(n) /\ Placed(r)
      /\ got \in [Streams -> Seq(1..n)] /\ held[s] = HeldOf(r)
      /\ held = [t \in Streams |-> held[t]]
  BY OrderTypes, HeldTypes DEF StreamOK, OrderInv, TypeOK, held
<1>2. PICK m \in 0..Len(filled) :
         /\ Deliver(s, First(filled, m))
         /\ st' = [st EXCEPT ![s] = [r EXCEPT !.pc = "register", !.cur = k, !.batch = rest,
                                              !.buf = Rest(filled, m)]]
  BY DEF Write
<1>3. \/ got' = [got EXCEPT ![s] = @ \o First(filled, m)] /\ dropped' = dropped
      \/ got' = got /\ dropped' = dropped \cup ToSet(First(filled, m))
  BY <1>2 DEF Deliver
<1>4. r.pc = "write" /\ UNCHANGED <<queue, log, push, inflight>>
  BY DEF Write
<1> HIDE DEF r, n
<1>5. r.buf \in Seq(1..n) /\ r.batch \in Seq(1..n) /\ r.batch # <<>>
  BY <1>1, <1>4 DEF Placed, StreamStates
<1>6. m \in 0..(Len(r.buf) + 1) /\ h \in Seq(1..n)
  BY <1>2, <1>5
<1>7. /\ First(filled, m) = SubSeq(h, 1, m)
      /\ Rest(filled, m) \o rest = SubSeq(h, m + 1, Len(h))
      /\ m <= Len(h)
  BY <1>5, <1>6, FrameMoved
<1>8. held[s] = h
  BY <1>1, <1>4 DEF HeldOf
<1> DEFINE sent == First(filled, m)
           kept == Rest(filled, m)
           q == [r EXCEPT !.pc = "register", !.cur = k, !.batch = rest, !.buf = kept]
<1>9. held' = [held EXCEPT ![s] = HeldOf(q)]
  BY <1>2, HeldUpdate
<1> HIDE DEF h, k, filled, rest
<1>10. q.pc = "register" /\ q.batch = rest /\ q.buf = kept
  BY <1>1 DEF StreamStates
<1> HIDE DEF q, sent, kept
<1>11. HeldOf(q) = SubSeq(h, m + 1, Len(h))
  BY <1>7, <1>10 DEF HeldOf, kept
<1>12. sent = SubSeq(h, 1, m)
  BY <1>7 DEF sent
<1>13. CASE m = 0
  <2>1. SubSeq(h, 1, Len(h)) = h /\ SubSeq(h, 1, 0) = <<>>
    BY <1>6, WholeSequence
  <2>2. held' = held
    <3>1. HeldOf(q) = h
      BY <1>11, <1>13, <2>1
    <3> QED BY <1>1, <1>8, <1>9, <3>1
  <2>3. sent = <<>>
    BY <1>12, <1>13, <2>1
  <2>4. [got EXCEPT ![s] = got[s] \o sent] = got
    <3>1. got[s] \o <<>> = got[s]
      BY <1>1, WholeSequence
    <3> QED BY <1>1, <2>3, <3>1
  <2> QED BY <1>3, <2>2, <2>3, <2>4, ToSetEmpty DEF sent
<1>14. CASE m # 0
  <2>1. m \in DOMAIN held[s]
    BY <1>6, <1>7, <1>8, <1>14
  <2>2. held' = [held EXCEPT ![s] = C!Suffix(@, m)] /\ C!Prefix(held[s], m) = sent
    BY <1>8, <1>9, <1>11, <1>12 DEF C!Suffix, C!Prefix
  <2>3. Len(log)' = Len(log) /\ queue' = queue
    BY <1>4
  <2>4. CASE got' = got /\ dropped' = dropped \cup ToSet(sent)
    <3>1. C!ToSet(C!Prefix(held[s], m)) = ToSet(sent)
      BY <2>2 DEF C!ToSet, ToSet
    <3>2. C!Lose(s, m)
      BY <2>2, <2>3, <2>4, <3>1 DEF C!Lose
    <3> QED BY <2>1, <3>2
  <2>5. CASE got' = [got EXCEPT ![s] = @ \o sent] /\ dropped' = dropped
    <3>1. C!Hand(s, m)
      BY <2>2, <2>3, <2>5 DEF C!Hand
    <3> QED BY <2>1, <3>1
  <2> QED BY <1>3, <2>4, <2>5 DEF sent
<1> QED BY <1>13, <1>14

LEMMA ChannelEmpties ==
  ASSUME OrderInv, NEW s \in Streams,
         DrainLost(s) \/ WriteError(s) \/ Flush(s) \/ FlushError(s) \/ Crash(s)
  PROVE  \/ UNCHANGED <<held, got, dropped>>
         \/ \E m \in DOMAIN held[s] : C!Hand(s, m) \/ C!Lose(s, m)
         \/ Vanish(s)
<1> DEFINE r == st[s]
           n == Len(log)
<1>1. /\ n \in Nat /\ r \in StreamStates(n) /\ Placed(r) /\ BreakerOK(r)
      /\ held[s] = HeldOf(r)
      /\ r.batch = <<>> => held[s] = r.buf
      /\ r.pc = "trimmed" => held[s] = r.batch
      /\ r.buf \in Seq(1..n) /\ r.batch \in Seq(1..n)
  BY OrderTypes, HeldTypes DEF StreamOK, StreamStates
<1>2. ASSUME NEW q, st' = [st EXCEPT ![s] = q], HeldOf(q) = <<>>
      PROVE  held' = [held EXCEPT ![s] = <<>>]
  BY <1>2, HeldUpdate
<1>3. ASSUME NEW q \in StreamStates(n), q.batch = <<>>, q.buf = <<>>,
             st' = [st EXCEPT ![s] = After(q)]
      PROVE  held' = [held EXCEPT ![s] = <<>>]
  <2>1. HeldOf(After(q)) = <<>>
    BY <1>1, <1>3, AfterHolds
  <2> QED BY <1>2, <1>3, <2>1
<1> HIDE DEF r, n
<1>4. r.pc # "ranged" => ToSet(held[s]) = ToSet(r.buf) \cup ToSet(r.batch)
  <2>1. ToSet(r.buf \o r.batch) = ToSet(r.buf) \cup ToSet(r.batch)
    BY <1>1, ToSetConcat
  <2> QED BY <1>1, <2>1 DEF HeldOf
<1>5. CASE DrainLost(s)
  <2> DEFINE e == [r EXCEPT !.batch = <<>>, !.tries = 0]
  <2>1. /\ r.pc = "trimmed" /\ "drain" \in Faults /\ UNCHANGED <<queue, log, got>>
        /\ \/ /\ r.tries < MaxRetries
              /\ st' = [st EXCEPT ![s] = [e EXCEPT !.pc = "send", !.tries = r.tries + 1]]
              /\ dropped' = dropped
           \/ /\ st' = [st EXCEPT ![s] = After(recordFailure(e))]
              /\ dropped' = dropped \cup ToSet(r.batch)
    BY <1>5 DEF DrainLost, r
  <2>2. r.buf = <<>> /\ r.breaker = "closed" /\ r.fails < MaxFails
    BY <1>1, <2>1 DEF Placed, BreakerOK
  <2>3. /\ e \in StreamStates(n) /\ e.batch = <<>> /\ e.buf = <<>>
        /\ e.breaker = "closed" /\ e.fails < MaxFails
    <3>1. 0 \in 0..MaxRetries /\ <<>> \in Seq(1..n)
      BY StreamRetryAssumption
    <3> QED BY <1>1, <2>2, <3>1 DEF StreamStates
  <2> HIDE DEF e
  <2>4. CASE /\ r.tries < MaxRetries
             /\ st' = [st EXCEPT ![s] = [e EXCEPT !.pc = "send", !.tries = r.tries + 1]]
             /\ dropped' = dropped
    <3> DEFINE q == [e EXCEPT !.pc = "send", !.tries = r.tries + 1]
    <3>1. q.pc = "send" /\ q.batch = <<>> /\ q.buf = <<>>
      BY <2>3 DEF StreamStates
    <3> HIDE DEF q
    <3>2. <<>> \o <<>> = <<>>
      OBVIOUS
    <3>3. HeldOf(q) = <<>>
      BY <3>1, <3>2 DEF HeldOf
    <3>4. held' = [held EXCEPT ![s] = <<>>]
      BY <1>2, <2>4, <3>3 DEF q
    <3>5. MaxRetries > 0
      BY <1>1, <2>4, StreamRetryAssumption DEF StreamStates
    <3> QED BY <2>1, <2>4, <3>4, <3>5 DEF Vanish
  <2>5. CASE /\ st' = [st EXCEPT ![s] = After(recordFailure(e))]
             /\ dropped' = dropped \cup ToSet(r.batch)
    <3>1. held' = [held EXCEPT ![s] = <<>>]
      BY <1>1, <1>3, <2>3, <2>5, FailureOK
    <3>2. dropped' = dropped \cup ToSet(held[s])
      BY <1>1, <2>1, <2>5
    <3> QED BY <2>1, <3>1, <3>2, HandOrLoseAll
  <2> QED BY <2>1, <2>4, <2>5
<1>6. CASE WriteError(s) \/ FlushError(s)
  <2> DEFINE q == [r EXCEPT !.batch = <<>>, !.buf = <<>>, !.link = "broken", !.done = TRUE]
  <2>1. /\ st' = [st EXCEPT ![s] = After(q)] /\ r.pc # "ranged"
        /\ dropped' = dropped \cup ToSet(r.batch) \cup ToSet(r.buf)
    <3>1. CASE WriteError(s)
      BY <3>1 DEF WriteError, r
    <3>2. CASE FlushError(s)
      <4>1. /\ r.pc = "flush" /\ dropped' = dropped \cup ToSet(r.buf)
            /\ st' = [st EXCEPT ![s] = After([r EXCEPT !.buf = <<>>, !.link = "broken", !.done = TRUE])]
        BY <3>2 DEF FlushError, r
      <4>2. r.batch = <<>>
        BY <1>1, <4>1 DEF Placed
      <4>3. [r EXCEPT !.buf = <<>>, !.link = "broken", !.done = TRUE] = q
        BY <1>1, <4>2 DEF StreamStates
      <4>4. dropped' = dropped \cup ToSet(r.batch) \cup ToSet(r.buf)
        BY <4>1, <4>2, ToSetEmpty
      <4> HIDE DEF q
      <4> QED BY <4>1, <4>3, <4>4
    <3> QED BY <1>6, <3>1, <3>2
  <2>2. q \in StreamStates(n) /\ q.batch = <<>> /\ q.buf = <<>>
    <3>1. <<>> \in Seq(1..n)
      OBVIOUS
    <3> QED BY <1>1, <3>1 DEF StreamStates
  <2> HIDE DEF q
  <2>3. held' = [held EXCEPT ![s] = <<>>]
    BY <1>3, <2>1, <2>2
  <2>4. dropped' = dropped \cup ToSet(held[s])
    BY <1>4, <2>1
  <2>5. UNCHANGED <<queue, log, got>>
    BY <1>6 DEF WriteError, FlushError
  <2> QED BY <2>3, <2>4, <2>5, HandOrLoseAll
<1>7. CASE Flush(s)
  <2> DEFINE q == [r EXCEPT !.buf = <<>>]
  <2>1. /\ r.pc = "flush" /\ st' = [st EXCEPT ![s] = After(q)]
        /\ \/ got' = [got EXCEPT ![s] = @ \o r.buf] /\ dropped' = dropped
           \/ got' = got /\ dropped' = dropped \cup ToSet(r.buf)
        /\ UNCHANGED <<queue, log>>
    BY <1>7 DEF Flush, Deliver, r
  <2>2. r.batch = <<>> /\ held[s] = r.buf
    BY <1>1, <2>1 DEF Placed
  <2>3. q \in StreamStates(n) /\ q.batch = <<>> /\ q.buf = <<>>
    <3>1. <<>> \in Seq(1..n)
      OBVIOUS
    <3> QED BY <1>1, <2>2, <3>1 DEF StreamStates
  <2> HIDE DEF q
  <2>4. held' = [held EXCEPT ![s] = <<>>]
    BY <1>3, <2>1, <2>3
  <2> QED BY <2>1, <2>2, <2>4, HandOrLoseAll
<1>8. CASE Crash(s)
  <2>1. /\ st' = [st EXCEPT ![s] = Closed] /\ UNCHANGED <<queue, log, got>> /\ r.pc # "ranged"
        /\ dropped' = dropped \cup ToSet(r.batch) \cup ToSet(r.buf)
    BY <1>8 DEF Crash, r
  <2>2. HeldOf(Closed) = <<>>
    BY DEF Closed, HeldOf
  <2>3. held' = [held EXCEPT ![s] = <<>>]
    BY <1>2, <2>1, <2>2
  <2>4. dropped' = dropped \cup ToSet(held[s])
    BY <1>4, <2>1
  <2> QED BY <2>1, <2>3, <2>4, HandOrLoseAll
<1> QED BY <1>5, <1>6, <1>7, <1>8

LEMMA ChannelStream ==
  ASSUME OrderInv, NEW s \in Streams,
         \/ LoopStep(s) \/ Connect(s) \/ BreakerElapse(s)
         \/ ClientGone(s) \/ ContextCancel(s) \/ Crash(s)
  PROVE  \/ DrainTrim(s)
         \/ UNCHANGED <<held, got, dropped>>
         \/ \E m \in DOMAIN held[s] : C!Hand(s, m) \/ C!Lose(s, m)
         \/ Vanish(s)
BY ChannelMoves, ChannelWrite, ChannelEmpties DEF LoopStep

LEMMA ChannelRPush ==
  ASSUME OrderInv, NEW p \in Pushers, RPush(p)
  PROVE  C!Put
<1>1. held' = held
  BY DEF RPush, held
<1>2. Len(log)' = Len(log) + 1
  BY OrderTypes DEF RPush
<1> QED BY <1>1, <1>2 DEF RPush, C!Put

LEMMA ChannelLTrim ==
  ASSUME OrderInv, NEW p \in Pushers, LTrim(p)
  PROVE  \/ UNCHANGED <<queue, held, got, dropped>>
         \/ \E m \in DOMAIN queue : C!Overflow(m)
<1> DEFINE k == Excess(queue)
<1>1. queue \in Seq(1..Len(log)) /\ Len(queue) \in Nat
  BY OrderTypes
<1>2. k \in 0..Len(queue)
  BY <1>1, DepthAssumption DEF Excess
<1>3. /\ queue' = Rest(queue, k) /\ dropped' = dropped \cup ToSet(First(queue, k))
      /\ UNCHANGED <<log, got>> /\ held' = held
  BY DEF LTrim, held
<1> HIDE DEF k
<1>4. /\ Rest(queue, k) = SubSeq(queue, k + 1, Len(queue))
      /\ First(queue, k) = SubSeq(queue, 1, k)
  BY <1>1, <1>2 DEF Rest, First
<1>5. CASE k = 0
  <2>1. SubSeq(queue, 1, Len(queue)) = queue /\ SubSeq(queue, 1, 0) = <<>>
    BY <1>1, WholeSequence
  <2>2. Rest(queue, k) = queue /\ First(queue, k) = <<>>
    BY <1>4, <1>5, <2>1
  <2> QED BY <1>3, <2>2, ToSetEmpty
<1>6. CASE k # 0
  <2>1. k \in DOMAIN queue
    BY <1>1, <1>2, <1>6
  <2>2. C!ToSet(C!Prefix(queue, k)) = ToSet(First(queue, k))
    BY <1>4 DEF C!ToSet, ToSet, C!Prefix
  <2>3. C!Suffix(queue, k) = Rest(queue, k)
    BY <1>4 DEF C!Suffix
  <2>4. C!Overflow(k)
    BY <1>3, <2>2, <2>3 DEF C!Overflow
  <2> QED BY <2>1, <2>4
<1> QED BY <1>5, <1>6

(***************************************************************************)
(* Pipelines that run through: no other pipeline is under way while a      *)
(* drain is between its commands, so the LTRIM removes exactly the batch.  *)
(***************************************************************************)
WholeDrains ==
    Atomic => \A s \in Streams : st[s].pc = "ranged" =>
        /\ st[s].batch = First(queue, BatchSize)
        /\ \A t \in Streams \ {s} : st[t].pc # "ranged"
        /\ \A p \in Pushers : push[p].pc # "capping"

LEMMA ChannelDrainTrim ==
  ASSUME OrderInv, Atomic, WholeDrains, NEW s \in Streams, DrainTrim(s)
  PROVE  \/ UNCHANGED <<queue, held, got, dropped>>
         \/ \E m \in DOMAIN queue : C!Take(s, m)
<1> DEFINE r == st[s]
           n == Len(log)
           k == Smaller(BatchSize, Len(queue))
           b == First(queue, BatchSize)
           q == [r EXCEPT !.pc = "trimmed"]
<1>1. /\ n \in Nat /\ queue \in Seq(1..n) /\ Len(queue) \in Nat
      /\ st \in [Streams -> StreamStates(n)] /\ r \in StreamStates(n) /\ Placed(r)
      /\ held = [t \in Streams |-> held[t]]
  BY OrderTypes DEF OrderInv, TypeOK, StreamOK, held
<1>2. /\ queue' = Rest(queue, BatchSize) /\ r.pc = "ranged" /\ st' = [st EXCEPT ![s] = q]
      /\ UNCHANGED <<log, got, dropped>>
  BY <1>1 DEF DrainTrim
<1>3. r.batch = b /\ r.buf = <<>> /\ held[s] = <<>>
  BY <1>1, <1>2, HeldTypes DEF WholeDrains, Placed
<1>4. k \in 0..Len(queue)
  BY <1>1, BatchAssumption DEF Smaller
<1>5. b = SubSeq(queue, 1, k) /\ Rest(queue, BatchSize) = SubSeq(queue, k + 1, Len(queue))
  <2>1. CASE BatchSize < Len(queue)
    BY <1>1, <2>1, BatchAssumption DEF Smaller, First, Rest
  <2>2. CASE ~(BatchSize < Len(queue))
    <3>1. k = Len(queue) /\ b = SubSeq(queue, 1, k)
      BY <1>1, <2>2, BatchAssumption DEF Smaller, First
    <3>2. Rest(queue, BatchSize) = <<>> /\ SubSeq(queue, Len(queue) + 1, Len(queue)) = <<>>
      BY <1>1, <2>2, BatchAssumption DEF Rest
    <3> QED BY <3>1, <3>2
  <2> QED BY <2>1, <2>2
<1>6. held' = [held EXCEPT ![s] = HeldOf(q)]
  BY <1>2, HeldUpdate
<1> HIDE DEF r, n, b, k
<1>7. HeldOf(q) = held[s] \o b
  <2>1. q.pc = "trimmed" /\ q.batch = b /\ q.buf = <<>>
    BY <1>1, <1>3 DEF StreamStates
  <2> QED BY <1>3, <2>1 DEF HeldOf
<1> HIDE DEF q
<1>8. CASE k = 0
  <2>1. SubSeq(queue, 1, Len(queue)) = queue /\ SubSeq(queue, 1, 0) = <<>>
    BY <1>1, WholeSequence
  <2>2. Rest(queue, BatchSize) = queue /\ b = <<>>
    BY <1>5, <1>8, <2>1
  <2>3. HeldOf(q) = held[s]
    BY <1>3, <1>7, <2>2
  <2>4. held' = held
    BY <1>1, <1>6, <2>3
  <2> QED BY <1>2, <2>2, <2>4
<1>9. CASE k # 0
  <2>1. k \in DOMAIN queue
    BY <1>1, <1>4, <1>9
  <2>2. C!Prefix(queue, k) = b /\ C!Suffix(queue, k) = Rest(queue, BatchSize)
    BY <1>5 DEF C!Prefix, C!Suffix
  <2>3. C!Take(s, k)
    BY <1>2, <1>6, <1>7, <2>2 DEF C!Take
  <2> QED BY <2>1, <2>3
<1> QED BY <1>8, <1>9

\* A step of stream s other than its LRANGE does not bring it between LRANGE
\* and LTRIM, and there leaves the batch alone.
LEMMA RangedStep ==
  ASSUME OrderInv, NEW s \in Streams,
         \/ LoopStep(s) \/ Connect(s) \/ BreakerElapse(s)
         \/ ClientGone(s) \/ ContextCancel(s) \/ Crash(s)
  PROVE  /\ \A t \in Streams \ {s} : st'[t] = st[t]
         /\ \/ DrainRange(s)
            \/ st'[s].pc = "ranged" => st[s].pc = "ranged" /\ st'[s].batch = st[s].batch
<1> DEFINE r == st[s]
           n == Len(log)
<1>1. r \in StreamStates(n) /\ st \in [Streams -> StreamStates(n)] /\ n \in Nat
  BY OrderTypes DEF StreamOK, OrderInv, TypeOK
<1>2. \A q : After(q).pc = "off" \/ After(q) = [q EXCEPT !.pc = "wait"]
  BY DEF After, Closed
<1> HIDE DEF r, n
<1>3. ASSUME NEW q \in StreamStates(n), st' = [st EXCEPT ![s] = After(q)]
      PROVE  st'[s].pc # "ranged" /\ \A t \in Streams \ {s} : st'[t] = st[t]
  <2>1. [q EXCEPT !.pc = "wait"].pc = "wait"
    BY DEF StreamStates
  <2> QED BY <1>1, <1>2, <1>3, <2>1
<1>4. CASE \/ DrainStart(s) \/ DrainTrim(s) \/ PollTick(s) \/ ContextDone(s) \/ HeartbeatError(s)
           \/ Connect(s) \/ Crash(s)
  <2>1. r.pc # "ranged" \/ DrainTrim(s)
    BY <1>4 DEF DrainStart, PollTick, ContextDone, HeartbeatError, Connect, Crash, r
  <2>2. CASE DrainStart(s)
    <3>1. [closeElapsed(r) EXCEPT !.pc = "send"].pc = "send"
      BY <1>1 DEF closeElapsed, StreamStates
    <3> QED BY <1>1, <2>2, <3>1 DEF DrainStart, r
  <2>3. CASE DrainTrim(s) \/ PollTick(s) \/ ContextDone(s) \/ Connect(s)
    <3>1. CASE DrainTrim(s)
      BY <1>1, <3>1 DEF DrainTrim, StreamStates
    <3>2. CASE PollTick(s) \/ Connect(s)
      BY <1>1, <3>2 DEF PollTick, Connect, StreamStates
    <3>3. CASE ContextDone(s)
      BY <1>1, <3>3 DEF ContextDone, StreamStates
    <3> QED BY <2>3, <3>1, <3>2, <3>3
  <2>4. CASE HeartbeatError(s) \/ Crash(s)
    BY <1>1, <2>4 DEF HeartbeatError, Crash, Closed
  <2> QED BY <1>4, <2>2, <2>3, <2>4
<1>5. CASE BreakerElapse(s) \/ ClientGone(s) \/ ContextCancel(s)
  BY <1>1, <1>5 DEF BreakerElapse, ClientGone, ContextCancel, StreamStates
<1>6. CASE DrainRange(s)
  BY <1>1, <1>6 DEF DrainRange
<1>7. CASE DrainSkip(s)
  BY <1>1, <1>3, <1>7 DEF DrainSkip, r
<1>8. CASE DrainReply(s)
  <2> DEFINE e == [r EXCEPT !.fails = 0, !.breaker = "closed", !.tries = 0]
  <2>1. st' = [st EXCEPT ![s] = IF e.batch = <<>> THEN After(e) ELSE [e EXCEPT !.pc = "write"]]
    BY <1>8 DEF DrainReply, recordSuccess, r
  <2>2. e \in StreamStates(n)
    <3>1. 0 \in 0..MaxFails /\ 0 \in 0..MaxRetries
      BY FailsAssumption, StreamRetryAssumption
    <3> QED BY <1>1, <3>1 DEF StreamStates
  <2> HIDE DEF e
  <2>3. [e EXCEPT !.pc = "write"].pc = "write"
    BY <2>2 DEF StreamStates
  <2> QED BY <1>1, <1>3, <2>1, <2>2, <2>3
<1>9. CASE DrainLost(s) \/ DrainUnsent(s)
  <2>1. \A t \in Streams \ {s} : st'[t] = st[t]
    BY <1>1, <1>9 DEF DrainLost, DrainUnsent
  <2>2. r.pc # "ranged" /\ BreakerOK(r) /\ r.pc \in {"send", "trimmed"}
    BY <1>9, OrderTypes DEF DrainLost, DrainUnsent, r, StreamOK
  <2>3. ASSUME NEW e \in StreamStates(n), e.breaker = "closed", e.fails < MaxFails,
               st' = [st EXCEPT ![s] = After(recordFailure(e))]
        PROVE  st'[s].pc # "ranged"
    BY <1>1, <1>3, <2>3, FailureOK
  <2>4. r.breaker = "closed" /\ r.fails < MaxFails
    BY <2>2 DEF BreakerOK
  <2>5. 0 \in 0..MaxRetries /\ <<>> \in Seq(1..n)
    BY StreamRetryAssumption
  <2>6. CASE DrainUnsent(s)
    <3> DEFINE e == [r EXCEPT !.tries = 0]
    <3>1. e \in StreamStates(n) /\ e.breaker = "closed" /\ e.fails < MaxFails
      BY <1>1, <2>4, <2>5 DEF StreamStates
    <3>2. st' = [st EXCEPT ![s] = After(recordFailure(e))]
      BY <2>6 DEF DrainUnsent, r
    <3> HIDE DEF e
    <3> QED BY <2>1, <2>3, <3>1, <3>2
  <2>7. CASE DrainLost(s)
    <3> DEFINE e == [r EXCEPT !.batch = <<>>, !.tries = 0]
               q == [e EXCEPT !.pc = "send", !.tries = r.tries + 1]
    <3>1. e \in StreamStates(n) /\ e.breaker = "closed" /\ e.fails < MaxFails
      BY <1>1, <2>4, <2>5 DEF StreamStates
    <3>2. st' = [st EXCEPT ![s] = After(recordFailure(e))] \/ st' = [st EXCEPT ![s] = q]
      BY <2>7 DEF DrainLost, r
    <3> HIDE DEF e
    <3>3. q.pc = "send"
      BY <3>1 DEF StreamStates
    <3> HIDE DEF q
    <3> QED BY <1>1, <2>1, <2>3, <3>1, <3>2, <3>3
  <2> QED BY <1>9, <2>6, <2>7
<1>10. CASE Write(s)
  <2>1. PICK k, b, d : st' = [st EXCEPT ![s] = [r EXCEPT !.pc = "register", !.cur = k, !.batch = b, !.buf = d]]
    BY <1>10 DEF Write, r
  <2>2. [r EXCEPT !.pc = "register", !.cur = k, !.batch = b, !.buf = d].pc = "register"
    BY <1>1 DEF StreamStates
  <2> QED BY <1>1, <2>1, <2>2
<1>11. CASE WriteError(s) \/ Flush(s) \/ FlushError(s)
  <2>1. <<>> \in Seq(1..n)
    OBVIOUS
  <2>2. /\ [r EXCEPT !.batch = <<>>, !.buf = <<>>, !.link = "broken", !.done = TRUE] \in StreamStates(n)
        /\ [r EXCEPT !.buf = <<>>] \in StreamStates(n)
        /\ [r EXCEPT !.buf = <<>>, !.link = "broken", !.done = TRUE] \in StreamStates(n)
    BY <1>1, <2>1 DEF StreamStates
  <2>3. CASE WriteError(s)
    BY <1>3, <2>2, <2>3 DEF WriteError, r
  <2>4. CASE Flush(s)
    BY <1>3, <2>2, <2>4 DEF Flush, r
  <2>5. CASE FlushError(s)
    BY <1>3, <2>2, <2>5 DEF FlushError, r
  <2> QED BY <1>11, <2>3, <2>4, <2>5
<1>12. CASE RegisterInFlight(s) \/ RegisterInFlightError(s)
  <2>1. NextFrame(r).pc # "ranged"
    BY <1>1 DEF NextFrame, StreamStates
  <2> QED BY <1>1, <1>12, <2>1 DEF RegisterInFlight, RegisterInFlightError, r
<1> QED BY <1>4, <1>5, <1>6, <1>7, <1>8, <1>9, <1>10, <1>11, <1>12 DEF LoopStep
LEMMA WholeDrainsInit == Init => WholeDrains
BY DEF Init, WholeDrains, Closed

LEMMA WholeDrainsStep == OrderInv /\ WholeDrains /\ [Next]_vars => WholeDrains'
<1> SUFFICES ASSUME OrderInv, Atomic, WholeDrains, [Next]_vars,
                    NEW s \in Streams, st'[s].pc = "ranged"
             PROVE  /\ st'[s].batch = First(queue', BatchSize)
                    /\ \A t \in Streams \ {s} : st'[t].pc # "ranged"
                    /\ \A p \in Pushers : push'[p].pc # "capping"
  BY DEF WholeDrains, First
<1>1. \A t \in Streams : st[t].pc = "ranged" =>
        /\ st[t].batch = First(queue, BatchSize)
        /\ \A u \in Streams \ {t} : st[u].pc # "ranged"
        /\ \A p \in Pushers : push[p].pc # "capping"
  BY DEF WholeDrains
<1>2. /\ st \in [Streams -> StreamStates(Len(log))]
      /\ push \in [Pushers -> [pc : {"new", "capping", "capped", "created", "failed"},
                               tries : 0..MaxRetries]]
  BY DEF OrderInv, TypeOK
<1>3. CASE UNCHANGED vars
  BY <1>1, <1>3 DEF vars
<1>4. ASSUME NEW p \in Pushers, PushStep(p)
      PROVE  /\ UNCHANGED <<queue, st>>
             /\ \A q \in Pushers : push'[q].pc # "capping"
  <2>1. st' = st
    BY <1>4 DEF PushStep, RPush, LTrim, PushReply, PushLost, PushUnsent
  <2>2. st[s].pc = "ranged" /\ \A q \in Pushers : push[q].pc # "capping"
    BY <1>1, <2>1
  <2>3. ~RPush(p) /\ ~LTrim(p)
    BY <2>2 DEF RPush, LTrim, PipelineFree
  <2>4. CASE PushReply(p) \/ PushUnsent(p)
    BY <1>2, <2>1, <2>2, <2>4 DEF PushReply, PushUnsent
  <2>5. CASE PushLost(p)
    <3>1. queue' = queue
      BY <2>5 DEF PushLost
    <3>2. CASE push' = [push EXCEPT ![p] = [pc |-> "new", tries |-> push[p].tries + 1]]
      BY <1>2, <2>1, <2>2, <3>1, <3>2
    <3>3. CASE push' = [push EXCEPT ![p].pc = "failed"]
      BY <1>2, <2>1, <2>2, <3>1, <3>3
    <3> QED BY <2>5, <3>2, <3>3 DEF PushLost
  <2> QED BY <1>4, <2>3, <2>4, <2>5 DEF PushStep
<1>5. ASSUME NEW t \in Streams,
             \/ LoopStep(t) \/ Connect(t) \/ BreakerElapse(t)
             \/ ClientGone(t) \/ ContextCancel(t) \/ Crash(t)
      PROVE  /\ st'[s].batch = First(queue', BatchSize)
             /\ \A u \in Streams \ {s} : st'[u].pc # "ranged"
             /\ \A p \in Pushers : push'[p].pc # "capping"
  <2>1. push' = push /\ (queue' = queue \/ DrainTrim(t)) /\ \A u \in Streams \ {t} : st'[u] = st[u]
    BY <1>5, StreamLeavesList, RangedStep
  <2>2. CASE DrainTrim(t)
    <3>1. st[t].pc = "ranged" /\ st'[t].pc = "trimmed"
      BY <1>2, <2>2 DEF DrainTrim, StreamStates
    <3> QED BY <1>1, <2>1, <3>1
  <2>3. CASE DrainRange(t)
    <3>1. /\ \A p \in Pushers : push[p].pc # "capping"
          /\ \A u \in Streams : st[u].pc # "ranged"
      BY <2>3 DEF DrainRange, PipelineFree
    <3>2. s = t
      BY <2>1, <3>1
    <3>3. queue' = queue /\ st'[t].batch = First(queue, BatchSize)
      BY <1>2, <2>3 DEF DrainRange, StreamStates
    <3> QED BY <2>1, <3>1, <3>2, <3>3
  <2>4. CASE ~DrainTrim(t) /\ ~DrainRange(t)
    <3>1. queue' = queue
      BY <2>1, <2>4
    <3>2. st'[t].pc = "ranged" => st[t].pc = "ranged" /\ st'[t].batch = st[t].batch
      BY <1>5, <2>4, RangedStep
    <3>3. \A u \in Streams : st'[u].pc = "ranged" => st[u].pc = "ranged" /\ st'[u].batch = st[u].batch
      BY <2>1, <3>2
    <3> QED BY <1>1, <2>1, <3>1, <3>3
  <2> QED BY <2>2, <2>3, <2>4
<1>6. ASSUME NEW p \in Pushers, PushStep(p)
      PROVE  /\ st'[s].batch = First(queue', BatchSize)
             /\ \A t \in Streams \ {s} : st'[t].pc # "ranged"
             /\ \A q \in Pushers : push'[q].pc # "capping"
  <2>1. queue' = queue /\ st' = st /\ \A q \in Pushers : push'[q].pc # "capping"
    BY <1>4, <1>6
  <2> QED BY <1>1, <2>1
<1> QED BY <1>3, <1>5, <1>6 DEF Next

LEMMA WholeDrainsInvariant == Spec => [](OrderInv /\ WholeDrains)
<1> QED BY OrderInvariant, WholeDrainsInit, WholeDrainsStep, PTL DEF Spec

\* With pipelines that run through, every step is one of the channel or
\* leaves it alone, except for a batch that vanishes.
LEMMA ChannelStep ==
  ASSUME OrderInv, Atomic, WholeDrains, [Next]_vars
  PROVE  \/ C!Next
         \/ UNCHANGED C!chan
         \/ \E s \in Streams : Vanish(s) /\ UNCHANGED <<queue, log>>
<1>1. CASE UNCHANGED vars
  BY <1>1 DEF vars, C!chan, held
<1>2. ASSUME NEW p \in Pushers, PushStep(p) PROVE C!Next \/ UNCHANGED C!chan
  <2>1. CASE RPush(p)
    BY <2>1, ChannelRPush DEF C!Next
  <2>2. CASE LTrim(p)
    <3>1. log' = log
      BY <2>2 DEF LTrim
    <3> QED BY <2>2, <3>1, ChannelLTrim DEF C!Next, C!chan
  <2>3. CASE PushReply(p) \/ PushLost(p) \/ PushUnsent(p)
    BY <2>3 DEF PushReply, PushLost, PushUnsent, C!chan, held
  <2> QED BY <1>2, <2>1, <2>2, <2>3 DEF PushStep
<1>3. ASSUME NEW s \in Streams,
             \/ LoopStep(s) \/ Connect(s) \/ BreakerElapse(s)
             \/ ClientGone(s) \/ ContextCancel(s) \/ Crash(s)
      PROVE  C!Next \/ UNCHANGED C!chan \/ (Vanish(s) /\ UNCHANGED <<queue, log>>)
  <2>1. log' = log /\ (queue' = queue \/ DrainTrim(s))
    BY <1>3, StreamLeavesList
  <2>2. CASE DrainTrim(s)
    BY <2>1, <2>2, ChannelDrainTrim DEF C!Next, C!chan
  <2>3. CASE ~DrainTrim(s)
    BY <1>3, <2>1, <2>3, ChannelStream DEF C!Next, C!chan
  <2> QED BY <2>2, <2>3
<1> QED BY <1>1, <1>2, <1>3 DEF Next

(***************************************************************************)
(* The go-redis client does not run a drain a second time: no reply of a   *)
(* drain is lost, or its retries are off.                                  *)
(***************************************************************************)
DrainOnce == "drain" \notin Faults \/ MaxRetries = 0

LEMMA ChannelInit == Init => C!Init
<1> SUFFICES ASSUME Init PROVE C!Init
  OBVIOUS
<1>1. \A s \in Streams : st[s].pc = "off" /\ st[s].buf \o st[s].batch = <<>>
  BY DEF Init, Closed
<1>2. held = [s \in Streams |-> <<>>]
  BY <1>1 DEF held
<1> QED BY <1>2 DEF Init, C!Init

(***************************************************************************)
(* When Redis runs pipelines through and no drain is repeated, Push, Drain *)
(* and drainAndFlush implement the channel: entries go from the list       *)
(* through one stream to the client in push order, each at most once, and  *)
(* are lost only at a full list or in the hands of a stream.               *)
(***************************************************************************)
THEOREM ChannelImplemented ==
  ASSUME Atomic, DrainOnce
  PROVE  Spec => ImplementsChannel
<1>1. OrderInv /\ WholeDrains /\ [Next]_vars => [C!Next]_C!chan
  <2>1. \A s \in Streams : ~Vanish(s)
    BY DEF DrainOnce, Vanish
  <2> QED BY <2>1, ChannelStep
<1> QED BY <1>1, ChannelInit, WholeDrainsInvariant, PTL DEF Spec, ImplementsChannel, C!Spec
(***************************************************************************)
(* Entries and their owners: the streams that took them from the list.     *)
(***************************************************************************)
Owned(s) == ToSet(got[s]) \cup ToSet(held[s])

\* No entry has two owners.
Exclusive == \A s, t \in Streams : s # t => Owned(s) \cap Owned(t) = {}

\* Every entry that left the list has an owner or is known to be lost.
Accounted == \A n \in 1..Gone : n \in dropped \/ \E s \in Streams : n \in Owned(s)
LEMMA PrefixSuffix ==
  ASSUME NEW S, NEW q \in Seq(S), NEW m \in DOMAIN q
  PROVE  /\ C!Prefix(q, m) \in Seq(S) /\ C!Suffix(q, m) \in Seq(S) /\ m \in 1..Len(q)
         /\ ToSet(q) = ToSet(C!Prefix(q, m)) \cup ToSet(C!Suffix(q, m))
         /\ \A i \in 1..m : q[i] \in ToSet(C!Prefix(q, m))
         /\ Len(C!Suffix(q, m)) = Len(q) - m
<1>1. m \in 1..Len(q) /\ m \in Nat /\ Len(q) \in Nat
  OBVIOUS
<1>2. C!Prefix(q, m) = First(q, m) /\ C!Suffix(q, m) = Rest(q, m)
  BY <1>1 DEF C!Prefix, C!Suffix, First, Rest
<1>3. Smaller(m, Len(q)) = m
  BY <1>1 DEF Smaller
<1>4. /\ First(q, m) \in Seq(S) /\ Len(First(q, m)) = m
      /\ \A i \in 1..m : First(q, m)[i] = q[i]
  BY <1>1, <1>3, FirstProperties
<1>5. \A i \in 1..m : q[i] \in ToSet(First(q, m))
  <2>1. \A i \in 1..Len(First(q, m)) : First(q, m)[i] \in ToSet(First(q, m))
    BY <1>4, ToSetMember
  <2> QED BY <1>4, <2>1
<1>6. Rest(q, m) \in Seq(S) /\ Len(Rest(q, m)) = Len(q) - m
  BY <1>1, <1>3, RestProperties
<1>7. ToSet(q) = ToSet(First(q, m)) \cup ToSet(Rest(q, m))
  BY <1>1, ToSetFirstRest
<1> QED BY <1>1, <1>2, <1>4, <1>5, <1>6, <1>7

LEMMA OwnedTypes ==
  ASSUME OrderInv
  PROVE  /\ got \in [Streams -> Seq(1..Len(log))] /\ held \in [Streams -> Seq(1..Len(log))]
         /\ \A s \in Streams : Owned(s) \subseteq 1..Gone
<1>1. got \in [Streams -> Seq(1..Len(log))]
  BY DEF OrderInv, TypeOK
<1>2. held \in [Streams -> Seq(1..Len(log))]
  <2>1. \A s \in Streams : held[s] \in Seq(1..Len(log))
    BY HeldTypes
  <2>2. held = [s \in Streams |-> held[s]]
    BY DEF held
  <2> QED BY <2>1, <2>2
<1>3. ASSUME NEW s \in Streams PROVE Owned(s) \subseteq 1..Gone
  <2> DEFINE r == st[s]
             n == Len(log)
  <2>1. /\ n \in Nat /\ Gone \in Nat /\ r \in StreamStates(n) /\ Behind(r, got[s], Gone)
        /\ r.buf \in Seq(1..n) /\ r.batch \in Seq(1..n)
    BY OrderTypes DEF StreamOK, StreamStates
  <2> HIDE DEF r, n
  <2>2. UpTo(got[s], Gone) /\ UpTo(r.buf, Gone) /\ (r.pc # "ranged" => UpTo(r.batch, Gone))
    BY <2>1 DEF Behind
  <2>3. held[s] = HeldOf(r)
    BY HeldTypes DEF r
  <2>4. ToSet(r.buf \o r.batch) = ToSet(r.buf) \cup ToSet(r.batch)
    BY <2>1, ToSetConcat
  <2>5. UpTo(held[s], Gone)
    BY <2>2, <2>3, <2>4 DEF HeldOf, UpTo
  <2>6. ToSet(got[s]) \subseteq 1..Len(log) /\ ToSet(held[s]) \subseteq 1..Len(log)
    BY <1>1, <1>2, ToSetMember
  <2>7. \A e \in Owned(s) : e \in 1..Len(log) /\ e <= Gone
    BY <2>2, <2>5, <2>6 DEF Owned, UpTo
  <2> QED BY <2>1, <2>7 DEF n
<1> QED BY <1>1, <1>2, <1>3

\* Only Take gives a stream entries, from the head of the list.
LEMMA OwnedTake ==
  ASSUME OrderInv, NEW s \in Streams, NEW m \in DOMAIN queue, C!Take(s, m)
  PROVE  /\ \A t \in Streams \ {s} : Owned(t)' = Owned(t)
         /\ Owned(s)' = Owned(s) \cup ToSet(C!Prefix(queue, m))
<1>1. held \in [Streams -> Seq(1..Len(log))] /\ got' = got
  BY OwnedTypes DEF C!Take
<1>2. /\ \A t \in Streams \ {s} : held'[t] = held[t]
      /\ held'[s] = held[s] \o C!Prefix(queue, m)
  BY <1>1 DEF C!Take
<1>3. C!Prefix(queue, m) \in Seq(1..Len(log))
  BY OrderTypes, PrefixSuffix
<1>4. ToSet(held[s] \o C!Prefix(queue, m)) = ToSet(held[s]) \cup ToSet(C!Prefix(queue, m))
  BY <1>1, <1>3, ToSetConcat
<1>5. \A t \in Streams : Owned(t)' = ToSet(got[t]) \cup ToSet(held'[t])
  BY <1>1 DEF Owned
<1> QED BY <1>2, <1>4, <1>5 DEF Owned

LEMMA OwnedHand ==
  ASSUME OrderInv, NEW s \in Streams, NEW m \in DOMAIN held[s], C!Hand(s, m)
  PROVE  \A t \in Streams : Owned(t)' = Owned(t)
<1>1. held \in [Streams -> Seq(1..Len(log))] /\ got \in [Streams -> Seq(1..Len(log))]
  BY OwnedTypes
<1>2. /\ \A t \in Streams \ {s} : held'[t] = held[t] /\ got'[t] = got[t]
      /\ held'[s] = C!Suffix(held[s], m)
      /\ got'[s] = got[s] \o C!Prefix(held[s], m)
  BY <1>1 DEF C!Hand
<1>3. /\ C!Prefix(held[s], m) \in Seq(1..Len(log))
      /\ ToSet(held[s]) = ToSet(C!Prefix(held[s], m)) \cup ToSet(C!Suffix(held[s], m))
  BY <1>1, PrefixSuffix
<1>4. ToSet(got[s] \o C!Prefix(held[s], m)) = ToSet(got[s]) \cup ToSet(C!Prefix(held[s], m))
  BY <1>1, <1>3, ToSetConcat
<1>5. \A t \in Streams : Owned(t)' = ToSet(got'[t]) \cup ToSet(held'[t])
  BY DEF Owned
<1> QED BY <1>2, <1>3, <1>4, <1>5 DEF Owned

LEMMA OwnedLose ==
  ASSUME OrderInv, NEW s \in Streams, NEW m \in DOMAIN held[s], C!Lose(s, m)
  PROVE  /\ \A t \in Streams \ {s} : Owned(t)' = Owned(t)
         /\ Owned(s) = Owned(s)' \cup ToSet(C!Prefix(held[s], m))
         /\ dropped' = dropped \cup ToSet(C!Prefix(held[s], m))
<1>1. held \in [Streams -> Seq(1..Len(log))] /\ got' = got
  BY OwnedTypes DEF C!Lose
<1>2. /\ \A t \in Streams \ {s} : held'[t] = held[t]
      /\ held'[s] = C!Suffix(held[s], m)
  BY <1>1 DEF C!Lose
<1>3. ToSet(held[s]) = ToSet(C!Prefix(held[s], m)) \cup ToSet(C!Suffix(held[s], m))
  BY <1>1, PrefixSuffix
<1>4. C!ToSet(C!Prefix(held[s], m)) = ToSet(C!Prefix(held[s], m))
  BY DEF C!ToSet, ToSet
<1>5. dropped' = dropped \cup ToSet(C!Prefix(held[s], m))
  BY <1>4 DEF C!Lose
<1>6. \A t \in Streams : Owned(t)' = ToSet(got[t]) \cup ToSet(held'[t])
  BY <1>1 DEF Owned
<1> QED BY <1>2, <1>3, <1>5, <1>6 DEF Owned

LEMMA OwnedVanish ==
  ASSUME OrderInv, NEW s \in Streams, Vanish(s)
  PROVE  \A t \in Streams : Owned(t)' \subseteq Owned(t)
<1>1. held \in [Streams -> Seq(1..Len(log))] /\ got' = got
  BY OwnedTypes DEF Vanish
<1>2. \A t \in Streams : held'[t] = IF t = s THEN <<>> ELSE held[t]
  BY <1>1 DEF Vanish
<1>3. \A t \in Streams : Owned(t)' = ToSet(got[t]) \cup ToSet(held'[t])
  BY <1>1 DEF Owned
<1> QED BY <1>2, <1>3, ToSetEmpty DEF Owned

\* The entries of the list have no owner yet.
LEMMA QueueUnowned ==
  ASSUME OrderInv
  PROVE  \A e \in ToSet(queue) : e > Gone
<1>1. queue \in Seq(1..Len(log)) /\ Gone \in Nat /\ Len(queue) \in Nat
  BY OrderTypes
<1>2. \A i \in 1..Len(queue) : queue[i] = Gone + i
  BY DEF OrderInv, ListOK
<1> SUFFICES ASSUME NEW e \in ToSet(queue) PROVE e > Gone
  OBVIOUS
<1>3. PICK i \in 1..Len(queue) : queue[i] = e
  BY <1>1, ToSetMember
<1>4. e = Gone + i
  BY <1>2, <1>3
<1> QED BY <1>1, <1>4

LEMMA ExclusiveStep ==
  ASSUME OrderInv, Atomic, WholeDrains, Exclusive, [Next]_vars
  PROVE  Exclusive'
<1>1. ASSUME \A t \in Streams : Owned(t)' \subseteq Owned(t) PROVE Exclusive'
  <2>1. \A s, t \in Streams : s # t => Owned(s)' \cap Owned(t)' = {}
    BY <1>1 DEF Exclusive
  <2> QED BY <2>1 DEF Exclusive
<1>2. ASSUME UNCHANGED <<held, got>> PROVE Exclusive'
  <2>1. \A t \in Streams : Owned(t)' = Owned(t)
    BY <1>2 DEF Owned
  <2> QED BY <1>1, <2>1
<1>3. ASSUME NEW s \in Streams, NEW m \in DOMAIN queue, C!Take(s, m) PROVE Exclusive'
  <2>1. /\ \A t \in Streams \ {s} : Owned(t)' = Owned(t)
        /\ Owned(s)' = Owned(s) \cup ToSet(C!Prefix(queue, m))
    BY <1>3, OwnedTake
  <2>2. ToSet(C!Prefix(queue, m)) \subseteq ToSet(queue)
    BY OrderTypes, PrefixSuffix
  <2>3. \A t \in Streams : Owned(t) \cap ToSet(queue) = {}
    BY OrderTypes, OwnedTypes, QueueUnowned
  <2>4. \A t, u \in Streams : t # u => Owned(t)' \cap Owned(u)' = {}
    <3> SUFFICES ASSUME NEW t \in Streams, NEW u \in Streams, t # u
                 PROVE  Owned(t)' \cap Owned(u)' = {}
      OBVIOUS
    <3>1. Owned(t) \cap Owned(u) = {}
      BY DEF Exclusive
    <3>2. CASE t = s
      BY <2>1, <2>2, <2>3, <3>1, <3>2
    <3>3. CASE u = s
      BY <2>1, <2>2, <2>3, <3>1, <3>3
    <3>4. CASE t # s /\ u # s
      BY <2>1, <3>1, <3>4
    <3> QED BY <3>2, <3>3, <3>4
  <2> QED BY <2>4 DEF Exclusive
<1>4. ASSUME NEW s \in Streams, NEW m \in DOMAIN held[s], C!Hand(s, m) \/ C!Lose(s, m)
      PROVE  Exclusive'
  <2>1. \A t \in Streams : Owned(t)' \subseteq Owned(t)
    BY <1>4, OwnedHand, OwnedLose
  <2> QED BY <1>1, <2>1
<1>5. CASE C!Next
  BY <1>2, <1>3, <1>4, <1>5 DEF C!Next, C!Put, C!Overflow
<1>6. CASE UNCHANGED C!chan
  BY <1>2, <1>6 DEF C!chan
<1>7. CASE \E s \in Streams : Vanish(s)
  <2>1. \A t \in Streams : Owned(t)' \subseteq Owned(t)
    BY <1>7, OwnedVanish
  <2> QED BY <1>1, <2>1
<1> QED BY <1>5, <1>6, <1>7, ChannelStep
\* The entries that leave the list in one step are the next after Gone.
LEMMA HeadOfQueue ==
  ASSUME OrderInv, NEW m \in DOMAIN queue, queue' = C!Suffix(queue, m), Len(log)' = Len(log)
  PROVE  /\ Gone \in Nat /\ Gone' = Gone + m /\ m \in Nat
         /\ \A n \in 1..Gone' : n \notin 1..Gone => n \in ToSet(C!Prefix(queue, m))
<1>1. /\ queue \in Seq(1..Len(log)) /\ Gone \in Nat /\ Len(queue) \in Nat /\ Len(log) \in Nat
      /\ \A i \in 1..Len(queue) : queue[i] = Gone + i
  BY OrderTypes DEF OrderInv, ListOK
<1>2. /\ m \in 1..Len(queue) /\ Len(queue') = Len(queue) - m
      /\ \A i \in 1..m : queue[i] \in ToSet(C!Prefix(queue, m))
  BY <1>1, PrefixSuffix
<1>3. Gone' = Gone + m
  <2>1. Gone' = Len(log) - Len(queue') /\ Gone = Len(log) - Len(queue)
    BY DEF Gone
  <2>2. Len(queue') = Len(queue) - m /\ m \in Nat
    BY <1>1, <1>2
  <2>3. Len(queue) \in Nat /\ Len(log) \in Nat
    BY <1>1
  <2> QED BY <2>1, <2>2, <2>3
<1>4. ASSUME NEW n \in 1..Gone', n \notin 1..Gone PROVE n \in ToSet(C!Prefix(queue, m))
  <2>1. n - Gone \in 1..m /\ n - Gone \in 1..Len(queue)
    BY <1>1, <1>2, <1>3, <1>4
  <2>2. queue[n - Gone] = Gone + (n - Gone)
    BY <1>1, <2>1
  <2>3. queue[n - Gone] = n
    BY <1>1, <1>3, <2>2
  <2> QED BY <1>2, <2>1, <2>3
<1> QED BY <1>1, <1>2, <1>3, <1>4

LEMMA AccountedStep ==
  ASSUME OrderInv, Atomic, DrainOnce, WholeDrains, Accounted, [Next]_vars
  PROVE  Accounted'
<1> DEFINE Found(n) == n \in dropped \/ \E s \in Streams : n \in Owned(s)
<1>1. Accounted <=> \A n \in 1..Gone : Found(n)
  BY DEF Accounted
<1>2. ASSUME \A n : Found(n) => Found(n)',
             \A n \in 1..Gone' : n \notin 1..Gone => Found(n)'
      PROVE  Accounted'
  <2>1. \A n \in 1..Gone' : Found(n)'
    BY <1>1, <1>2
  <2> QED BY <2>1 DEF Accounted
<1>3. ASSUME UNCHANGED <<held, got>>, dropped \subseteq dropped' PROVE \A n : Found(n) => Found(n)'
  <2>1. \A s \in Streams : Owned(s)' = Owned(s)
    BY <1>3 DEF Owned
  <2> QED BY <1>3, <2>1
<1>4. CASE C!Put
  <2>1. Gone' = Gone
    BY <1>4, OrderTypes DEF C!Put, Gone
  <2>2. UNCHANGED <<held, got>> /\ dropped \subseteq dropped'
    BY <1>4 DEF C!Put
  <2> QED BY <1>2, <1>3, <2>1, <2>2
<1>5. ASSUME NEW m \in DOMAIN queue, C!Overflow(m) PROVE Accounted'
  <2>1. /\ UNCHANGED <<held, got>> /\ queue' = C!Suffix(queue, m) /\ Len(log)' = Len(log)
        /\ dropped' = dropped \cup C!ToSet(C!Prefix(queue, m))
    BY <1>5 DEF C!Overflow
  <2>2. C!ToSet(C!Prefix(queue, m)) = ToSet(C!Prefix(queue, m))
    BY DEF C!ToSet, ToSet
  <2>3. \A n \in 1..Gone' : n \notin 1..Gone => n \in dropped'
    BY <2>1, <2>2, HeadOfQueue
  <2> QED BY <1>2, <1>3, <2>1, <2>3
<1>6. ASSUME NEW s \in Streams, NEW m \in DOMAIN queue, C!Take(s, m) PROVE Accounted'
  <2>1. queue' = C!Suffix(queue, m) /\ Len(log)' = Len(log) /\ dropped' = dropped
    BY <1>6 DEF C!Take
  <2>2. /\ \A t \in Streams \ {s} : Owned(t)' = Owned(t)
        /\ Owned(s)' = Owned(s) \cup ToSet(C!Prefix(queue, m))
    BY <1>6, OwnedTake
  <2>3. \A n \in 1..Gone' : n \notin 1..Gone => n \in Owned(s)'
    BY <2>1, <2>2, HeadOfQueue
  <2>4. \A n : Found(n) => Found(n)'
    BY <2>1, <2>2
  <2> QED BY <1>2, <2>3, <2>4
<1>7. ASSUME NEW s \in Streams, NEW m \in DOMAIN held[s], C!Hand(s, m) \/ C!Lose(s, m)
      PROVE  Accounted'
  <2>1. Gone' = Gone
    BY <1>7 DEF C!Hand, C!Lose, Gone
  <2>2. CASE C!Hand(s, m)
    <3>1. dropped' = dropped /\ \A t \in Streams : Owned(t)' = Owned(t)
      BY <2>2, OwnedHand DEF C!Hand
    <3> QED BY <1>2, <2>1, <3>1
  <2>3. CASE C!Lose(s, m)
    <3>1. /\ \A t \in Streams \ {s} : Owned(t)' = Owned(t)
          /\ Owned(s) = Owned(s)' \cup ToSet(C!Prefix(held[s], m))
          /\ dropped' = dropped \cup ToSet(C!Prefix(held[s], m))
      BY <2>3, OwnedLose
    <3>2. \A n : Found(n) => Found(n)'
      BY <3>1
    <3> QED BY <1>2, <2>1, <3>2
  <2> QED BY <1>7, <2>2, <2>3
<1>8. CASE UNCHANGED C!chan
  <2>1. Gone' = Gone /\ UNCHANGED <<held, got>> /\ dropped \subseteq dropped'
    BY <1>8 DEF C!chan, Gone
  <2> QED BY <1>2, <1>3, <2>1
<1>9. C!Next \/ UNCHANGED C!chan
  <2>1. \A s \in Streams : ~Vanish(s)
    BY DEF DrainOnce, Vanish
  <2> QED BY <2>1, ChannelStep
<1> QED BY <1>4, <1>5, <1>6, <1>7, <1>8, <1>9 DEF C!Next

LEMMA OwnedInit == Init => Exclusive /\ Accounted
<1> SUFFICES ASSUME Init PROVE Exclusive /\ Accounted
  OBVIOUS
<1>1. got = [s \in Streams |-> <<>>] /\ held = [s \in Streams |-> <<>>]
  BY ChannelInit DEF C!Init
<1>2. \A s \in Streams : Owned(s) = {}
  BY <1>1, ToSetEmpty DEF Owned
<1>3. Gone = 0
  BY DEF Init, Gone
<1> QED BY <1>2, <1>3 DEF Exclusive, Accounted

(***************************************************************************)
(* When Redis runs pipelines through, no entry is received twice, at one   *)
(* IP or at two ("no double-delivery", EventRepository.Drain), whatever    *)
(* replies are lost and whichever streams break or crash.                  *)
(***************************************************************************)
THEOREM AtMostOnceHolds ==
  ASSUME Atomic
  PROVE  Spec => []AtMostOnce
<1>1. OrderInv /\ Exclusive => AtMostOnce
  <2> SUFFICES ASSUME OrderInv, Exclusive,
                      NEW s \in Streams, NEW t \in Streams,
                      NEW i \in DOMAIN got[s], NEW j \in DOMAIN got[t], got[s][i] = got[t][j]
               PROVE  s = t /\ i = j
    BY DEF AtMostOnce
  <2>1. /\ got \in [Streams -> Seq(1..Len(log))]
        /\ \A u \in Streams : Increasing(got[u]) /\ got[u] \in Seq(1..Len(log))
    BY OwnedTypes, OrderTypes DEF StreamOK, InOrder
  <2>2. i \in 1..Len(got[s]) /\ j \in 1..Len(got[t])
    BY <2>1
  <2>3. got[s][i] \in Owned(s) /\ got[t][j] \in Owned(t)
    BY <2>1, <2>2, ToSetMember DEF Owned
  <2>4. s = t
    BY <2>3 DEF Exclusive
  <2>5. got[s][i] \in 1..Len(log) /\ got[s][j] \in 1..Len(log)
    BY <2>1, <2>2, <2>4
  <2>6. ~(i < j) /\ ~(j < i)
    BY <2>1, <2>2, <2>4, <2>5 DEF Increasing
  <2> QED BY <2>2, <2>4, <2>6
<1>2. OrderInv /\ WholeDrains /\ Exclusive /\ [Next]_vars => Exclusive'
  BY ExclusiveStep
<1>3. Init => Exclusive
  BY OwnedInit
<1> QED BY <1>1, <1>2, <1>3, WholeDrainsInvariant, PTL DEF Spec

(***************************************************************************)
(* When Redis runs pipelines through and no drain is repeated, every entry *)
(* pushed is in the list, in the hands of a stream, received, or lost for  *)
(* a reason: the cap of Push, a drain, a write or a flush that failed      *)
(* (drainAndFlush, loop.go), a client or an instance that died.            *)
(***************************************************************************)
THEOREM LossAccountedHolds ==
  ASSUME Atomic, DrainOnce
  PROVE  Spec => []LossAccounted
<1>1. OrderInv /\ Accounted => LossAccounted
  <2> SUFFICES ASSUME OrderInv, Accounted, NEW n \in DOMAIN log
               PROVE  \/ n \in ToSet(queue) \cup dropped
                      \/ \E s \in Streams : n \in ToSet(got[s] \o st[s].buf \o st[s].batch)
    BY DEF LossAccounted
  <2>1. /\ n \in 1..Len(log) /\ Len(log) \in Nat /\ Gone \in Nat /\ Len(queue) \in Nat
        /\ queue \in Seq(1..Len(log)) /\ Gone = Len(log) - Len(queue)
    BY OrderTypes DEF Gone
  <2>2. CASE n > Gone
    <3>1. n - Gone \in 1..Len(queue)
      BY <2>1, <2>2
    <3>2. queue[n - Gone] = Gone + (n - Gone)
      BY <3>1 DEF OrderInv, ListOK
    <3>3. queue[n - Gone] = n
      BY <2>1, <3>2
    <3>4. queue[n - Gone] \in ToSet(queue)
      BY <2>1, <3>1, ToSetMember
    <3> QED BY <3>3, <3>4
  <2>3. CASE n <= Gone
    <3>1. n \in 1..Gone
      BY <2>1, <2>3
    <3>2. n \in dropped \/ \E s \in Streams : n \in Owned(s)
      BY <3>1 DEF Accounted
    <3>3. ASSUME NEW s \in Streams, n \in Owned(s)
          PROVE  n \in ToSet(got[s] \o st[s].buf \o st[s].batch)
      <4> DEFINE g == got[s]
                 b == st[s].buf
                 d == st[s].batch
                 S == 1..Len(log)
      <4>1. g \in Seq(S) /\ b \in Seq(S) /\ d \in Seq(S)
        BY OrderTypes DEF StreamOK, StreamStates
      <4>2. held[s] = b \/ held[s] = b \o d
        BY HeldTypes DEF HeldOf
      <4>3. n \in ToSet(g) \cup ToSet(held[s])
        BY <3>3 DEF Owned
      <4> HIDE DEF g, b, d, S
      <4> DEFINE h == g \o b
      <4>4. ToSet(b \o d) = ToSet(b) \cup ToSet(d) /\ ToSet(h) = ToSet(g) \cup ToSet(b)
        BY <4>1, ToSetConcat
      <4>5. h \in Seq(S)
        BY <4>1
      <4> HIDE DEF h
      <4>6. ToSet(h \o d) = ToSet(h) \cup ToSet(d)
        BY <4>1, <4>5, ToSetConcat
      <4>7. n \in ToSet(h \o d)
        BY <4>2, <4>3, <4>4, <4>6
      <4> QED BY <4>7 DEF h, g, b, d
    <3> QED BY <3>2, <3>3
  <2> QED BY <2>1, <2>2, <2>3
<1>2. OrderInv /\ WholeDrains /\ Accounted /\ [Next]_vars => Accounted'
  BY AccountedStep
<1>3. Init => Accounted
  BY OwnedInit
<1> QED BY <1>1, <1>2, <1>3, WholeDrainsInvariant, PTL DEF Spec
=============================================================================
