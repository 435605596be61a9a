------------------------------ MODULE Channel ------------------------------
(***************************************************************************)
(* What event delivery to one client promises: a queue whose entries go,   *)
(* in the order they came, to whichever stream asks next, each to at most  *)
(* one stream and at most once.  An entry may be lost, but only to a full  *)
(* queue or in the hands of a stream.                                      *)
(***************************************************************************)
EXTENDS Integers, Sequences, SequencesExt

CONSTANT Streams  \* the streams of the client

VARIABLES
    puts,     \* how many entries have been put; they are numbered from 1
    pending,  \* the queue, oldest first
    held,     \* held[s]: taken by s, not yet handed to the client
    got,      \* got[s]: what the client received at s
    lost      \* entries that will not be received

chan == <<puts, pending, held, got, lost>>

Init ==
    /\ puts = 0
    /\ pending = <<>>
    /\ held = [s \in Streams |-> <<>>]
    /\ got = [s \in Streams |-> <<>>]
    /\ lost = {}

Prefix(seq, n) == SubSeq(seq, 1, n)
Suffix(seq, n) == SubSeq(seq, n + 1, Len(seq))

Put ==
    /\ puts' = puts + 1
    /\ pending' = Append(pending, puts + 1)
    /\ UNCHANGED <<held, got, lost>>

\* The queue is full: its oldest entries go.
Overflow(n) ==
    /\ pending' = Suffix(pending, n)
    /\ lost' = lost \cup ToSet(Prefix(pending, n))
    /\ UNCHANGED <<puts, held, got>>

Take(s, n) ==
    /\ pending' = Suffix(pending, n)
    /\ held' = [held EXCEPT ![s] = @ \o Prefix(pending, n)]
    /\ UNCHANGED <<puts, got, lost>>

Hand(s, n) ==
    /\ held' = [held EXCEPT ![s] = Suffix(@, n)]
    /\ got' = [got EXCEPT ![s] = @ \o Prefix(held[s], n)]
    /\ UNCHANGED <<puts, pending, lost>>

Lose(s, n) ==
    /\ held' = [held EXCEPT ![s] = Suffix(@, n)]
    /\ lost' = lost \cup ToSet(Prefix(held[s], n))
    /\ UNCHANGED <<puts, pending, got>>

Next ==
    \/ Put
    \/ \E n \in DOMAIN pending : Overflow(n)
    \/ \E s \in Streams : \E n \in DOMAIN pending : Take(s, n)
    \/ \E s \in Streams : \E n \in DOMAIN held[s] : Hand(s, n) \/ Lose(s, n)

Spec == Init /\ [][Next]_chan
=============================================================================
