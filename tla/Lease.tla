------------------------------- MODULE Lease -------------------------------
(***************************************************************************)
(* What the connection registry promises: every (client, IP) pair is a     *)
(* lease that at most one handler holds at a time.  README.md: "Each user  *)
(* is limited to a single active stream per IP address".                   *)
(***************************************************************************)
CONSTANTS
    Keys,      \* (client, IP) pairs
    Handlers   \* request handlers, over all instances

VARIABLE holders  \* holders[k]: the handlers that hold k

Init == holders = [k \in Keys |-> {}]

\* h takes a key that nobody holds.
Acquire(h, k) ==
    /\ holders[k] = {}
    /\ holders' = [holders EXCEPT ![k] = {h}]

\* The holders of some keys let go: a handler ends, or a process with all
\* its handlers.
Release(ks) == holders' = [k \in Keys |-> IF k \in ks THEN {} ELSE holders[k]]

Next ==
    \/ \E h \in Handlers, k \in Keys : Acquire(h, k)
    \/ \E ks \in SUBSET Keys : Release(ks)

Spec == Init /\ [][Next]_holders
=============================================================================
