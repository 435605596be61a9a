----------------------------- MODULE MCTickets -----------------------------
(***************************************************************************)
(* Instances of Tickets for TLC.                                           *)
(***************************************************************************)
EXTENDS Tickets, TLC

Symmetry == Permutations(Requests) \cup Permutations(Attempts)
                \cup Permutations(Clients) \cup Permutations(IPs)
=============================================================================
