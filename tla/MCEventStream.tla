--------------------------- MODULE MCEventStream ---------------------------
(***************************************************************************)
(* Instances of EventStream for TLC.                                       *)
(***************************************************************************)
EXTENDS EventStream

Symmetry == Permutations(Pushers) \cup Permutations(Streams)
=============================================================================
