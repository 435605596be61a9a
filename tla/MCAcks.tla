------------------------------- MODULE MCAcks -------------------------------
(***************************************************************************)
(* Instances of Acks for TLC.                                              *)
(***************************************************************************)
EXTENDS Acks

\* subject_prefix of config/config.yaml, and a stream made for all of "sse".
SseAcks == <<"sse", "acks">>
AllOfSse == {<<"sse", ">">>}
=============================================================================
