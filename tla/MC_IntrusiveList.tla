-------------------------- MODULE MC_IntrusiveList --------------------------
(* IntrusiveList for TLC. *)
EXTENDS IntrusiveList

\* The loop of clear() ends, and with it an assignment or a destruction.
ClearEnds == call # None ~> call = None
=============================================================================
