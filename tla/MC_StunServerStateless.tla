----------------------- MODULE MC_StunServerStateless -----------------------
(* Instances of StunServerStateless for TLC: every datagram there is. *)
EXTENDS StunServerStateless, TLC

MC_Requests == RequestSet

\* Users are interchangeable, and passwords.
MC_Symmetry == Permutations(User) \cup Permutations(Password)
=============================================================================
