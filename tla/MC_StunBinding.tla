--------------------------- MODULE MC_StunBinding ---------------------------
(* Instances of StunBinding for TLC. *)
EXTENDS StunBinding

\* Identifiers are handles.
MC_Tid == 0 .. (MaxHandle - 1)

\* What the client receives is what the server sends.
MC_Datagram == {AsReceived(r) : r \in Server!ResponseSet}

\* The server knows nobody at first, or knows the client.
MC_Nobody == <<>>

MC_Client == [name \in {Me} |-> Secret]
============================================================================
