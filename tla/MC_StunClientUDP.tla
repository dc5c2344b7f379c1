------------------------- MODULE MC_StunClientUDP -------------------------
(* Instances of StunClientUDP for TLC: the datagrams that may arrive. *)
EXTENDS StunClientUDP, TLC

\* A signed success response with a mapped address; the others differ from it.
Ok(tid) ==
    [tid |-> tid, cls |-> "success", integrity |-> "valid", unknown |-> FALSE,
     address |-> "xor_mapped", code |-> None, alternate |-> FALSE,
     reported |-> FALSE]

Error(tid, code) == [Ok(tid) EXCEPT !.cls = "error", !.address = "absent",
                                    !.code = code]

\* The answers that drive the timers: a result and a server error.
MC_TimerDatagrams == UNION {{Ok(t), Error(t, 500)} : t \in Tid}

\* One datagram for every branch of response() and its handlers, none of them
\* signed with the credentials of the transaction.
Unsigned(m) == [m EXCEPT !.integrity = "absent"]

MC_UnsignedDatagrams ==
    UNION {
        {[Ok(t) EXCEPT !.integrity = "invalid"],
         [Ok(t) EXCEPT !.integrity = "hash_error", !.address = "mapped"]}
        \cup
        {Unsigned(m) : m \in
            {Ok(t),
             [Ok(t) EXCEPT !.cls = "malformed"],
             [Ok(t) EXCEPT !.cls = "other"],
             [Ok(t) EXCEPT !.unknown = TRUE],
             [Ok(t) EXCEPT !.address = "absent"],
             [Error(t, 400) EXCEPT !.unknown = TRUE],
             [Error(t, 300) EXCEPT !.alternate = TRUE],
             [Error(t, 300) EXCEPT !.unknown = TRUE],
             [Error(t, 420) EXCEPT !.reported = TRUE],
             Error(t, None), Error(t, 300), Error(t, 301), Error(t, 420),
             Error(t, 401), Error(t, 500), Error(t, 600)}}
        : t \in Tid}

\* Transaction identifiers are interchangeable.
MC_Symmetry == Permutations(Tid)
============================================================================
