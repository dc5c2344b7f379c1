----------------------- MODULE MC_StunClientExample -----------------------
(* Instances of StunClientExample for TLC. *)
EXTENDS StunClientExample

\* Identifiers are handles.
MC_Tid == 0 .. (MaxHandle - 1)

Answer(t, c, e) ==
    [tid |-> t, cls |-> c, integrity |-> "absent", unknown |-> FALSE,
     address |-> IF c = "success" THEN "xor_mapped" ELSE "absent", code |-> e,
     alternate |-> FALSE, reported |-> FALSE]

\* The server answers the first request with an error, the others with success.
MC_Datagrams == {Answer(t, "success", None) : t \in MC_Tid \ {0}}
                \cup {Answer(0, "error", 400), Answer(0, "success", None)}
===========================================================================
