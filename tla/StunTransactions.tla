-------------------------- MODULE StunTransactions --------------------------
(***************************************************************************)
(* What the UDP client promises its user about transactions, without       *)
(* timers or maps: a transaction is started under a handle never used      *)
(* before, its request is sent a bounded number of times, an outcome of it *)
(* is decided on, and later reported.                                      *)
(*                                                                         *)
(* The promise is weaker than one may expect in two ways.  A request may   *)
(* still be sent after an outcome of its transaction was reported.  And    *)
(* several outcomes may be decided on, and then reported, until the first  *)
(* report closes the transaction.                                          *)
(***************************************************************************)
EXTENDS Naturals

CONSTANTS Handle,    \* handles that may be issued
          MaxSends   \* requests sent per transaction, at most

VARIABLES started,   \* handles issued
          pending,   \* outcomes decided on and not yet reported, per handle
          ended,     \* handles an outcome of which was reported
          sent       \* requests sent, per handle

vars == <<started, pending, ended, sent>>

Init ==
    /\ started = {}
    /\ pending = [h \in Handle |-> 0]
    /\ ended = {}
    /\ sent = [h \in Handle |-> 0]

Start(h) ==
    /\ h \notin started
    /\ started' = started \cup {h}
    /\ UNCHANGED <<pending, ended, sent>>

Send(h) ==
    /\ h \in started
    /\ sent[h] < MaxSends
    /\ sent' = [sent EXCEPT ![h] = @ + 1]
    /\ UNCHANGED <<started, pending, ended>>

Decide(h) ==
    /\ h \in started \ ended
    /\ pending' = [pending EXCEPT ![h] = @ + 1]
    /\ UNCHANGED <<started, ended, sent>>

Report(h) ==
    /\ pending[h] > 0
    /\ pending' = [pending EXCEPT ![h] = @ - 1]
    /\ ended' = ended \cup {h}
    /\ UNCHANGED <<started, sent>>

Next == \E h \in Handle : Start(h) \/ Send(h) \/ Decide(h) \/ Report(h)

Spec == Init /\ [][Next]_vars

\* Every transaction that was started has an outcome reported; what else was
\* decided on may remain unreported.
FairSpec ==
    /\ Spec
    /\ \A h \in Handle : WF_vars(Decide(h)) /\ WF_vars(h \notin ended /\ Report(h))
=============================================================================
