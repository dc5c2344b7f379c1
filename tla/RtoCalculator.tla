--------------------------- MODULE RtoCalculator ---------------------------
(***************************************************************************)
(* Retransmission timeout per network path: ClientUDPRtoCalculator         *)
(* (src/stun/details/stun_client_udp_rto.cpp).                             *)
(*                                                                         *)
(* The calculator has no thread and no clock of its own: the UDP client    *)
(* calls NewRtt or Backoff while it handles a success response and Rto     *)
(* while it creates a transaction.  The three operators are used both by   *)
(* StunClientUDP, which calls them inside its handlers, and by RtoHistory, *)
(* which calls them in any order.                                          *)
(***************************************************************************)
EXTENDS Integers, Sequences, Functions

CONSTANTS Path,             \* network paths (source and target address)
          InitialRto,       \* RtoCalculatorSettings::initial_rto
          HistoryDuration   \* RtoCalculatorSettings::history_duration

ASSUME RtoAssumption ==
    /\ InitialRto \in Nat \ {0}
    /\ HistoryDuration \in Nat

VARIABLES by_path,   \* m_by_path: Data of each path that has a history
          history    \* m_timeline: those paths, the longest not updated first

rtoVars == <<by_path, history>>

\* The value of an absent Maybe<Duration> or Maybe<Timepoint>.
None == -1

\* Data.  SmoothVals is absent when srtt = None, and rttvar means nothing then.
Data == [last_update : Nat, srtt : Nat \cup {None}, rttvar : Nat,
         backoff : Nat \cup {None}]

\* The map f with key k mapped to v.
Assign(f, k, v) == [x \in DOMAIN f \cup {k} |-> IF x = k THEN v ELSE f[x]]

NewData(now) ==
    [last_update |-> now, srtt |-> None, rttvar |-> 0, backoff |-> None]

RtoInit ==
    /\ by_path = <<>>
    /\ history = <<>>

\* rto: the backed-off timeout of the last retransmitted transaction, or the
\* smoothed estimate, or the initial value.
Rto(p) ==
    IF p \notin DOMAIN by_path THEN InitialRto
    ELSE LET d == by_path[p]
         IN  IF d.backoff # None THEN d.backoff
             ELSE IF d.srtt # None THEN d.srtt + 4 * d.rttvar
             ELSE InitialRto

Abs(n) == IF n < 0 THEN -n ELSE n

\* Mutant of Smooth: each term is divided.
SmoothTruncated(d, rtt) ==
    IF d.srtt = None
    THEN [srtt |-> rtt, rttvar |-> rtt \div 2]
    ELSE [srtt |-> 7 * (d.srtt \div 8) + rtt \div 8,
          rttvar |-> (3 * d.rttvar + Abs(d.srtt - rtt)) \div 4]

\* The new SmoothVals of a path, in truncating integer arithmetic.
Smooth(d, rtt) ==
    IF d.srtt = None
    THEN [srtt |-> rtt, rttvar |-> rtt \div 2]
    ELSE [srtt |-> (7 * d.srtt + rtt) \div 8,
          rttvar |-> (3 * d.rttvar + Abs(d.srtt - rtt)) \div 4]

\* IntrusiveList::remove: h without p, which it links at most once.
Unlinked(h, p) ==
    IF p \notin Range(h) THEN h
    ELSE LET m == CHOOSE i \in 1 .. Len(h) : h[i] = p
         IN  SubSeq(h, 1, m - 1) \o SubSeq(h, m + 1, Len(h))

\* Mutants of PushBack: a linked element is linked twice, or is not moved.
PushBackTwice(h, p) == Append(h, p)

PushBackInPlace(h, p) == IF p \in Range(h) THEN h ELSE Append(h, p)

\* IntrusiveList::push_back of an element that may already be linked: it is
\* unlinked first.
PushBack(h, p) == Append(Unlinked(h, p), p)

\* clear_outdated: erase paths from the front of the list while the front one
\* was last updated more than history_duration ago.
Outdated(bp, p, now) == now - bp[p].last_update > HistoryDuration

\* Mutant of FirstKept: one path is erased, without a loop.
FirstKeptOnce(bp, h, now) == IF Outdated(bp, h[1], now) THEN 2 ELSE 1

FirstKept(bp, h, now) ==
    CHOOSE i \in 1..(Len(h) + 1) :
        /\ \A j \in 1..(i - 1) : Outdated(bp, h[j], now)
        /\ i <= Len(h) => ~Outdated(bp, h[i], now)

ClearOutdated(bp, h, now) ==
    LET kept == SubSeq(h, FirstKept(bp, h, now), Len(h))
        gone == Range(SubSeq(h, 1, FirstKept(bp, h, now) - 1))
    IN  /\ history' = kept
        /\ by_path' = Restrict(bp, DOMAIN bp \ gone)

\* new_rtt: a round trip measured without retransmission.
NewRtt(now, p, rtt) ==
    LET old    == IF p \in DOMAIN by_path THEN by_path[p] ELSE NewData(now)
        smooth == Smooth(old, rtt)
        data   == [last_update |-> now, srtt |-> smooth.srtt,
                   rttvar |-> smooth.rttvar, backoff |-> None]
    IN  ClearOutdated(Assign(by_path, p, data), PushBack(history, p), now)

\* backoff: a response came after retransmissions; keep their timeout.  The
\* branch for a new path returns before clear_outdated.
Backoff(now, p, timeout) ==
    IF p \notin DOMAIN by_path
    THEN /\ by_path' = Assign(by_path, p, [NewData(now) EXCEPT !.backoff = timeout])
         /\ history' = Append(history, p)
    ELSE ClearOutdated(
            [by_path EXCEPT ![p].last_update = now, ![p].backoff = timeout],
            PushBack(history, p), now)
=============================================================================
