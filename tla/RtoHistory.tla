----------------------------- MODULE RtoHistory -----------------------------
(***************************************************************************)
(* The RTO calculator on its own: any sequence of new_rtt and backoff      *)
(* calls on any paths, at times that never go back.                        *)
(***************************************************************************)
EXTENDS RtoCalculator, FiniteSets

CONSTANTS Rtt,       \* round trips that may be measured
          Timeout,   \* last timeouts of retransmitted transactions
          MaxTime    \* the clock stops here

ASSUME HistoryAssumption ==
    Rtt \subseteq Nat /\ Timeout \subseteq Nat \ {0} /\ MaxTime \in Nat

VARIABLE now

historyVars == <<now, rtoVars>>

HistoryInit == now = 0 /\ RtoInit

HistoryNext ==
    \/ \E p \in Path, rtt \in Rtt : NewRtt(now, p, rtt) /\ UNCHANGED now
    \/ \E p \in Path, t \in Timeout : Backoff(now, p, t) /\ UNCHANGED now
    \/ now < MaxTime /\ now' = now + 1 /\ UNCHANGED rtoVars

HistorySpec == HistoryInit /\ [][HistoryNext]_historyVars

\* The list links every entry of the map exactly once and nothing else: no
\* path is forgotten by clear_outdated() and none is erased twice, although
\* an update of a known path relinks an element that is already in the list.
HistoryLinked ==
    /\ Range(history) = DOMAIN by_path
    /\ Len(history) = Cardinality(DOMAIN by_path)

\* The list is in order of last_update, which is what lets clear_outdated()
\* stop at the first path that is recent enough.
HistorySorted ==
    \A i, j \in 1 .. Len(history) :
        i <= j => by_path[history[i]].last_update <= by_path[history[j]].last_update

\* An update of a path that has a history leaves no outdated path anywhere.
KnownUpdateClears ==
    [][\A p \in DOMAIN by_path :
          p \in DOMAIN by_path' /\ by_path'[p] # by_path[p] =>
              \A q \in DOMAIN by_path' : ~Outdated(by_path', q, now)]_historyVars

\* As long as no round trip is measured as zero, the integer divisions of the
\* smoothing never bring a timeout down to zero, which would make next() send
\* all the requests of a transaction at once.
RtoPositive == 0 \notin Rtt => \A p \in Path : Rto(p) > 0
=============================================================================
