------------------------ MODULE StunClientUDP_proofs ------------------------
(***************************************************************************)
(* Proofs about the STUN client over UDP, for every value of its settings, *)
(* every set of paths, identifiers and datagrams, and every bound: its     *)
(* types, then the invariant that ties the maps, the timeline, the effects *)
(* and the allocated handles together.                                     *)
(***************************************************************************)
EXTENDS StunClientUDP, TLAPS

USE SMTT(100), ZenonT(100)

-----------------------------------------------------------------------------
(* Facts about the operators the model is built from.                      *)

\* What a map looks like with an entry added.
LEMMA AssignType ==
    ASSUME NEW f, NEW K, NEW V, NEW k \in K, NEW v \in V,
           DOMAIN f \subseteq K, \A x \in DOMAIN f : f[x] \in V
    PROVE  /\ DOMAIN Assign(f, k, v) \subseteq K
           /\ \A x \in DOMAIN Assign(f, k, v) : Assign(f, k, v)[x] \in V
BY DEF Assign

\* And restricted to some keys.
LEMMA RestrictLemma ==
    ASSUME NEW f, NEW S
    PROVE  /\ DOMAIN Restrict(f, S) = S
           /\ \A x \in S : Restrict(f, S)[x] = f[x]
BY DEF Restrict

\* The timeout the calculator returns is a duration.
LEMMA RtoType ==
    ASSUME TypeOK, NEW p \in Path
    PROVE  Rto(p) \in Nat
BY RtoAssumption DEF TypeOK, Rto, Data, None

\* Smoothing yields durations.
LEMMA SmoothType ==
    ASSUME NEW d \in Data, NEW rtt \in Nat
    PROVE  Smooth(d, rtt) \in [srtt : Nat, rttvar : Nat]
<1>1. CASE d.srtt = None
  BY <1>1 DEF Smooth
<1>2. CASE d.srtt # None
  <2>1. d.srtt \in Nat /\ d.rttvar \in Nat
    BY <1>2 DEF Data
  <2>2. Abs(d.srtt - rtt) \in Nat
    BY <2>1 DEF Abs
  <2>3. /\ (7 * d.srtt + rtt) \div 8 \in Nat
        /\ (3 * d.rttvar + Abs(d.srtt - rtt)) \div 4 \in Nat
    BY <2>1, <2>2
  <2> QED BY <1>2, <2>3 DEF Smooth
<1> QED BY <1>1, <1>2

\* Erasing paths keeps the type of the others.
LEMMA ClearType ==
    ASSUME NEW bp, NEW h, NEW at, DOMAIN bp \subseteq Path,
           \A p \in DOMAIN bp : bp[p] \in Data,
           ClearOutdated(bp, h, at)
    PROVE  /\ DOMAIN by_path' \subseteq Path
           /\ \A p \in DOMAIN by_path' : by_path'[p] \in Data
<1> DEFINE S == DOMAIN bp \ Range(SubSeq(h, 1, FirstKept(bp, h, at) - 1))
<1>1. by_path' = Restrict(bp, S)
  BY DEF ClearOutdated
<1>2. DOMAIN by_path' = S /\ \A x \in S : by_path'[x] = bp[x]
  BY <1>1, RestrictLemma
<1> QED BY <1>2

\* The updates of the calculator keep the type of its map.
LEMMA NewRttType ==
    ASSUME TypeOK, NEW p \in Path, NEW rtt \in Nat, NewRtt(now, p, rtt)
    PROVE  /\ DOMAIN by_path' \subseteq Path
           /\ \A q \in DOMAIN by_path' : by_path'[q] \in Data
<1> DEFINE old == IF p \in DOMAIN by_path THEN by_path[p] ELSE NewData(now)
           smooth == Smooth(old, rtt)
           data == [last_update |-> now, srtt |-> smooth.srtt,
                    rttvar |-> smooth.rttvar, backoff |-> None]
           bp == Assign(by_path, p, data)
<1>1. old \in Data
  BY DEF TypeOK, NewData, Data
<1>2. smooth \in [srtt : Nat, rttvar : Nat]
  BY <1>1, SmoothType
<1> HIDE DEF smooth
<1>3. data \in Data
  BY <1>2 DEF TypeOK, Data
<1> HIDE DEF data
<1>4. DOMAIN bp \subseteq Path /\ \A q \in DOMAIN bp : bp[q] \in Data
  BY <1>3, AssignType, ZenonT(100) DEF TypeOK
<1>5. ClearOutdated(bp, PushBack(history, p), now)
  BY DEF NewRtt, data, smooth
<1> HIDE DEF bp
<1> QED BY <1>4, <1>5, ClearType

\* backoff() keeps the type of the history.
LEMMA BackoffType ==
    ASSUME TypeOK, NEW p \in Path, NEW t \in Nat, Backoff(now, p, t)
    PROVE  /\ DOMAIN by_path' \subseteq Path
           /\ \A q \in DOMAIN by_path' : by_path'[q] \in Data
<1>1. CASE p \notin DOMAIN by_path
  <2> DEFINE d == [NewData(now) EXCEPT !.backoff = t]
  <2>1. d \in Data
    BY DEF TypeOK, NewData, Data
  <2>2. by_path' = Assign(by_path, p, d)
    BY <1>1 DEF Backoff
  <2> HIDE DEF d
  <2>3. /\ DOMAIN Assign(by_path, p, d) \subseteq Path
        /\ \A q \in DOMAIN Assign(by_path, p, d) : Assign(by_path, p, d)[q] \in Data
    BY <2>1, AssignType DEF TypeOK
  <2> QED BY <2>2, <2>3
<1>2. CASE p \in DOMAIN by_path
  <2> DEFINE bp == [by_path EXCEPT ![p].last_update = now, ![p].backoff = t]
  <2>1. DOMAIN bp \subseteq Path /\ \A q \in DOMAIN bp : bp[q] \in Data
    <3>1. DOMAIN bp = DOMAIN by_path
      OBVIOUS
    <3>2. \A q \in DOMAIN by_path : q # p => bp[q] = by_path[q]
      OBVIOUS
    <3>3. bp[p] = [by_path[p] EXCEPT !.last_update = now, !.backoff = t]
      BY <1>2
    <3>4. bp[p] \in Data
      BY <1>2, <3>3, ZenonT(100) DEF TypeOK, Data
    <3> HIDE DEF bp
    <3> QED BY <3>1, <3>2, <3>4 DEF TypeOK
  <2>2. ClearOutdated(bp, PushBack(history, p), now)
    BY <1>2 DEF Backoff
  <2> HIDE DEF bp
  <2> QED BY <2>1, <2>2, ClearType
<1> QED BY <1>1, <1>2

\* The members of the retransmission algorithm keep their types.
LEMMA NextTimeoutType ==
    ASSUME NEW a \in RetransmitAlgo
    PROVE  NextTimeout(a) \in Nat
BY ClientAssumption DEF RetransmitAlgo, NextTimeout, None

\* RetransmitAlgo::next() counts one request more, or none before its time.
LEMMA AlgoNextType ==
    ASSUME NEW a \in RetransmitAlgo, NEW at \in Nat
    PROVE  LET b == AlgoNext(a, at)
           IN  /\ b \in RetransmitAlgo
               /\ b.n5xx = a.n5xx
               /\ \/ b = a /\ (a.maybe_next = None \/ at < a.maybe_next)
                  \/ b.maybe_next = None /\ b.rtx_count = a.rtx_count
                  \/ /\ MoreRequests(a) /\ b.rtx_count = a.rtx_count + 1
                     /\ b.maybe_next \in Nat
<1> DEFINE b == AlgoNext(a, at)
<1>1. CASE a.maybe_next = None \/ at < a.maybe_next
  BY <1>1 DEF AlgoNext
<1>2. CASE ~(a.maybe_next = None \/ at < a.maybe_next) /\ ~MoreRequests(a)
  <2>1. b = [a EXCEPT !.maybe_next = None]
    BY <1>2 DEF AlgoNext
  <2> HIDE DEF b
  <2>2. b \in RetransmitAlgo /\ b.n5xx = a.n5xx /\ b.rtx_count = a.rtx_count
    BY <2>1 DEF RetransmitAlgo
  <2>3. b.maybe_next = None
    BY <2>1 DEF RetransmitAlgo
  <2> QED BY <2>2, <2>3 DEF b
<1>3. CASE ~(a.maybe_next = None \/ at < a.maybe_next) /\ MoreRequests(a)
  <2> DEFINE t == NextTimeout(a)
             m == at + t
             r == a.rtx_count + 1
  <2>1. b = [a EXCEPT !.maybe_next = m, !.rtx_count = r, !.last_timeout = t]
    BY <1>3 DEF AlgoNext
  <2>2. t \in Nat /\ r \in Nat
    BY NextTimeoutType DEF RetransmitAlgo
  <2> HIDE DEF t, b
  <2>3. m \in Nat
    BY <2>2
  <2> HIDE DEF m, r
  <2>4. b \in RetransmitAlgo /\ b.n5xx = a.n5xx /\ b.rtx_count = r /\ b.maybe_next = m
    BY <2>1, <2>2, <2>3, ZenonT(100) DEF RetransmitAlgo
  <2> QED BY <1>3, <2>3, <2>4 DEF b, r
<1> QED BY <1>1, <1>2, <1>3

\* A 5xx response is counted and counts no request.
LEMMA Algo5xxType ==
    ASSUME NEW a \in RetransmitAlgo, NEW at \in Nat, Schedules5xx(a)
    PROVE  /\ Algo5xx(a, at) \in RetransmitAlgo
           /\ Algo5xx(a, at).n5xx = a.n5xx + 1
           /\ Algo5xx(a, at).rtx_count = a.rtx_count
<1> DEFINE b == Algo5xx(a, at)
           m == at + ServerErrorTimeout
           n == a.n5xx + 1
<1>1. b = [a EXCEPT !.n5xx = n, !.maybe_next = m]
  BY DEF Algo5xx
<1>2. m \in Nat /\ n \in Nat
  BY ClientAssumption DEF Schedules5xx, RetransmitAlgo
<1> HIDE DEF b, m, n
<1>3. b \in RetransmitAlgo /\ b.n5xx = n /\ b.rtx_count = a.rtx_count
  BY <1>1, <1>2, ZenonT(100) DEF RetransmitAlgo
<1> QED BY <1>3 DEF b, n

-----------------------------------------------------------------------------
(* Type correctness.  A round trip is a duration only because no live      *)
(* transaction was created in the future, hence the second conjunct.       *)

TypeInv ==
    /\ TypeOK
    /\ \A h \in DOMAIN tmap : tmap[h].create_time <= now

\* The handle create() allocates when handles below next_handle are in use.
LEMMA HandleFacts == MaxHandle \in Nat /\ Handle = 0 .. (MaxHandle - 1)
BY ClientAssumption DEF Handle

\* One lemma per action: create() ...
LEMMA CreateType ==
    ASSUME TypeInv, NEW tid \in Tid, NEW p \in Path, NEW auth \in Authenticated,
           Create(tid, p, auth)
    PROVE  TypeInv'
<1> DEFINE h == AllocateHandle
           a == NewRtxAlgo(Rto(p), now)
           t == [tid |-> tid, path |-> p, create_time |-> now, auth |-> auth,
                 rtx_count |-> 0, algo |-> a]
<1>1. a \in RetransmitAlgo /\ a.maybe_next \in Nat
  BY RtoType DEF TypeInv, TypeOK, NewRtxAlgo, RetransmitAlgo
<1>2. /\ h \in Handle
      /\ next_handle' = h + 1
      /\ tid_to_handle' = Assign(tid_to_handle, tid, h)
      /\ tmap' = Assign(tmap, h, t)
      /\ effects' = Append(effects, SendData(h))
      /\ timeline' = timeline \cup {<<a.maybe_next, h>>}
  BY DEF Create, AllocateRtxAlgo
<1> HIDE DEF h, a
<1>3. t \in Transaction
  BY <1>1, ClientAssumption DEF TypeInv, TypeOK, Transaction
<1>4. t.create_time = now
  OBVIOUS
<1> HIDE DEF t
<1>5. next_handle' \in 0 .. MaxHandle
  BY <1>2, HandleFacts
<1>6. /\ DOMAIN tid_to_handle' \subseteq Tid
      /\ \A x \in DOMAIN tid_to_handle' : tid_to_handle'[x] \in Handle
  BY <1>2, AssignType, ZenonT(100) DEF TypeInv, TypeOK
<1>7. /\ DOMAIN tmap' \subseteq Handle
      /\ \A x \in DOMAIN tmap' : tmap'[x] \in Transaction
  BY <1>2, <1>3, AssignType, ZenonT(100) DEF TypeInv, TypeOK
<1>8. ASSUME NEW x \in DOMAIN tmap' PROVE tmap'[x].create_time <= now
  <2>1. CASE x = h
    <3>1. tmap'[x] = t
      BY <1>2, <2>1 DEF Assign
    <3> QED BY <3>1, <1>4 DEF TypeInv, TypeOK
  <2>2. CASE x # h
    <3>1. x \in DOMAIN tmap /\ tmap'[x] = tmap[x]
      BY <1>2, <2>2 DEF Assign
    <3> QED BY <3>1 DEF TypeInv
  <2> QED BY <2>1, <2>2
<1>9. SendData(h) \in EffectSet
  BY <1>2, ZenonT(100) DEF SendData, Effect, EffectSet, Reason
<1>10. effects' \in Seq(EffectSet)
  BY <1>2, <1>9 DEF TypeInv, TypeOK
<1>11. timeline' \subseteq Nat \X Handle
  BY <1>1, <1>2 DEF TypeInv, TypeOK
<1>12. UNCHANGED <<now, busy, returned, sent, ended, by_path, history>>
  BY DEF Create, rtoVars
<1> QED BY <1>5, <1>6, <1>7, <1>8, <1>10, <1>11, <1>12 DEF TypeInv, TypeOK

\* response() either changes nothing, or queues one outcome of a live
\* transaction, or lets one retransmit after a server error.
LEMMA ResponseStep ==
    ASSUME TypeInv, NEW m \in Datagram, Response(m)
    PROVE  /\ UNCHANGED <<now, next_handle, tid_to_handle, timeline, busy, returned,
                          sent, ended>>
           /\ DOMAIN by_path' \subseteq Path
           /\ \A p \in DOMAIN by_path' : by_path'[p] \in Data
           /\ \/ tmap' = tmap /\ effects' = effects
              \/ /\ tmap' = tmap
                 /\ \E x \in EffectSet : /\ x.hnd \in DOMAIN tmap
                                         /\ IsOutcome(x)
                                         /\ effects' = Append(effects, x)
              \/ /\ effects' = effects
                 /\ \E h \in DOMAIN tmap :
                       /\ Schedules5xx(tmap[h].algo)
                       /\ tmap' = [tmap EXCEPT ![h].algo = Algo5xx(@, now)]
<1> DEFINE h == tid_to_handle[m.tid]
<1>1. UNCHANGED <<now, next_handle, tid_to_handle, timeline, busy, returned, sent,
                  ended>>
  BY DEF Response
<1>2. CASE ~Handled(m) /\ UNCHANGED <<tmap, effects, rtoVars>>
  BY <1>1, <1>2 DEF TypeInv, TypeOK, rtoVars
<1>3. CASE Handled(m) /\ HandleSuccessResponse(h, m)
  <2> DEFINE rtt == RoundTrip(tmap[h])
  <2>1. h \in DOMAIN tmap /\ h \in Handle
    BY <1>3 DEF Handled, Found, TypeInv, TypeOK
  <2>2. /\ tmap[h].path \in Path
        /\ tmap[h].algo.last_timeout \in Nat
        /\ tmap[h].create_time \in Nat
        /\ now \in Nat
        /\ tmap[h].create_time <= now
    BY <2>1 DEF TypeInv, TypeOK, Transaction, RetransmitAlgo
  <2>3. rtt \in Nat \cup {None}
    BY <2>2 DEF RoundTrip
  <2> HIDE DEF rtt, h
  <2>4. /\ TransactionFailed(h, "UnknownComprehensionRequired") \in EffectSet
        /\ TransactionFailed(h, "Error") \in EffectSet
        /\ TransactionOk(h, rtt) \in EffectSet
    BY <2>1, <2>3 DEF TransactionFailed, TransactionOk, Effect, EffectSet, Reason
  <2>5. \A r : /\ TransactionFailed(h, r).hnd = h /\ IsOutcome(TransactionFailed(h, r))
               /\ TransactionOk(h, r).hnd = h /\ IsOutcome(TransactionOk(h, r))
    BY DEF TransactionFailed, TransactionOk, Effect, IsOutcome
  <2>6. tmap' = tmap
    BY <1>3 DEF HandleSuccessResponse, h
  <2>7. \E x \in EffectSet : x.hnd = h /\ IsOutcome(x) /\ effects' = Append(effects, x)
    <3>1. \/ effects' = Append(effects,
                        TransactionFailed(h, "UnknownComprehensionRequired"))
          \/ effects' = Append(effects, TransactionFailed(h, "Error"))
          \/ effects' = Append(effects, TransactionOk(h, rtt))
      BY <1>3 DEF HandleSuccessResponse, h, rtt
    <3> QED BY <3>1, <2>4, <2>5
  <2>8. /\ DOMAIN by_path' \subseteq Path
        /\ \A p \in DOMAIN by_path' : by_path'[p] \in Data
    <3>1. \/ UNCHANGED rtoVars
          \/ rtt # None /\ NewRtt(now, tmap[h].path, rtt)
          \/ Backoff(now, tmap[h].path, tmap[h].algo.last_timeout)
      BY <1>3 DEF HandleSuccessResponse, h, rtt
    <3>2. CASE UNCHANGED rtoVars
      BY <3>2 DEF TypeInv, TypeOK, rtoVars
    <3>3. CASE rtt # None /\ NewRtt(now, tmap[h].path, rtt)
      BY <3>3, <2>2, <2>3, NewRttType DEF TypeInv
    <3>4. CASE Backoff(now, tmap[h].path, tmap[h].algo.last_timeout)
      BY <3>4, <2>2, BackoffType DEF TypeInv
    <3> QED BY <3>1, <3>2, <3>3, <3>4
  <2> QED BY <1>1, <2>1, <2>6, <2>7, <2>8
<1>4. CASE Handled(m) /\ HandleErrorResponse(h, m)
  <2>1. h \in DOMAIN tmap /\ h \in Handle
    BY <1>4 DEF Handled, Found, TypeInv, TypeOK
  <2> HIDE DEF h
  <2>2. /\ DOMAIN by_path' \subseteq Path
        /\ \A p \in DOMAIN by_path' : by_path'[p] \in Data
    BY <1>4 DEF HandleErrorResponse, TypeInv, TypeOK, rtoVars, h
  <2>3. /\ TransactionFailed(h, ErrorReason(m)) \in EffectSet
        /\ TransactionFailed(h, ErrorReason(m)).hnd = h
        /\ IsOutcome(TransactionFailed(h, ErrorReason(m)))
    <3>1. ErrorReason(m) \in Reason
      BY DEF ErrorReason, Reason
    <3> QED BY <2>1, <3>1 DEF TransactionFailed, Effect, EffectSet, IsOutcome
  <2>4. \/ UNCHANGED <<tmap, effects>>
        \/ /\ Schedules5xx(tmap[h].algo)
           /\ tmap' = [tmap EXCEPT ![h].algo = Algo5xx(@, now)]
           /\ UNCHANGED effects
        \/ /\ effects' = Append(effects, TransactionFailed(h, ErrorReason(m)))
           /\ UNCHANGED tmap
    BY <1>4 DEF HandleErrorResponse, h
  <2> QED BY <1>1, <2>1, <2>2, <2>3, <2>4
<1> QED BY <1>2, <1>3, <1>4 DEF Response

\* ... response() ...
LEMMA ResponseType ==
    ASSUME TypeInv, NEW m \in Datagram, Response(m)
    PROVE  TypeInv'
<1>1. /\ UNCHANGED <<now, next_handle, tid_to_handle, timeline, busy, returned,
                     sent, ended>>
      /\ DOMAIN by_path' \subseteq Path
      /\ \A p \in DOMAIN by_path' : by_path'[p] \in Data
  BY ResponseStep
<1>2. CASE tmap' = tmap /\ effects' \in Seq(EffectSet)
  BY <1>1, <1>2 DEF TypeInv, TypeOK
<1>3. ASSUME effects' = effects, NEW h \in DOMAIN tmap, Schedules5xx(tmap[h].algo),
             tmap' = [tmap EXCEPT ![h].algo = Algo5xx(@, now)]
      PROVE  TypeInv'
  <2> DEFINE b == Algo5xx(tmap[h].algo, now)
  <2>1. tmap[h] \in Transaction /\ now \in Nat
    BY DEF TypeInv, TypeOK
  <2>2. b \in RetransmitAlgo
    BY <1>3, <2>1, Algo5xxType DEF Transaction
  <2>3. tmap' = [tmap EXCEPT ![h].algo = b]
    BY <1>3
  <2> HIDE DEF b
  <2>4. /\ DOMAIN tmap' = DOMAIN tmap
        /\ \A x \in DOMAIN tmap : /\ tmap'[x] \in Transaction
                                  /\ tmap'[x].create_time = tmap[x].create_time
    BY <2>2, <2>3, ZenonT(100) DEF TypeInv, TypeOK, Transaction
  <2> QED BY <1>1, <1>3, <2>4, ZenonT(100) DEF TypeInv, TypeOK
<1>4. effects \in Seq(EffectSet) /\ \A x \in EffectSet : Append(effects, x) \in Seq(EffectSet)
  BY DEF TypeInv, TypeOK
<1>5. \/ tmap' = tmap /\ effects' \in Seq(EffectSet)
      \/ /\ effects' = effects
         /\ \E h \in DOMAIN tmap :
               /\ Schedules5xx(tmap[h].algo)
               /\ tmap' = [tmap EXCEPT ![h].algo = Algo5xx(@, now)]
  BY <1>4, ResponseStep
<1> QED BY <1>2, <1>3, <1>5

\* An iteration of the loop of next() drops the entry of a transaction that is
\* gone, retransmits, or gives up.
LEMMA PopStep ==
    ASSUME TypeInv, NEW e \in timeline, NextPop(e)
    PROVE  /\ e[2] \in Handle /\ e[1] \in Nat /\ e = <<e[1], e[2]>>
           /\ e[1] <= now
           /\ busy' = TRUE
           /\ UNCHANGED <<now, next_handle, tid_to_handle, returned, sent, ended,
                          by_path, history>>
           /\ \/ /\ e[2] \notin DOMAIN tmap
                 /\ timeline' = timeline \ {e}
                 /\ UNCHANGED <<tmap, effects>>
              \/ /\ e[2] \in DOMAIN tmap
                 /\ \E b \in RetransmitAlgo :
                       /\ b = AlgoNext(tmap[e[2]].algo, now)
                       /\ \/ /\ b.maybe_next \in Nat
                             /\ tmap' = [tmap EXCEPT ![e[2]] = [tmap[e[2]] EXCEPT
                                   !.algo = b, !.rtx_count = tmap[e[2]].rtx_count + 1]]
                             /\ timeline' = (timeline \ {e})
                                               \cup {<<b.maybe_next, e[2]>>}
                             /\ effects' = Append(effects, SendData(e[2]))
                          \/ /\ b.maybe_next = None
                             /\ tmap' = [tmap EXCEPT ![e[2]].algo = b]
                             /\ timeline' = timeline \ {e}
                             /\ effects' = Append(effects,
                                             TransactionFailed(e[2], "Timeout"))
<1> DEFINE h == e[2]
           b == AlgoNext(tmap[h].algo, now)
<1>1. h \in Handle /\ e[1] \in Nat /\ e = <<e[1], e[2]>>
  BY DEF TypeInv, TypeOK
<1>2. /\ e[1] <= now /\ busy' = TRUE
      /\ UNCHANGED <<now, next_handle, tid_to_handle, returned, sent, ended,
                     by_path, history>>
  BY DEF NextPop, rtoVars
<1>3. CASE h \notin DOMAIN tmap
  BY <1>1, <1>2, <1>3, ZenonT(100) DEF NextPop
<1>4. CASE h \in DOMAIN tmap
  <2>1. tmap[h].algo \in RetransmitAlgo /\ now \in Nat
    BY <1>4 DEF TypeInv, TypeOK, Transaction
  <2>2. b \in RetransmitAlgo
    BY <2>1, AlgoNextType
  <2>3. b.maybe_next \in Nat \cup {None}
    BY <2>2 DEF RetransmitAlgo
  <2> QED BY <1>1, <1>2, <1>4, <2>2, <2>3, ZenonT(100) DEF NextPop, Rearm
<1> QED BY <1>3, <1>4, ZenonT(100)

\* ... a timer that runs out ...
LEMMA PopType ==
    ASSUME TypeInv, NEW e \in timeline, NextPop(e)
    PROVE  TypeInv'
<1> DEFINE h == e[2]
<1>1. /\ h \in Handle
      /\ busy' = TRUE
      /\ UNCHANGED <<now, next_handle, tid_to_handle, returned, sent, ended,
                     by_path, history>>
  BY PopStep, ZenonT(100)
<1>2. CASE timeline' = timeline \ {e} /\ UNCHANGED <<tmap, effects>>
  BY <1>1, <1>2 DEF TypeInv, TypeOK
<1>3. ASSUME NEW b \in RetransmitAlgo, h \in DOMAIN tmap, b.maybe_next \in Nat,
             tmap' = [tmap EXCEPT ![h] = [tmap[h] EXCEPT
                         !.algo = b, !.rtx_count = tmap[h].rtx_count + 1]],
             timeline' = (timeline \ {e}) \cup {<<b.maybe_next, h>>},
             effects' = Append(effects, SendData(h))
      PROVE  TypeInv'
  <2> DEFINE r == tmap[h].rtx_count + 1
  <2>1. r \in Nat
    BY <1>3 DEF TypeInv, TypeOK, Transaction
  <2>2. tmap' = [tmap EXCEPT ![h] = [tmap[h] EXCEPT !.algo = b, !.rtx_count = r]]
    BY <1>3
  <2> HIDE DEF r
  <2>3. /\ DOMAIN tmap' = DOMAIN tmap
        /\ \A x \in DOMAIN tmap : /\ tmap'[x] \in Transaction
                                  /\ tmap'[x].create_time = tmap[x].create_time
    <3> DEFINE t == [tmap[h] EXCEPT !.algo = b, !.rtx_count = r]
    <3>1. t \in Transaction /\ t.create_time = tmap[h].create_time
      BY <1>3, <2>1, ZenonT(100) DEF TypeInv, TypeOK, Transaction
    <3> HIDE DEF t
    <3>2. tmap' = [tmap EXCEPT ![h] = t]
      BY <2>2 DEF t
    <3> QED BY <1>3, <3>1, <3>2 DEF TypeInv, TypeOK
  <2>4. SendData(h) \in EffectSet
    BY <1>1 DEF SendData, Effect, EffectSet, Reason
  <2>5. effects' \in Seq(EffectSet)
    BY <1>3, <2>4 DEF TypeInv, TypeOK
  <2>6. timeline' \subseteq Nat \X Handle
    BY <1>1, <1>3 DEF TypeInv, TypeOK
  <2> QED BY <1>1, <2>3, <2>5, <2>6, ZenonT(100) DEF TypeInv, TypeOK
<1>4. ASSUME NEW b \in RetransmitAlgo, h \in DOMAIN tmap,
             tmap' = [tmap EXCEPT ![h].algo = b], timeline' = timeline \ {e},
             effects' = Append(effects, TransactionFailed(h, "Timeout"))
      PROVE  TypeInv'
  <2>1. /\ DOMAIN tmap' = DOMAIN tmap
        /\ \A x \in DOMAIN tmap : /\ tmap'[x] \in Transaction
                                  /\ tmap'[x].create_time = tmap[x].create_time
    BY <1>4, ZenonT(100) DEF TypeInv, TypeOK, Transaction
  <2>2. TransactionFailed(h, "Timeout") \in EffectSet
    BY <1>1 DEF TransactionFailed, Effect, EffectSet, Reason
  <2>3. effects' \in Seq(EffectSet)
    BY <1>4, <2>2 DEF TypeInv, TypeOK
  <2>4. timeline' \subseteq Nat \X Handle
    BY <1>4 DEF TypeInv, TypeOK
  <2> QED BY <1>1, <2>1, <2>3, <2>4, ZenonT(100) DEF TypeInv, TypeOK
<1> QED BY <1>2, <1>3, <1>4, PopStep, ZenonT(100)

\* cleanup() removes the transaction, if it is there, from both maps.
LEMMA CleanupStep ==
    ASSUME NEW h, Cleanup(h)
    PROVE  /\ DOMAIN tmap' = DOMAIN tmap \ {h}
           /\ \A x \in DOMAIN tmap' : tmap'[x] = tmap[x]
           /\ DOMAIN tid_to_handle' =
                DOMAIN tid_to_handle \ (IF h \in DOMAIN tmap THEN {tmap[h].tid} ELSE {})
           /\ \A x \in DOMAIN tid_to_handle' : tid_to_handle'[x] = tid_to_handle[x]
<1>1. CASE h \in DOMAIN tmap
  <2>1. /\ tmap' = Restrict(tmap, DOMAIN tmap \ {h})
        /\ tid_to_handle' =
              Restrict(tid_to_handle, DOMAIN tid_to_handle \ {tmap[h].tid})
    BY <1>1 DEF Cleanup
  <2> QED BY <1>1, <2>1 DEF Restrict
<1>2. CASE h \notin DOMAIN tmap
  BY <1>2 DEF Cleanup
<1> QED BY <1>1, <1>2

\* next() returns the first effect of the queue.
LEMMA EffectStep ==
    ASSUME TypeInv, NextEffect
    PROVE  LET e == Head(effects)
           IN  /\ Len(effects) > 0 /\ e = effects[1] /\ e \in EffectSet /\ e.hnd \in Handle
               /\ returned' = e
               /\ effects' \in Seq(EffectSet)
               /\ Len(effects') = Len(effects) - 1
               /\ \A i \in 1 .. Len(effects') : effects'[i] = effects[i + 1]
               /\ busy' = FALSE
               /\ UNCHANGED <<now, next_handle, timeline, by_path, history>>
               /\ sent' \in [Handle -> Nat]
               /\ IF IsOutcome(e)
                  THEN Cleanup(e.hnd) /\ ended' = ended \cup {e.hnd}
                  ELSE UNCHANGED <<tid_to_handle, tmap, ended>>
<1> DEFINE e == Head(effects)
<1>1. effects \in Seq(EffectSet) /\ effects # <<>>
  BY DEF TypeInv, TypeOK, NextEffect
<1>2. Len(effects) > 0 /\ e = effects[1] /\ e \in EffectSet
  BY <1>1
<1>3. e.hnd \in Handle
  BY <1>2 DEF EffectSet
<1>4. /\ effects' = Tail(effects) /\ returned' = e /\ busy' = FALSE
      /\ UNCHANGED <<now, next_handle, timeline, by_path, history>>
      /\ IF IsOutcome(e)
         THEN Cleanup(e.hnd) /\ ended' = ended \cup {e.hnd}
         ELSE UNCHANGED <<tid_to_handle, tmap, ended>>
      /\ sent' = IF e.type = "SendData" THEN [sent EXCEPT ![e.hnd] = @ + 1] ELSE sent
  BY DEF NextEffect, rtoVars
<1> HIDE DEF e
<1>5. /\ effects' \in Seq(EffectSet)
      /\ Len(effects') = Len(effects) - 1
      /\ \A i \in 1 .. Len(effects') : effects'[i] = effects[i + 1]
  BY <1>1, <1>4
<1>6. sent' \in [Handle -> Nat]
  BY <1>3, <1>4 DEF TypeInv, TypeOK
<1> QED BY <1>2, <1>3, <1>4, <1>5, <1>6 DEF e

\* ... an effect handed out ...
LEMMA EffectType ==
    ASSUME TypeInv, NextEffect
    PROVE  TypeInv'
<1> DEFINE e == Head(effects)
<1>1. /\ e \in EffectSet /\ e.hnd \in Handle /\ returned' = e
      /\ effects' \in Seq(EffectSet) /\ busy' = FALSE /\ sent' \in [Handle -> Nat]
      /\ UNCHANGED <<now, next_handle, timeline, by_path, history>>
      /\ IF IsOutcome(e)
         THEN Cleanup(e.hnd) /\ ended' = ended \cup {e.hnd}
         ELSE UNCHANGED <<tid_to_handle, tmap, ended>>
  BY EffectStep
<1> HIDE DEF e
<1>2. returned' \in [type : {"SendData", "TransactionOk", "TransactionFailed",
                              "Sleep", "Idle"},
                     hnd : Handle \cup {None}, reason : Reason, dur : Nat \cup {None}]
  BY <1>1 DEF EffectSet
<1>3. /\ DOMAIN tmap' \subseteq DOMAIN tmap
      /\ \A x \in DOMAIN tmap' : tmap'[x] = tmap[x]
      /\ DOMAIN tid_to_handle' \subseteq DOMAIN tid_to_handle
      /\ \A x \in DOMAIN tid_to_handle' : tid_to_handle'[x] = tid_to_handle[x]
  <2>1. CASE IsOutcome(e)
    BY <1>1, <2>1, CleanupStep, ZenonT(100)
  <2>2. CASE ~IsOutcome(e)
    BY <1>1, <2>2
  <2> QED BY <2>1, <2>2
<1>4. ended' \subseteq Handle
  BY <1>1 DEF TypeInv, TypeOK
<1> QED BY <1>1, <1>2, <1>3, <1>4, ZenonT(100) DEF TypeInv, TypeOK

\* ... nothing to do but wait ...
LEMMA WaitType ==
    ASSUME TypeInv, NextWait
    PROVE  TypeInv'
<1>1. /\ busy' = FALSE
      /\ UNCHANGED <<now, next_handle, tid_to_handle, tmap, timeline, effects, sent,
                     ended, by_path, history>>
  BY DEF NextWait, rtoVars
<1>2. \E d \in Nat : returned' = Idle \/ returned' = Sleep(d)
  <2>1. CASE returned' = Idle
    BY <2>1
  <2>2. ASSUME NEW e \in timeline, returned' = Sleep(e[1] - now)
        PROVE  \E d \in Nat : returned' = Sleep(d)
    <3>1. e[1] \in Nat /\ now \in Nat /\ now < e[1]
      BY DEF TypeInv, TypeOK, NextWait, NothingDue
    <3> QED BY <2>2, <3>1
  <2> QED BY <2>1, <2>2 DEF NextWait
<1>3. returned' \in [type : {"SendData", "TransactionOk", "TransactionFailed",
                              "Sleep", "Idle"},
                     hnd : Handle \cup {None}, reason : Reason, dur : Nat \cup {None}]
  <2>1. "" \in Reason
    BY DEF Reason
  <2>2. PICK d \in Nat : returned' = Idle \/ returned' = Sleep(d)
    BY <1>2
  <2>3. CASE returned' = Idle
    BY <2>1, <2>3, ZenonT(100) DEF Idle, Effect
  <2>4. CASE returned' = Sleep(d)
    BY <2>1, <2>4, ZenonT(100) DEF Sleep, Effect
  <2> QED BY <2>2, <2>3, <2>4
<1> QED BY <1>1, <1>3, ZenonT(100) DEF TypeInv, TypeOK

\* ... and time passing.
LEMMA TickType ==
    ASSUME TypeInv, Tick
    PROVE  TypeInv'
<1>1. /\ now' = now + 1
      /\ UNCHANGED <<next_handle, tid_to_handle, tmap, timeline, effects, busy,
                     returned, sent, ended, by_path, history>>
  BY DEF Tick, rtoVars
<1>2. now \in Nat /\ \A h \in DOMAIN tmap : /\ tmap[h].create_time \in Nat
                                          /\ tmap[h].create_time <= now
  BY DEF TypeInv, TypeOK, Transaction
<1>3. now' \in Nat /\ \A h \in DOMAIN tmap' : tmap'[h].create_time <= now'
  BY <1>1, <1>2
<1> QED BY <1>1, <1>3 DEF TypeInv, TypeOK

\* The type invariant holds at the start ...
LEMMA InitType == Init => TypeInv
<1> SUFFICES ASSUME Init PROVE TypeInv
  OBVIOUS
<1>1. /\ DOMAIN tid_to_handle = {} /\ DOMAIN tmap = {} /\ DOMAIN by_path = {}
      /\ timeline = {} /\ ended = {} /\ busy = FALSE
      /\ effects \in Seq(EffectSet)
  BY DEF Init, RtoInit
<1>2. now \in Nat /\ next_handle \in 0 .. MaxHandle /\ sent \in [Handle -> Nat]
  BY HandleFacts DEF Init
<1>3. returned \in [type : {"SendData", "TransactionOk", "TransactionFailed",
                             "Sleep", "Idle"},
                    hnd : Handle \cup {None}, reason : Reason, dur : Nat \cup {None}]
  <2>1. "" \in Reason
    BY DEF Reason
  <2> QED BY <2>1, ZenonT(100) DEF Init, Idle, Effect
<1> QED BY <1>1, <1>2, <1>3, ZenonT(100) DEF TypeInv, TypeOK

\* ... and every step keeps it.
LEMMA NextType == TypeInv /\ [Next]_vars => TypeInv'
<1> SUFFICES ASSUME TypeInv, [Next]_vars PROVE TypeInv'
  OBVIOUS
<1>1. ASSUME NEW tid \in Tid, NEW p \in Path, NEW auth \in Authenticated,
             Create(tid, p, auth)
      PROVE  TypeInv'
  BY <1>1, CreateType
<1>2. ASSUME NEW m \in Datagram, Response(m) PROVE TypeInv'
  BY <1>2, ResponseType
<1>3. ASSUME NEW e \in timeline, NextPop(e) PROVE TypeInv'
  BY <1>3, PopType
<1>4. CASE NextEffect
  BY <1>4, EffectType
<1>5. CASE NextWait
  BY <1>5, WaitType
<1>6. CASE Tick
  BY <1>6, TickType
<1>7. CASE UNCHANGED vars
  BY <1>7 DEF TypeInv, TypeOK, vars, clientVars, rtoVars
<1> QED BY <1>1, <1>2, <1>3, <1>4, <1>5, <1>6, <1>7 DEF Next, NextCall

\* The members of stun::ClientUDP keep their types whatever its user calls and
\* whatever arrives: no round trip and no Sleep is negative, every queued
\* effect and every timeline entry carries a handle create() could issue.
THEOREM TypeCorrect == Spec => []TypeOK
<1>1. Spec => []TypeInv
  BY InitType, NextType, PTL DEF Spec
<1>2. TypeInv => TypeOK
  BY DEF TypeInv
<1> QED BY <1>1, <1>2, PTL

-----------------------------------------------------------------------------
(* The inductive invariant.  LiveOrEnded needs that the handle of a queued *)
(* effect was issued; OneTimer that a timeline entry never carries a       *)
(* handle still to be issued; RetransmitsBounded needs Paid below.         *)

Issued ==
    /\ \A e \in timeline : e[2] < next_handle
    /\ \A i \in 1 .. Len(effects) : effects[i].hnd < next_handle

\* Each retransmission is paid for by the schedule or by a 5xx response.  A
\* timer that runs out before maybe_next sends a request the schedule does not
\* count, and only a 5xx response that has not paid for one yet leaves such a
\* timer behind.
Paid(h) ==
    LET t == tmap[h]
        a == tmap[h].algo
    IN  /\ a.n5xx <= ServerErrorMax
        /\ a.rtx_count + 1 <= RequestCount + a.n5xx
        /\ t.rtx_count <= a.rtx_count + a.n5xx
        /\ \A e \in timeline :
              e[2] = h /\ a.maybe_next # None /\ e[1] < a.maybe_next =>
                  t.rtx_count + 1 <= a.rtx_count + a.n5xx

AllPaid == \A h \in DOMAIN tmap : Paid(h)

SafetyInv ==
    /\ TypeInv
    /\ IndexConsistent
    /\ LiveOrEnded
    /\ NeverStranded
    /\ OneTimer
    /\ Issued
    /\ AllPaid

\* No live transaction has a handle from next_handle on, so create() issues
\* next_handle itself.
LEMMA AllocatesNext ==
    ASSUME TypeInv, LiveOrEnded
    PROVE  /\ AllocateHandle = next_handle
           /\ next_handle \notin DOMAIN tmap
           /\ next_handle \notin ended
<1> DEFINE P(h) == /\ h \notin DOMAIN tmap
                   /\ \A k \in next_handle .. (h - 1) : k \in DOMAIN tmap
<1>1. next_handle \in Nat /\ MaxHandle \in Nat /\ next_handle \in next_handle .. MaxHandle
  BY HandleFacts DEF TypeInv, TypeOK
<1>2. next_handle \notin DOMAIN tmap /\ next_handle \notin ended
  BY <1>1 DEF LiveOrEnded
<1>3. P(next_handle)
  BY <1>1, <1>2
<1>4. ASSUME NEW h \in next_handle .. MaxHandle, P(h) PROVE h = next_handle
  <2>1. SUFFICES ASSUME h > next_handle PROVE FALSE
    BY <1>1
  <2>2. next_handle \in next_handle .. (h - 1)
    BY <1>1, <2>1
  <2> QED BY <1>2, <1>4, <2>2
<1>5. AllocateHandle = CHOOSE h \in next_handle .. MaxHandle : P(h)
  BY DEF AllocateHandle
<1> HIDE DEF P
<1>6. AllocateHandle = next_handle
  BY <1>1, <1>3, <1>4, <1>5
<1> QED BY <1>2, <1>6

\* One lemma per action that can disturb the invariant: create() ...
LEMMA CreateSafe ==
    ASSUME SafetyInv, TypeInv', NEW tid \in Tid, NEW p \in Path,
           NEW auth \in Authenticated, Create(tid, p, auth)
    PROVE  SafetyInv'
<1>0. PICK h \in Nat : h = next_handle
  BY HandleFacts DEF SafetyInv, TypeInv, TypeOK
<1> DEFINE a == NewRtxAlgo(Rto(p), now)
           t == [tid |-> tid, path |-> p, create_time |-> now, auth |-> auth,
                 rtx_count |-> 0, algo |-> a]
<1>1. AllocateHandle = h /\ h \notin DOMAIN tmap /\ h \notin ended
  BY <1>0, AllocatesNext DEF SafetyInv
<1>2. /\ tid \notin DOMAIN tid_to_handle
      /\ next_handle' = h + 1
      /\ tid_to_handle' = Assign(tid_to_handle, tid, h)
      /\ tmap' = Assign(tmap, h, t)
      /\ effects' = Append(effects, SendData(h))
      /\ timeline' = timeline \cup {<<a.maybe_next, h>>}
      /\ ended' = ended
  BY <1>0, <1>1 DEF Create, FreshTid, AllocateRtxAlgo
<1>3. t.tid = tid /\ t.rtx_count = 0 /\ t.algo = a
  OBVIOUS
<1>4. /\ a.rtx_count = 0 /\ a.n5xx = 0 /\ a.maybe_next \in Nat
  BY RtoType, SMTT(100) DEF SafetyInv, TypeInv, TypeOK, NewRtxAlgo
<1>6. SendData(h).hnd = h
  BY DEF SendData, Effect
<1>7. effects \in Seq(EffectSet) /\ timeline \subseteq Nat \X Handle /\ DOMAIN tmap \subseteq Handle
  BY DEF SafetyInv, TypeInv, TypeOK
<1> HIDE DEF a, t
<1>8. /\ DOMAIN tmap' = DOMAIN tmap \cup {h} /\ tmap'[h] = t
      /\ \A x \in DOMAIN tmap : tmap'[x] = tmap[x]
  BY <1>1, <1>2 DEF Assign
<1>9. /\ DOMAIN tid_to_handle' = DOMAIN tid_to_handle \cup {tid}
      /\ tid_to_handle'[tid] = h
      /\ \A x \in DOMAIN tid_to_handle : tid_to_handle'[x] = tid_to_handle[x]
  BY <1>2 DEF Assign
<1>10. IndexConsistent'
  BY <1>1, <1>2, <1>3, <1>8, <1>9 DEF SafetyInv, IndexConsistent
<1>11. LiveOrEnded'
  <2>1. 0 .. (next_handle' - 1) = 0 .. (next_handle - 1) \cup {h}
    BY <1>2, <1>0
  <2> QED BY <1>1, <1>2, <1>8, <2>1 DEF SafetyInv, LiveOrEnded
<1>12. NeverStranded'
  <2>1. HasTimer(h)'
    <3>1. <<a.maybe_next, h>> \in timeline' /\ <<a.maybe_next, h>>[2] = h
      BY <1>2
    <3> QED BY <3>1 DEF HasTimer
  <2>2. ASSUME NEW x \in DOMAIN tmap PROVE HasTimer(x)' \/ HasOutcome(x)'
    <3>1. CASE HasTimer(x)
      BY <3>1, <1>2 DEF HasTimer
    <3>2. CASE HasOutcome(x)
      BY <3>2, <1>2, <1>7 DEF HasOutcome
    <3> QED BY <3>1, <3>2 DEF SafetyInv, NeverStranded
  <2> QED BY <1>8, <2>1, <2>2 DEF NeverStranded
<1>13. OneTimer'
  <2>1. \A e \in timeline : e[2] # h
    BY <1>0, <1>7 DEF SafetyInv, Issued
  <2> QED BY <1>2, <2>1 DEF SafetyInv, OneTimer
<1>14. Issued'
  <2>1. \A e \in timeline' : e[2] < next_handle'
    <3>1. \A e \in timeline : e[2] \in Nat /\ e[2] < h
      BY <1>0, <1>7, HandleFacts DEF SafetyInv, Issued
    <3> QED BY <1>2, <1>0, <3>1
  <2>2. ASSUME NEW i \in 1 .. Len(effects') PROVE effects'[i].hnd < next_handle'
    <3>1. CASE i \in 1 .. Len(effects)
      <4>1. effects'[i] = effects[i] /\ effects[i] \in EffectSet
        BY <1>2, <1>7, <3>1
      <4>2. effects[i].hnd \in Nat /\ effects[i].hnd < h
        BY <1>0, <4>1, <3>1, HandleFacts DEF SafetyInv, Issued, EffectSet
      <4> QED BY <1>2, <1>0, <4>1, <4>2
    <3>2. CASE i = Len(effects) + 1
      BY <1>2, <1>0, <1>6, <1>7, <3>2
    <3> QED BY <1>2, <1>7, <3>1, <3>2
  <2> QED BY <2>1, <2>2 DEF Issued
<1>15. AllPaid'
  <2>1. Paid(h)'
    <3>1. \A e \in timeline' : e[2] = h => e = <<a.maybe_next, h>>
      <4>1. \A e \in timeline : e[2] # h
        BY <1>0, <1>7 DEF SafetyInv, Issued
      <4> QED BY <1>2, <4>1
    <3>2. tmap'[h].rtx_count = 0 /\ tmap'[h].algo = a
      BY <1>3, <1>8
    <3> QED BY <1>4, <3>1, <3>2, ClientAssumption DEF Paid
  <2>2. ASSUME NEW x \in DOMAIN tmap PROVE Paid(x)'
    <3>1. x # h /\ tmap'[x] = tmap[x] /\ Paid(x)
      BY <1>1, <1>8 DEF SafetyInv, AllPaid
    <3>2. \A e \in timeline' : e[2] = x => e \in timeline
      BY <1>2, <3>1
    <3> QED BY <3>1, <3>2 DEF Paid
  <2> QED BY <1>8, <2>1, <2>2 DEF AllPaid
<1> QED BY <1>10, <1>11, <1>12, <1>13, <1>14, <1>15 DEF SafetyInv

\* A queued effect of an issued handle strands nobody and stays issued.
LEMMA AppendSafe ==
    ASSUME TypeInv, Issued, NEW x \in EffectSet, x.hnd < next_handle,
           effects' = Append(effects, x), next_handle' = next_handle
    PROVE  /\ \A h : HasOutcome(h) => HasOutcome(h)'
           /\ IsOutcome(x) => HasOutcome(x.hnd)'
           /\ \A i \in 1 .. Len(effects') : effects'[i].hnd < next_handle'
<1>1. effects \in Seq(EffectSet)
  BY DEF TypeInv, TypeOK
<1>2. /\ Len(effects') = Len(effects) + 1
      /\ effects'[Len(effects) + 1] = x
      /\ \A i \in 1 .. Len(effects) : effects'[i] = effects[i]
  BY <1>1
<1>3. Len(effects) \in Nat
  BY <1>1
<1>4. \A h : HasOutcome(h) => HasOutcome(h)'
  BY <1>2, <1>3 DEF HasOutcome
<1>5. IsOutcome(x) => HasOutcome(x.hnd)'
  BY <1>2, <1>3 DEF HasOutcome
<1>6. \A i \in 1 .. Len(effects') : effects'[i].hnd < next_handle'
  BY <1>2, <1>3 DEF Issued
<1> QED BY <1>4, <1>5, <1>6

\* ... response() ...
LEMMA ResponseSafe ==
    ASSUME SafetyInv, TypeInv', NEW m \in Datagram, Response(m)
    PROVE  SafetyInv'
<1>1. UNCHANGED <<now, next_handle, tid_to_handle, timeline, ended>>
  BY ResponseStep DEF SafetyInv
<1>2. CASE tmap' = tmap /\ effects' = effects
  BY <1>1, <1>2 DEF SafetyInv, IndexConsistent, LiveOrEnded, NeverStranded, HasTimer,
                    HasOutcome, OneTimer, Issued, AllPaid, Paid
<1>3. ASSUME tmap' = tmap, NEW x \in EffectSet, x.hnd \in DOMAIN tmap,
             effects' = Append(effects, x)
      PROVE  SafetyInv'
  <2>1. x.hnd < next_handle
    BY <1>3, HandleFacts DEF SafetyInv, LiveOrEnded, TypeInv, TypeOK
  <2>2. /\ \A h : HasOutcome(h) => HasOutcome(h)'
        /\ \A i \in 1 .. Len(effects') : effects'[i].hnd < next_handle'
    BY <1>1, <1>3, <2>1, AppendSafe DEF SafetyInv
  <2>3. IndexConsistent' /\ LiveOrEnded' /\ OneTimer'
    BY <1>1, <1>3 DEF SafetyInv, IndexConsistent, LiveOrEnded, OneTimer
  <2>4. NeverStranded'
    BY <1>1, <1>3, <2>2 DEF SafetyInv, NeverStranded, HasTimer
  <2>5. Issued'
    BY <1>1, <2>2 DEF SafetyInv, Issued
  <2>6. AllPaid'
    BY <1>1, <1>3 DEF SafetyInv, AllPaid, Paid
  <2> QED BY <2>3, <2>4, <2>5, <2>6 DEF SafetyInv
<1>4. ASSUME effects' = effects, NEW h \in DOMAIN tmap, Schedules5xx(tmap[h].algo),
             tmap' = [tmap EXCEPT ![h].algo = Algo5xx(@, now)]
      PROVE  SafetyInv'
  <2> DEFINE b == Algo5xx(tmap[h].algo, now)
  <2>1. tmap[h] \in Transaction /\ tmap[h].algo \in RetransmitAlgo /\ now \in Nat
    BY ZenonT(100) DEF SafetyInv, TypeInv, TypeOK, Transaction
  <2>2. b.n5xx = tmap[h].algo.n5xx + 1 /\ b.rtx_count = tmap[h].algo.rtx_count
    BY <1>4, <2>1, Algo5xxType
  <2>3. tmap' = [tmap EXCEPT ![h] = [tmap[h] EXCEPT !.algo = b]]
    BY <1>4
  <2> HIDE DEF b
  <2>4. /\ DOMAIN tmap' = DOMAIN tmap
        /\ \A x \in DOMAIN tmap : x # h => tmap'[x] = tmap[x]
        /\ tmap'[h].tid = tmap[h].tid
        /\ tmap'[h].rtx_count = tmap[h].rtx_count
        /\ tmap'[h].algo = b
    BY <2>1, <2>3 DEF Transaction
  <2>5. IndexConsistent'
    BY <1>1, <2>4 DEF SafetyInv, IndexConsistent
  <2>6. LiveOrEnded' /\ NeverStranded' /\ OneTimer' /\ Issued'
    BY <1>1, <1>4, <2>4 DEF SafetyInv, LiveOrEnded, NeverStranded, HasTimer,
                            HasOutcome, OneTimer, Issued
  <2>7. Paid(h)'
    <3>1. Paid(h)
      BY DEF SafetyInv, AllPaid
    <3>2. /\ tmap[h].algo.n5xx \in Nat /\ tmap[h].algo.n5xx < ServerErrorMax
          /\ tmap[h].algo.rtx_count \in Nat /\ tmap[h].rtx_count \in Nat
      BY <1>4, <2>1 DEF Schedules5xx, Transaction, RetransmitAlgo
    <3> QED BY <2>2, <2>4, <3>1, <3>2, ClientAssumption DEF Paid
  <2>8. \A x \in DOMAIN tmap : x # h => Paid(x)'
    BY <1>1, <2>4 DEF SafetyInv, AllPaid, Paid
  <2> QED BY <2>4, <2>5, <2>6, <2>7, <2>8, ZenonT(100) DEF SafetyInv, AllPaid
<1> QED BY <1>2, <1>3, <1>4, ResponseStep DEF SafetyInv

\* Popping the entry of a transaction leaves the entries of the others and none
\* of its own, but for the one the retransmission adds.
LEMMA PopTimers ==
    ASSUME SafetyInv, NEW e \in timeline, NEW new,
           timeline' = (timeline \ {e}) \cup new,
           \A f \in new : f[2] = e[2] /\ \A g \in new : f = g
    PROVE  /\ \A f \in timeline' : f[2] = e[2] => f \in new
           /\ \A f \in timeline' : f[2] # e[2] => f \in timeline
           /\ \A h : h # e[2] /\ HasTimer(h) => HasTimer(h)'
           /\ OneTimer'
<1>1. \A f \in timeline' : f[2] = e[2] => f \in new
  BY DEF SafetyInv, OneTimer
<1>2. \A f \in timeline' : f[2] # e[2] => f \in timeline
  OBVIOUS
<1>3. \A h : h # e[2] /\ HasTimer(h) => HasTimer(h)'
  BY DEF HasTimer
<1>4. OneTimer'
  BY <1>1, <1>2 DEF SafetyInv, OneTimer
<1> QED BY <1>1, <1>2, <1>3, <1>4

\* ... a timer that runs out ...
LEMMA PopSafe ==
    ASSUME SafetyInv, TypeInv', NEW e \in timeline, NextPop(e)
    PROVE  SafetyInv'
<1>0. PICK h \in Handle : h = e[2]
  BY PopStep, ZenonT(100) DEF SafetyInv
<1>1. /\ e[1] \in Nat /\ e[1] <= now /\ now \in Nat
      /\ UNCHANGED <<now, next_handle, tid_to_handle, ended>>
  BY PopStep, ZenonT(100) DEF SafetyInv, TypeInv, TypeOK
<1>2. h < next_handle
  BY <1>0 DEF SafetyInv, Issued
<1>3. CASE /\ h \notin DOMAIN tmap
           /\ timeline' = timeline \ {e}
           /\ UNCHANGED <<tmap, effects>>
  <2>1. /\ \A f \in timeline' : f \in timeline
        /\ \A x : x # h /\ HasTimer(x) => HasTimer(x)'
    BY <1>0, <1>3 DEF HasTimer
  <2>2. IndexConsistent' /\ LiveOrEnded' /\ OneTimer' /\ Issued'
    BY <1>1, <1>3, <2>1 DEF SafetyInv, IndexConsistent, LiveOrEnded, OneTimer, Issued
  <2>3. NeverStranded'
    BY <1>3, <2>1 DEF SafetyInv, NeverStranded, HasOutcome
  <2>4. AllPaid'
    BY <1>3, <2>1 DEF SafetyInv, AllPaid, Paid
  <2> QED BY <2>2, <2>3, <2>4 DEF SafetyInv
<1>4. ASSUME h \in DOMAIN tmap, NEW b \in RetransmitAlgo,
             b = AlgoNext(tmap[h].algo, now), b.maybe_next \in Nat,
             tmap' = [tmap EXCEPT ![h] = [tmap[h] EXCEPT
                         !.algo = b, !.rtx_count = tmap[h].rtx_count + 1]],
             timeline' = (timeline \ {e}) \cup {<<b.maybe_next, h>>},
             effects' = Append(effects, SendData(h))
      PROVE  SafetyInv'
  <2> DEFINE r == tmap[h].rtx_count + 1
             a == tmap[h].algo
  <2>1. tmap[h] \in Transaction /\ a \in RetransmitAlgo /\ r \in Nat
    BY <1>4, ZenonT(100) DEF SafetyInv, TypeInv, TypeOK, Transaction
  <2>2. tmap' = [tmap EXCEPT ![h] = [tmap[h] EXCEPT !.algo = b, !.rtx_count = r]]
    BY <1>4
  <2>3. /\ DOMAIN tmap' = DOMAIN tmap
        /\ \A x \in DOMAIN tmap : x # h => tmap'[x] = tmap[x]
        /\ tmap'[h].tid = tmap[h].tid
        /\ tmap'[h].rtx_count = r
        /\ tmap'[h].algo = b
    <3> HIDE DEF r, a
    <3> QED BY <1>4, <2>1, <2>2, ZenonT(100) DEF Transaction
  <2>4. SendData(h) \in EffectSet /\ SendData(h).hnd = h
    BY DEF SendData, Effect, EffectSet, Reason
  <2>5. /\ \A x : HasOutcome(x) => HasOutcome(x)'
        /\ \A i \in 1 .. Len(effects') : effects'[i].hnd < next_handle'
    BY <1>1, <1>2, <1>4, <2>4, AppendSafe DEF SafetyInv
  <2>6. /\ \A f \in timeline' : f[2] = h => f \in {<<b.maybe_next, h>>}
        /\ \A f \in timeline' : f[2] # h => f \in timeline
        /\ \A x : x # h /\ HasTimer(x) => HasTimer(x)'
        /\ OneTimer'
    <3> DEFINE new == {<<b.maybe_next, h>>}
    <3>1. \A f \in new : f[2] = e[2] /\ \A g \in new : f = g
      BY <1>0
    <3>2. timeline' = (timeline \ {e}) \cup new
      BY <1>4
    <3> HIDE DEF new
    <3>3. /\ \A f \in timeline' : f[2] = e[2] => f \in new
          /\ \A f \in timeline' : f[2] # e[2] => f \in timeline
          /\ \A x : x # e[2] /\ HasTimer(x) => HasTimer(x)'
          /\ OneTimer'
      BY <3>1, <3>2, PopTimers
    <3> QED BY <1>0, <3>3 DEF new
  <2>7. IndexConsistent' /\ LiveOrEnded'
    BY <1>1, <1>4, <2>3 DEF SafetyInv, IndexConsistent, LiveOrEnded
  <2>8. NeverStranded'
    <3>1. HasTimer(h)'
      <4>1. <<b.maybe_next, h>> \in timeline' /\ <<b.maybe_next, h>>[2] = h
        BY <1>4
      <4> QED BY <4>1 DEF HasTimer
    <3> QED BY <2>3, <2>5, <2>6, <3>1, ZenonT(100) DEF SafetyInv, NeverStranded
  <2>9. Issued'
    <3>1. \A f \in timeline' : f[2] < next_handle'
      BY <1>1, <1>2, <2>6 DEF SafetyInv, Issued
    <3> QED BY <2>5, <3>1 DEF Issued
  <2>10. Paid(h)'
    <3>1. /\ Paid(h)
          /\ a.n5xx \in Nat /\ a.rtx_count \in Nat /\ a.maybe_next \in Nat \cup {None}
          /\ tmap[h].rtx_count \in Nat
          /\ RequestCount \in Nat /\ ServerErrorMax \in Nat
      BY <1>4, <2>1, ClientAssumption, ZenonT(100) DEF SafetyInv, AllPaid, RetransmitAlgo, Transaction
    <3>2. /\ b.n5xx = a.n5xx
          /\ \/ b = a /\ (a.maybe_next = None \/ now < a.maybe_next)
             \/ b.maybe_next = None /\ b.rtx_count = a.rtx_count
             \/ MoreRequests(a) /\ b.rtx_count = a.rtx_count + 1
      BY <1>1, <1>4, <2>1, AlgoNextType
    <3>3. b.maybe_next # None
      BY <1>4 DEF None
    <3>4. /\ b.n5xx <= ServerErrorMax
          /\ b.rtx_count + 1 <= RequestCount + b.n5xx
          /\ r <= b.rtx_count + b.n5xx
      <4>1. CASE b = a /\ now < a.maybe_next
        <5>1. tmap[h].rtx_count + 1 <= a.rtx_count + a.n5xx
          BY <1>0, <1>1, <1>4, <3>1, <3>3, <4>1 DEF Paid
        <5> QED BY <3>1, <4>1, <5>1 DEF Paid
      <4>2. CASE MoreRequests(a) /\ b.rtx_count = a.rtx_count + 1
        BY <3>1, <3>2, <4>2, SMTT(100) DEF Paid, MoreRequests
      <4> QED BY <3>2, <3>3, <4>1, <4>2
    <3>5. \A f \in timeline' : f[2] = h => f[1] = b.maybe_next
      BY <2>6
    <3>6. \A f \in timeline' : f[2] = h => ~(f[1] < b.maybe_next)
      BY <1>4, <3>5
    <3> HIDE DEF r, a
    <3> QED BY <2>3, <3>4, <3>6 DEF Paid
  <2>11. \A x \in DOMAIN tmap : x # h => Paid(x)'
    BY <2>3, <2>6 DEF SafetyInv, AllPaid, Paid
  <2> QED BY <2>3, <2>6, <2>7, <2>8, <2>9, <2>10, <2>11, ZenonT(100) DEF SafetyInv, AllPaid
<1>5. ASSUME h \in DOMAIN tmap, NEW b \in RetransmitAlgo,
             b = AlgoNext(tmap[h].algo, now), b.maybe_next = None,
             tmap' = [tmap EXCEPT ![h].algo = b], timeline' = timeline \ {e},
             effects' = Append(effects, TransactionFailed(h, "Timeout"))
      PROVE  SafetyInv'
  <2> DEFINE x == TransactionFailed(h, "Timeout")
             a == tmap[h].algo
  <2>1. tmap[h] \in Transaction /\ a \in RetransmitAlgo
    BY <1>5 DEF SafetyInv, TypeInv, TypeOK, Transaction
  <2>2. /\ DOMAIN tmap' = DOMAIN tmap
        /\ \A y \in DOMAIN tmap : y # h => tmap'[y] = tmap[y]
        /\ tmap'[h].tid = tmap[h].tid
        /\ tmap'[h].rtx_count = tmap[h].rtx_count
        /\ tmap'[h].algo = b
    BY <1>5, <2>1 DEF Transaction
  <2>3. x \in EffectSet /\ x.hnd = h /\ IsOutcome(x)
    BY DEF TransactionFailed, Effect, EffectSet, Reason, IsOutcome
  <2> HIDE DEF x
  <2>4. /\ \A y : HasOutcome(y) => HasOutcome(y)'
        /\ HasOutcome(h)'
        /\ \A i \in 1 .. Len(effects') : effects'[i].hnd < next_handle'
    BY <1>1, <1>2, <1>5, <2>3, AppendSafe DEF SafetyInv, x
  <2>5. /\ \A f \in timeline' : f[2] # h => f \in timeline
        /\ \A y : y # h /\ HasTimer(y) => HasTimer(y)'
        /\ OneTimer'
        /\ \A f \in timeline' : f \in timeline
    BY <1>0, <1>5 DEF HasTimer, SafetyInv, OneTimer
  <2>6. IndexConsistent' /\ LiveOrEnded'
    BY <1>1, <1>5, <2>2 DEF SafetyInv, IndexConsistent, LiveOrEnded
  <2>7. NeverStranded'
    BY <2>2, <2>4, <2>5 DEF SafetyInv, NeverStranded
  <2>8. Issued'
    BY <1>1, <2>4, <2>5 DEF SafetyInv, Issued
  <2>9. Paid(h)'
    <3>1. /\ Paid(h)
          /\ a.n5xx \in Nat /\ a.rtx_count \in Nat
      BY <1>5, <2>1 DEF SafetyInv, AllPaid, RetransmitAlgo
    <3>2. b.n5xx = a.n5xx
      BY <1>1, <1>5, <2>1, AlgoNextType
    <3>3. b.rtx_count = a.rtx_count
      <4>1. b.maybe_next \notin Nat
        BY <1>5 DEF None
      <4> QED BY <1>1, <1>5, <2>1, <4>1, AlgoNextType
    <3> QED BY <1>5, <2>2, <3>1, <3>2, <3>3 DEF Paid
  <2>10. \A y \in DOMAIN tmap : y # h => Paid(y)'
    BY <2>2, <2>5 DEF SafetyInv, AllPaid, Paid
  <2> QED BY <2>2, <2>5, <2>6, <2>7, <2>8, <2>9, <2>10, ZenonT(100) DEF SafetyInv, AllPaid
<1> QED BY <1>0, <1>3, <1>4, <1>5, PopStep, ZenonT(100) DEF SafetyInv

\* ... and an effect handed out.
LEMMA EffectSafe ==
    ASSUME SafetyInv, TypeInv', NextEffect
    PROVE  SafetyInv'
<1> DEFINE e == Head(effects)
<1>1. /\ Len(effects) > 0 /\ e = effects[1] /\ e.hnd \in Handle
      /\ Len(effects') = Len(effects) - 1
      /\ \A i \in 1 .. Len(effects') : effects'[i] = effects[i + 1]
      /\ UNCHANGED <<next_handle, timeline>>
      /\ IF IsOutcome(e)
         THEN Cleanup(e.hnd) /\ ended' = ended \cup {e.hnd}
         ELSE UNCHANGED <<tid_to_handle, tmap, ended>>
  BY EffectStep DEF SafetyInv
<1>2. Len(effects) \in Nat /\ Len(effects') \in Nat
  BY DEF SafetyInv, TypeInv, TypeOK
<1>3. e.hnd < next_handle
  BY <1>1, <1>2 DEF SafetyInv, Issued
<1>4. PICK h \in Handle : h = e.hnd
  BY <1>1
<1>5. IsOutcome(e) \in BOOLEAN
  BY DEF IsOutcome
<1>6. /\ DOMAIN tmap' = IF IsOutcome(e) THEN DOMAIN tmap \ {h} ELSE DOMAIN tmap
      /\ \A x \in DOMAIN tmap' : tmap'[x] = tmap[x]
      /\ ended' = IF IsOutcome(e) THEN ended \cup {h} ELSE ended
      /\ DOMAIN tid_to_handle' = DOMAIN tid_to_handle \
            (IF IsOutcome(e) /\ h \in DOMAIN tmap THEN {tmap[h].tid} ELSE {})
      /\ \A x \in DOMAIN tid_to_handle' : tid_to_handle'[x] = tid_to_handle[x]
  <2>1. CASE IsOutcome(e)
    BY <1>1, <1>4, <2>1, CleanupStep, ZenonT(100)
  <2>2. CASE ~IsOutcome(e)
    BY <1>1, <2>2
  <2> QED BY <2>1, <2>2
<1>7. IndexConsistent'
  <2>1. CASE IsOutcome(e) /\ h \in DOMAIN tmap
    BY <1>6, <2>1 DEF SafetyInv, IndexConsistent
  <2>2. CASE ~(IsOutcome(e) /\ h \in DOMAIN tmap)
    <3>1. /\ DOMAIN tmap' = DOMAIN tmap
          /\ DOMAIN tid_to_handle' = DOMAIN tid_to_handle
      BY <1>6, <2>2
    <3> QED BY <1>6, <3>1 DEF SafetyInv, IndexConsistent
  <2> QED BY <2>1, <2>2
<1>8. LiveOrEnded'
  <2>1. h \in 0 .. (next_handle - 1)
    BY <1>3, <1>4, HandleFacts DEF SafetyInv, TypeInv, TypeOK
  <2> QED BY <1>1, <1>6, <2>1 DEF SafetyInv, LiveOrEnded
<1>9. NeverStranded'
  <2> SUFFICES ASSUME NEW x \in DOMAIN tmap' PROVE HasTimer(x)' \/ HasOutcome(x)'
    BY DEF NeverStranded
  <2>1. x \in DOMAIN tmap /\ (IsOutcome(e) => x # h)
    BY <1>6
  <2>2. CASE HasTimer(x)
    BY <1>1, <2>2 DEF HasTimer
  <2>3. CASE HasOutcome(x)
    <3>1. PICK i \in 1 .. Len(effects) : IsOutcome(effects[i]) /\ effects[i].hnd = x
      BY <2>3 DEF HasOutcome
    <3>2. i # 1
      BY <1>1, <1>4, <2>1, <3>1
    <3>3. i - 1 \in 1 .. Len(effects') /\ effects'[i - 1] = effects[i]
      BY <1>1, <1>2, <3>2
    <3> QED BY <3>1, <3>3 DEF HasOutcome
  <2> QED BY <2>1, <2>2, <2>3 DEF SafetyInv, NeverStranded
<1>10. OneTimer'
  BY <1>1 DEF SafetyInv, OneTimer
<1>11. Issued'
  BY <1>1, <1>2 DEF SafetyInv, Issued
<1>12. AllPaid'
  BY <1>1, <1>6 DEF SafetyInv, AllPaid, Paid
<1> QED BY <1>7, <1>8, <1>9, <1>10, <1>11, <1>12 DEF SafetyInv

\* A Sleep, an Idle and the passing of time touch none of it.
LEMMA QuietSafe ==
    ASSUME SafetyInv, TypeInv',
           UNCHANGED <<next_handle, tid_to_handle, tmap, timeline, effects, ended>>
    PROVE  SafetyInv'
BY ZenonT(100) DEF SafetyInv, IndexConsistent, LiveOrEnded, NeverStranded, HasTimer, HasOutcome,
       OneTimer, Issued, AllPaid, Paid

\* The invariant holds at the start ...
LEMMA InitSafe == Init => SafetyInv
<1> SUFFICES ASSUME Init PROVE SafetyInv
  OBVIOUS
<1>1. /\ next_handle = 0 /\ DOMAIN tid_to_handle = {} /\ DOMAIN tmap = {}
      /\ timeline = {} /\ ended = {} /\ Len(effects) = 0
  BY DEF Init
<1>2. TypeInv
  BY InitType
<1>3. LiveOrEnded
  BY <1>1 DEF LiveOrEnded
<1>4. IndexConsistent /\ NeverStranded /\ AllPaid
  BY <1>1 DEF IndexConsistent, NeverStranded, AllPaid
<1>5. OneTimer /\ Issued
  BY <1>1 DEF OneTimer, Issued
<1> QED BY <1>2, <1>3, <1>4, <1>5 DEF SafetyInv

\* ... every step keeps it ...
LEMMA NextSafe == SafetyInv /\ [Next]_vars => SafetyInv'
<1> SUFFICES ASSUME SafetyInv, [Next]_vars PROVE SafetyInv'
  OBVIOUS
<1>0. TypeInv'
  BY NextType DEF SafetyInv
<1>1. ASSUME NEW tid \in Tid, NEW p \in Path, NEW auth \in Authenticated,
             Create(tid, p, auth)
      PROVE  SafetyInv'
  BY <1>0, <1>1, CreateSafe
<1>2. ASSUME NEW m \in Datagram, Response(m) PROVE SafetyInv'
  BY <1>0, <1>2, ResponseSafe
<1>3. ASSUME NEW e \in timeline, NextPop(e) PROVE SafetyInv'
  BY <1>0, <1>3, PopSafe
<1>4. CASE NextEffect
  BY <1>0, <1>4, EffectSafe
<1>5. CASE NextWait
  BY <1>0, <1>5, QuietSafe DEF NextWait
<1>6. CASE Tick
  BY <1>0, <1>6, QuietSafe DEF Tick
<1>7. CASE UNCHANGED vars
  BY <1>0, <1>7, QuietSafe DEF vars, clientVars
<1> QED BY <1>1, <1>2, <1>3, <1>4, <1>5, <1>6, <1>7 DEF Next, NextCall

\* ... so it always holds.
LEMMA AlwaysSafe == Spec => []SafetyInv
BY InitSafe, NextSafe, PTL DEF Spec

-----------------------------------------------------------------------------

\* The maps m_tid_to_handle and m_tmap stay inverse of each other through
\* create(), response(), next() and the cleanup() inside it.
THEOREM MapsConsistent == Spec => []IndexConsistent
<1>1. SafetyInv => IndexConsistent
  BY DEF SafetyInv
<1> QED BY <1>1, AlwaysSafe, PTL

\* Every handle create() returned is live or has had its outcome returned by
\* next(), and not both.
THEOREM HandlesAccounted == Spec => []LiveOrEnded
<1>1. SafetyInv => LiveOrEnded
  BY DEF SafetyInv
<1> QED BY <1>1, AlwaysSafe, PTL

\* A live transaction always has a timer in m_tid_timeline or an outcome in
\* m_effects, so next() will come back to it.
THEOREM NoneStranded == Spec => []NeverStranded
<1>1. SafetyInv => NeverStranded
  BY DEF SafetyInv
<1> QED BY <1>1, AlwaysSafe, PTL

\* m_tid_timeline holds at most one entry per handle.
THEOREM TimersUnique == Spec => []OneTimer
<1>1. SafetyInv => OneTimer
  BY DEF SafetyInv
<1> QED BY <1>1, AlwaysSafe, PTL

\* next() retransmits a request at most request_count - 1 times and twice more
\* for each 5xx response process_5xx() accepted, whatever the timing.
THEOREM RetransmitLimit == Spec => []RetransmitsBounded
<1>1. SafetyInv => RetransmitsBounded
  <2> SUFFICES ASSUME SafetyInv, NEW h \in DOMAIN tmap
               PROVE  /\ tmap[h].algo.n5xx <= ServerErrorMax
                      /\ tmap[h].rtx_count <= RequestCount - 1 + 2 * tmap[h].algo.n5xx
    BY DEF RetransmitsBounded
  <2>1. Paid(h)
    BY DEF SafetyInv, AllPaid
  <2>2. /\ tmap[h].algo.n5xx \in Nat /\ tmap[h].algo.rtx_count \in Nat
        /\ tmap[h].rtx_count \in Nat /\ RequestCount \in Nat
    BY ClientAssumption DEF SafetyInv, TypeInv, TypeOK, Transaction, RetransmitAlgo
  <2> QED BY <2>1, <2>2 DEF Paid
<1> QED BY <1>1, AlwaysSafe, PTL

\* Nothing is queued for a transaction whose outcome next() has returned: an
\* effect is queued by create() for the handle it issues, by response() for a
\* transaction found in the maps and by next() for one found in m_tmap.
THEOREM QuietOnceEnded == Spec => QuietAfterOutcome
<1> DEFINE Quiet == Len(effects') > Len(effects) =>
                        effects'[Len(effects')].hnd \notin ended
<1>1. ASSUME SafetyInv, Next PROVE Quiet
  <2>1. effects \in Seq(EffectSet) /\ Len(effects) \in Nat
    BY <1>1 DEF SafetyInv, TypeInv, TypeOK
  <2>2. ASSUME NEW x, x.hnd \in DOMAIN tmap, effects' = Append(effects, x),
               x \in EffectSet
        PROVE  Quiet
    BY <1>1, <2>1, <2>2 DEF SafetyInv, LiveOrEnded
  <2>3. \A h \in Handle : /\ SendData(h) \in EffectSet /\ SendData(h).hnd = h
                          /\ TransactionFailed(h, "Timeout") \in EffectSet
                          /\ TransactionFailed(h, "Timeout").hnd = h
    BY DEF SendData, TransactionFailed, Effect, EffectSet, Reason
  <2>4. ASSUME NEW tid \in Tid, NEW p \in Path, NEW auth \in Authenticated,
               Create(tid, p, auth)
        PROVE  Quiet
    <3>1. AllocateHandle = next_handle /\ next_handle \notin ended
      BY <1>1, AllocatesNext DEF SafetyInv
    <3>2. next_handle \in Handle /\ effects' = Append(effects, SendData(next_handle))
      BY <2>4, <3>1 DEF Create
    <3> QED BY <2>1, <2>3, <3>1, <3>2
  <2>5. ASSUME NEW m \in Datagram, Response(m) PROVE Quiet
    BY <1>1, <2>1, <2>2, <2>5, ResponseStep DEF SafetyInv
  <2>6. ASSUME NEW e \in timeline, NextPop(e) PROVE Quiet
    <3>1. \/ effects' = effects
          \/ /\ e[2] \in Handle /\ e[2] \in DOMAIN tmap
             /\ \/ effects' = Append(effects, SendData(e[2]))
                \/ effects' = Append(effects, TransactionFailed(e[2], "Timeout"))
      BY <1>1, <2>6, PopStep, ZenonT(100) DEF SafetyInv
    <3> QED BY <2>1, <2>2, <2>3, <3>1
  <2>7. CASE NextEffect
    BY <1>1, <2>1, <2>7, EffectStep DEF SafetyInv
  <2>8. CASE NextWait \/ Tick
    BY <2>1, <2>8 DEF NextWait, Tick
  <2> QED BY <1>1, <2>4, <2>5, <2>6, <2>7, <2>8 DEF Next, NextCall
<1>2. SafetyInv /\ [Next]_vars => [Quiet]_vars
  BY <1>1
<1> QED BY <1>2, AlwaysSafe, PTL DEF Spec, QuietAfterOutcome
=============================================================================
