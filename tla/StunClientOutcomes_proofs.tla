---------------------- MODULE StunClientOutcomes_proofs ----------------------
(***************************************************************************)
(* Proofs about what the STUN client over UDP hands out: when it gives up, *)
(* how many requests per transaction (Karn's algorithm), and the abstract  *)
(* transactions the client implements.                                     *)
(***************************************************************************)
EXTENDS StunClientUDP_proofs

USE SMTT(100), ZenonT(100)

-----------------------------------------------------------------------------
(* When the client gives up.                                                *)

\* Each power of two is twice the one before it: PowerOfTwo, at
\* the end of StunClientExample_proofs.
PowersDouble == \A n \in Nat : 2^n \in Nat /\ 2^(n + 1) = 2 * 2^n

\* The interval after k doublings.
Doubled(r, k) == r * 2^k

\* Doubling once more doubles, and the intervals before it add up to one
\* initial RTO less.
LEMMA DoubledFacts ==
    ASSUME PowersDouble, NEW r \in Nat, NEW k \in Nat
    PROVE  /\ Doubled(r, 0) = r
           /\ Doubled(r, k) \in Nat
           /\ Doubled(r, k + 1) = 2 * Doubled(r, k)
           /\ r * (2^k - 1) = Doubled(r, k) - r
<1>1. 2^0 = 1
  OBVIOUS
<1>2. PICK x \in Nat : x = 2^k
  BY DEF PowersDouble
<1>3. 2^(k + 1) = 2 * x
  BY <1>2 DEF PowersDouble
<1>4. r * (2 * x) = 2 * (r * x) /\ r * (x - 1) = r * x - r /\ r * x \in Nat
  OBVIOUS
<1>5. Doubled(r, k) = r * x /\ Doubled(r, k + 1) = r * (2 * x)
  BY <1>2, <1>3 DEF Doubled
<1>6. Doubled(r, 0) = r * 1
  BY <1>1 DEF Doubled
<1> QED BY <1>2, <1>4, <1>5, <1>6

\* The wait after the last request, and the time a schedule has run for when
\* the timer of a transaction runs out.
LastSpan(r) == r * Multiplier

Elapsed(a) ==
    IF a.rtx_count + 1 < RequestCount
    THEN Doubled(a.initial_rto, a.rtx_count + 1) - a.initial_rto
    ELSE Doubled(a.initial_rto, RequestCount - 1) - a.initial_rto + LastSpan(a.initial_rto)

\* A live transaction whose schedule no 5xx response has touched: its timer
\* runs out at maybe_next, the intervals so far add up to at least what the
\* schedule says, and the last interval is at least the doubled one.
OnTime(t, at) ==
    LET a == t.algo
    IN  /\ t.create_time + Elapsed(a) <= IF a.maybe_next = None THEN at ELSE a.maybe_next
        /\ a.rtx_count + 1 < RequestCount =>
               a.last_timeout >= Doubled(a.initial_rto, a.rtx_count)
        /\ a.maybe_next = None => a.rtx_count + 1 = RequestCount

OnSchedule ==
    \A h \in DOMAIN tmap :
        tmap[h].algo.n5xx = 0 =>
            /\ \A e \in timeline : e[2] = h => e[1] = tmap[h].algo.maybe_next
            /\ OnTime(tmap[h], now)

ScheduleInv == SafetyInv /\ OnSchedule

\* Spans of time are numbers.
LEMMA ElapsedType ==
    ASSUME PowersDouble, NEW a \in RetransmitAlgo
    PROVE  /\ LastSpan(a.initial_rto) \in Nat
           /\ \A k \in Nat : Doubled(a.initial_rto, k) \in Nat
           /\ Elapsed(a) \in Int
<1>1. a.initial_rto \in Nat /\ a.rtx_count \in Nat /\ RequestCount \in Nat \ {0}
  BY ClientAssumption DEF RetransmitAlgo
<1>2. LastSpan(a.initial_rto) \in Nat
  BY <1>1, ClientAssumption DEF LastSpan
<1>3. \A k \in Nat : Doubled(a.initial_rto, k) \in Nat
  BY <1>1, DoubledFacts, ZenonT(100)
<1>4. a.rtx_count + 1 \in Nat /\ RequestCount - 1 \in Nat
  BY <1>1
<1> QED BY <1>1, <1>2, <1>3, <1>4 DEF Elapsed

\* RetransmitAlgo::init: the first interval is the timeout, and not the last
\* one when there is more than one request.
LEMMA NewOnTime ==
    ASSUME PowersDouble, RequestCount > 1, NEW r \in Nat, NEW at \in Nat, NEW t,
           t.create_time = at, t.algo = NewRtxAlgo(r, at)
    PROVE  OnTime(t, at) /\ t.algo.maybe_next = at + r
<1> DEFINE a == t.algo
<1>1. /\ a.initial_rto = r /\ a.rtx_count = 0 /\ a.last_timeout = r
      /\ a.maybe_next = at + r
  BY DEF NewRtxAlgo
<1>2. a.maybe_next # None
  BY <1>1 DEF None
<1>3. Doubled(r, 0) = r /\ Doubled(r, 0 + 1) = 2 * r
  <2>1. 0 \in Nat
    OBVIOUS
  <2>2. Doubled(r, 0) = r /\ Doubled(r, 0 + 1) = 2 * Doubled(r, 0)
    BY <2>1, DoubledFacts, ZenonT(100)
  <2> QED BY <2>2
<1> HIDE DEF a
<1>4. Elapsed(a) = r
  BY <1>1, <1>3 DEF Elapsed
<1> QED BY <1>1, <1>2, <1>3, <1>4 DEF OnTime, a

\* RetransmitAlgo::next on a timer that has run out keeps the schedule.
LEMMA AlgoOnTime ==
    ASSUME PowersDouble, NEW t \in Transaction, NEW u, NEW at \in Nat,
           t.algo.maybe_next \in Nat, t.algo.maybe_next <= at, t.algo.n5xx = 0,
           t.algo.rtx_count + 1 <= RequestCount,
           u.create_time = t.create_time, u.algo = AlgoNext(t.algo, at),
           OnTime(t, at)
    PROVE  OnTime(u, at)
<1> DEFINE a == t.algo
           b == AlgoNext(a, at)
           r == a.initial_rto
           k == a.rtx_count
<1>1. /\ a \in RetransmitAlgo /\ t.create_time \in Nat /\ r \in Nat /\ k \in Nat
      /\ a.last_timeout \in Nat /\ RequestCount \in Nat \ {0}
  BY ClientAssumption DEF Transaction, RetransmitAlgo
<1>2. a.maybe_next # None
  BY DEF None
<1>3. /\ LastSpan(r) \in Nat /\ Elapsed(a) \in Int
      /\ Doubled(r, k) \in Nat /\ Doubled(r, k + 1) = 2 * Doubled(r, k)
      /\ Doubled(r, k + 2) = 2 * Doubled(r, k + 1)
  <2>1. Doubled(r, k + 1) = 2 * Doubled(r, k)
    BY <1>1, DoubledFacts, ZenonT(100)
  <2>2. PICK j \in Nat : j = k + 1 /\ j + 1 = k + 2
    BY <1>1
  <2>3. Doubled(r, j + 1) = 2 * Doubled(r, j)
    BY <1>1, DoubledFacts, ZenonT(100)
  <2>4. Doubled(r, k + 2) = 2 * Doubled(r, k + 1)
    BY <2>2, <2>3
  <2> QED BY <1>1, <2>1, <2>4, ElapsedType
<1>4. t.create_time + Elapsed(a) <= a.maybe_next
  BY <1>2 DEF OnTime
<1>5. k + 1 < RequestCount => a.last_timeout >= Doubled(r, k)
  BY DEF OnTime
<1>6. CASE ~MoreRequests(a)
  <2>1. b = [a EXCEPT !.maybe_next = None]
    BY <1>1, <1>2, <1>6 DEF AlgoNext
  <2>2. /\ b.maybe_next = None /\ b.rtx_count = k /\ b.initial_rto = r
        /\ b.last_timeout = a.last_timeout
    BY <1>1, <2>1 DEF RetransmitAlgo
  <2>3. k + 1 = RequestCount
    BY <1>1, <1>6 DEF MoreRequests
  <2> HIDE DEF a, b, r, k
  <2>4. Elapsed(b) = Elapsed(a)
    BY <2>2 DEF Elapsed, k, r
  <2>5. t.create_time + Elapsed(b) <= at
    BY <1>1, <1>3, <1>4, <2>4 DEF a
  <2>6. u.algo = b
    BY DEF a, b
  <2> QED BY <1>1, <2>2, <2>3, <2>5, <2>6 DEF OnTime
<1>7. CASE MoreRequests(a)
  <2> DEFINE d == NextTimeout(a)
             m == at + d
  <2>1. b = [a EXCEPT !.maybe_next = m, !.rtx_count = @ + 1, !.last_timeout = d]
    BY <1>1, <1>2, <1>7 DEF AlgoNext
  <2>2. k + 1 < RequestCount
    BY <1>1, <1>7 DEF MoreRequests
  <2>3. d >= IF k + 2 = RequestCount THEN LastSpan(r) ELSE a.last_timeout * 2
    BY <1>1, ClientAssumption DEF NextTimeout, LastSpan, None
  <2>4. d \in Nat
    BY <1>1, NextTimeoutType
  <2>5. m \in Nat /\ m # None
    BY <2>4 DEF None
  <2> HIDE DEF d, m
  <2>6. /\ b.maybe_next = m /\ b.rtx_count = k + 1 /\ b.initial_rto = r
        /\ b.last_timeout = d
    BY <1>1, <2>1, <2>4, <2>5 DEF RetransmitAlgo
  <2>7. Elapsed(a) = Doubled(r, k + 1) - r
    BY <2>2 DEF Elapsed
  <2>8. u.algo = b
    OBVIOUS
  <2> HIDE DEF b
  <2>9. t.create_time + Doubled(r, k + 1) - r + d <= m
    BY <1>1, <1>3, <1>4, <2>4, <2>7 DEF m
  <2>10. CASE k + 2 = RequestCount
    <3>1. Elapsed(b) = Doubled(r, k + 1) - r + LastSpan(r)
      <4>1. RequestCount - 1 = k + 1 /\ ~((k + 1) + 1 < RequestCount)
        BY <1>1, <2>10
      <4> QED BY <2>6, <4>1 DEF Elapsed
    <3>2. t.create_time + Elapsed(b) <= m
      BY <1>1, <1>3, <2>3, <2>4, <2>5, <2>9, <2>10, <3>1
    <3>3. ~(b.rtx_count + 1 < RequestCount)
      BY <1>1, <2>6, <2>10
    <3> QED BY <2>5, <2>6, <2>8, <3>2, <3>3 DEF OnTime
  <2>11. CASE k + 2 # RequestCount
    <3>1. k + 2 < RequestCount /\ (k + 1) + 1 = k + 2
      BY <1>1, <2>2, <2>11
    <3>2. Elapsed(b) = Doubled(r, k + 2) - r
      BY <2>6, <3>1 DEF Elapsed
    <3>3. d >= Doubled(r, k + 1)
      BY <1>1, <1>3, <1>5, <2>2, <2>3, <2>4, <2>11
    <3>4. t.create_time + Elapsed(b) <= m
      BY <1>1, <1>3, <2>4, <2>5, <2>9, <3>2, <3>3
    <3> QED BY <2>5, <2>6, <2>8, <3>3, <3>4 DEF OnTime
  <2> QED BY <2>10, <2>11
<1> QED BY <1>6, <1>7

\* A transaction the step leaves alone.
LEMMA OthersOnSchedule ==
    ASSUME PowersDouble, ScheduleInv, NEW h \in DOMAIN tmap, tmap'[h] = tmap[h],
           now' \in Nat, now' >= now,
           \A f \in timeline' : f[2] = h => f \in timeline,
           tmap[h].algo.n5xx = 0
    PROVE  /\ \A f \in timeline' : f[2] = h => f[1] = tmap'[h].algo.maybe_next
           /\ OnTime(tmap'[h], now')
<1>1. /\ \A e \in timeline : e[2] = h => e[1] = tmap[h].algo.maybe_next
      /\ OnTime(tmap[h], now)
  BY DEF ScheduleInv, OnSchedule
<1>2. /\ now \in Nat /\ tmap[h].create_time \in Nat /\ tmap[h].algo \in RetransmitAlgo
  BY DEF ScheduleInv, SafetyInv, TypeInv, TypeOK, Transaction
<1>3. Elapsed(tmap[h].algo) \in Int
  BY <1>2, ElapsedType
<1>4. OnTime(tmap[h], now')
  BY <1>1, <1>2, <1>3 DEF OnTime
<1> QED BY <1>1, <1>4

\* create() starts the schedule.
LEMMA CreateOnSchedule ==
    ASSUME PowersDouble, RequestCount > 1, ScheduleInv, NEW tid \in Tid, NEW p \in Path,
           NEW auth \in Authenticated, Create(tid, p, auth)
    PROVE  OnSchedule'
<1>0. PICK h \in Handle : h = next_handle
  BY AllocatesNext DEF Create, ScheduleInv, SafetyInv
<1> DEFINE r == Rto(p)
           a == NewRtxAlgo(r, now)
           t == [tid |-> tid, path |-> p, create_time |-> now, auth |-> auth,
                 rtx_count |-> 0, algo |-> a]
<1>1. AllocateHandle = h /\ h \notin DOMAIN tmap
  BY <1>0, AllocatesNext DEF ScheduleInv, SafetyInv
<1>2. r \in Nat /\ now \in Nat
  BY RtoType DEF ScheduleInv, SafetyInv, TypeInv, TypeOK
<1>3. /\ tmap' = Assign(tmap, h, t) /\ now' = now
      /\ timeline' = timeline \cup {<<a.maybe_next, h>>}
  BY <1>1, ZenonT(100) DEF Create, AllocateRtxAlgo
<1>4. t.create_time = now /\ t.algo = NewRtxAlgo(r, now)
  OBVIOUS
<1> HIDE DEF t, r
<1>5. OnTime(t, now) /\ t.algo = a /\ a.maybe_next = now + r
  BY <1>2, <1>4, NewOnTime
<1> HIDE DEF a
<1>6. /\ DOMAIN tmap' = DOMAIN tmap \cup {h} /\ tmap'[h] = t
      /\ \A x \in DOMAIN tmap : tmap'[x] = tmap[x]
  BY <1>1, <1>3 DEF Assign
<1>7. \A f \in timeline : f[2] # h
  BY <1>0, HandleFacts DEF ScheduleInv, SafetyInv, Issued, TypeInv, TypeOK
<1>8. \A f \in timeline' : f[2] = h => f[1] = t.algo.maybe_next
  BY <1>3, <1>5, <1>7
<1>9. ASSUME NEW x \in DOMAIN tmap, tmap'[x].algo.n5xx = 0
      PROVE  /\ \A f \in timeline' : f[2] = x => f[1] = tmap'[x].algo.maybe_next
             /\ OnTime(tmap'[x], now')
  <2>1. \A f \in timeline' : f[2] = x => f \in timeline
    <3>1. x # h /\ \A f \in timeline' : f \in timeline \/ f = <<a.maybe_next, h>>
      BY <1>1, <1>3
    <3> QED BY <3>1
  <2>2. now' \in Nat /\ now' >= now
    BY <1>2, <1>3
  <2>3. tmap'[x] = tmap[x] /\ tmap[x].algo.n5xx = 0
    BY <1>6, <1>9
  <2> QED BY <2>1, <2>2, <2>3, OthersOnSchedule
<1> QED BY <1>3, <1>5, <1>6, <1>8, <1>9 DEF OnSchedule

\* response() ends the transaction, ignores the datagram, or leaves the
\* schedule to a 5xx.
LEMMA ResponseOnSchedule ==
    ASSUME ScheduleInv, NEW m \in Datagram, Response(m)
    PROVE  OnSchedule'
<1>1. now' = now /\ timeline' = timeline
  BY ResponseStep DEF ScheduleInv, SafetyInv
<1>2. CASE tmap' = tmap
  BY <1>1, <1>2 DEF ScheduleInv, OnSchedule, OnTime
<1>3. ASSUME NEW h \in DOMAIN tmap, Schedules5xx(tmap[h].algo),
             tmap' = [tmap EXCEPT ![h].algo = Algo5xx(@, now)]
      PROVE  OnSchedule'
  <2>1. /\ tmap[h] \in Transaction /\ tmap[h].algo \in RetransmitAlgo
        /\ tmap[h].algo.n5xx \in Nat /\ now \in Nat
    BY DEF ScheduleInv, SafetyInv, TypeInv, TypeOK, Transaction, RetransmitAlgo
  <2>2. Algo5xx(tmap[h].algo, now).n5xx = tmap[h].algo.n5xx + 1
    BY <1>3, <2>1, Algo5xxType
  <2>3. /\ DOMAIN tmap' = DOMAIN tmap
        /\ \A x \in DOMAIN tmap : x # h => tmap'[x] = tmap[x]
        /\ tmap'[h].algo = Algo5xx(tmap[h].algo, now)
    BY <1>3, <2>1 DEF Transaction
  <2>4. tmap'[h].algo.n5xx # 0
    BY <2>1, <2>2, <2>3
  <2> QED BY <1>1, <2>3, <2>4 DEF ScheduleInv, OnSchedule, OnTime
<1> QED BY <1>2, <1>3, ResponseStep DEF ScheduleInv, SafetyInv

\* A timer that runs out waits for the next, doubled interval.
LEMMA PopOnSchedule ==
    ASSUME PowersDouble, ScheduleInv, NEW e \in timeline, NextPop(e)
    PROVE  OnSchedule'
<1>0. PICK h \in Handle : h = e[2]
  BY PopStep, ZenonT(100) DEF ScheduleInv, SafetyInv
<1>1. e[1] \in Nat /\ e[1] <= now /\ now \in Nat /\ now' = now
  BY PopStep, ZenonT(100) DEF ScheduleInv, SafetyInv, TypeInv, TypeOK
<1>2. ASSUME NEW x \in DOMAIN tmap, tmap'[x] = tmap[x], tmap'[x].algo.n5xx = 0,
             \A f \in timeline' : f[2] = x => f \in timeline
      PROVE  /\ \A f \in timeline' : f[2] = x => f[1] = tmap'[x].algo.maybe_next
             /\ OnTime(tmap'[x], now')
  <2>1. now' \in Nat /\ now' >= now
    BY <1>1
  <2> QED BY <1>2, <2>1, OthersOnSchedule
<1>3. CASE timeline' = timeline \ {e} /\ tmap' = tmap
  BY <1>2, <1>3 DEF OnSchedule
<1>4. ASSUME h \in DOMAIN tmap, NEW b \in RetransmitAlgo,
             b = AlgoNext(tmap[h].algo, now),
             DOMAIN tmap' = DOMAIN tmap,
             \A x \in DOMAIN tmap : x # h => tmap'[x] = tmap[x],
             tmap'[h].algo = b, tmap'[h].create_time = tmap[h].create_time,
             \A f \in timeline' : f[2] # h => f \in timeline,
             \A f \in timeline' : f[2] = h => f[1] = b.maybe_next
      PROVE  OnSchedule'
  <2>1. tmap[h] \in Transaction /\ tmap[h].algo \in RetransmitAlgo
    <3>1. tmap[h] \in Transaction
      BY <1>4, ZenonT(100) DEF ScheduleInv, SafetyInv, TypeInv, TypeOK
    <3> QED BY <3>1 DEF Transaction
  <2>2. b.n5xx = tmap[h].algo.n5xx
    <3>1. now \in Nat
      BY <1>1
    <3>2. b = AlgoNext(tmap[h].algo, now)
      BY <1>4
    <3> QED BY ONLY <2>1, <3>1, <3>2, AlgoNextType, SMTT(100)
  <2>3. ASSUME b.n5xx = 0 PROVE OnTime(tmap'[h], now)
    <3>1. OnTime(tmap[h], now) /\ tmap[h].algo.maybe_next = e[1]
      BY <1>0, <1>4, <2>2, <2>3, ZenonT(100) DEF ScheduleInv, OnSchedule
    <3>2. tmap[h].algo.rtx_count + 1 <= RequestCount
      <4>1. Paid(h)
        BY <1>4 DEF ScheduleInv, SafetyInv, AllPaid
      <4> QED BY <2>1, <2>2, <2>3, <4>1, ClientAssumption DEF Paid, RetransmitAlgo
    <3> QED BY <1>1, <1>4, <2>1, <2>2, <2>3, <3>1, <3>2, AlgoOnTime, ZenonT(100)
  <2>4. ASSUME NEW x \in DOMAIN tmap', tmap'[x].algo.n5xx = 0
        PROVE  /\ \A f \in timeline' : f[2] = x => f[1] = tmap'[x].algo.maybe_next
               /\ OnTime(tmap'[x], now')
    <3>1. CASE x = h
      BY <1>1, <1>4, <2>3, <2>4, <3>1
    <3>2. CASE x # h
      BY <1>2, <1>4, <2>4, <3>2
    <3> QED BY <3>1, <3>2
  <2> QED BY <2>4 DEF OnSchedule
<1>5. ASSUME h \in DOMAIN tmap, NEW b \in RetransmitAlgo,
             b = AlgoNext(tmap[h].algo, now),
             tmap' = [tmap EXCEPT ![h] = [tmap[h] EXCEPT
                         !.algo = b, !.rtx_count = tmap[h].rtx_count + 1]],
             timeline' = (timeline \ {e}) \cup {<<b.maybe_next, h>>}
      PROVE  OnSchedule'
  <2> DEFINE r == tmap[h].rtx_count + 1
  <2>1. tmap[h] \in Transaction
    BY <1>5 DEF ScheduleInv, SafetyInv, TypeInv, TypeOK
  <2>2. tmap' = [tmap EXCEPT ![h] = [tmap[h] EXCEPT !.algo = b, !.rtx_count = r]]
    BY <1>5
  <2> HIDE DEF r
  <2>3. /\ DOMAIN tmap' = DOMAIN tmap
        /\ \A x \in DOMAIN tmap : x # h => tmap'[x] = tmap[x]
        /\ tmap'[h].algo = b /\ tmap'[h].create_time = tmap[h].create_time
    BY <1>5, <2>1, <2>2, ZenonT(100) DEF Transaction
  <2>4. /\ \A f \in timeline' : f[2] # h => f \in timeline
        /\ \A f \in timeline' : f[2] = h => f[1] = b.maybe_next
    BY <1>0, <1>5 DEF ScheduleInv, SafetyInv, OneTimer
  <2> QED BY <1>4, <1>5, <2>3, <2>4
<1>6. ASSUME h \in DOMAIN tmap, NEW b \in RetransmitAlgo,
             b = AlgoNext(tmap[h].algo, now),
             tmap' = [tmap EXCEPT ![h].algo = b], timeline' = timeline \ {e}
      PROVE  OnSchedule'
  <2>1. tmap[h] \in Transaction
    BY <1>6 DEF ScheduleInv, SafetyInv, TypeInv, TypeOK
  <2>2. /\ DOMAIN tmap' = DOMAIN tmap
        /\ \A x \in DOMAIN tmap : x # h => tmap'[x] = tmap[x]
        /\ tmap'[h].algo = b /\ tmap'[h].create_time = tmap[h].create_time
    BY <1>6, <2>1 DEF Transaction
  <2>3. /\ \A f \in timeline' : f[2] # h => f \in timeline
        /\ \A f \in timeline' : f[2] = h => f[1] = b.maybe_next
    BY <1>0, <1>6 DEF ScheduleInv, SafetyInv, OneTimer
  <2> QED BY <1>4, <1>6, <2>2, <2>3
<1> QED BY <1>0, <1>3, <1>5, <1>6, PopStep, ZenonT(100) DEF ScheduleInv, SafetyInv

\* next() returns an effect, a Sleep or an Idle, or time passes.
LEMMA QuietOnSchedule ==
    ASSUME PowersDouble, ScheduleInv, timeline' = timeline, now' \in Nat, now' >= now,
           DOMAIN tmap' \subseteq DOMAIN tmap, \A x \in DOMAIN tmap' : tmap'[x] = tmap[x]
    PROVE  OnSchedule'
BY OthersOnSchedule DEF OnSchedule

\* Every step keeps the schedule.
LEMMA NextOnSchedule ==
    PowersDouble /\ RequestCount > 1 /\ ScheduleInv /\ [Next]_vars => ScheduleInv'
<1> SUFFICES ASSUME PowersDouble, RequestCount > 1, ScheduleInv, [Next]_vars
             PROVE  ScheduleInv'
  OBVIOUS
<1>0. SafetyInv'
  BY NextSafe DEF ScheduleInv
<1> SUFFICES OnSchedule'
  BY <1>0 DEF ScheduleInv
<1>1. ASSUME NEW tid \in Tid, NEW p \in Path, NEW auth \in Authenticated,
             Create(tid, p, auth)
      PROVE  OnSchedule'
  BY <1>1, CreateOnSchedule
<1>2. ASSUME NEW m \in Datagram, Response(m) PROVE OnSchedule'
  BY <1>2, ResponseOnSchedule
<1>3. ASSUME NEW e \in timeline, NextPop(e) PROVE OnSchedule'
  BY <1>3, PopOnSchedule
<1>4. now \in Nat
  BY DEF ScheduleInv, SafetyInv, TypeInv, TypeOK
<1>5. CASE NextEffect
  <2>1. now' = now /\ timeline' = timeline
    BY <1>5 DEF NextEffect
  <2>2. DOMAIN tmap' \subseteq DOMAIN tmap /\ \A x \in DOMAIN tmap' : tmap'[x] = tmap[x]
    BY <1>5, EffectStep, CleanupStep, ZenonT(100) DEF ScheduleInv, SafetyInv
  <2>3. now' \in Nat /\ now' >= now
    BY <1>4, <2>1
  <2> QED BY <2>1, <2>2, <2>3, QuietOnSchedule
<1>6. CASE NextWait \/ Tick \/ UNCHANGED vars
  <2>1. timeline' = timeline /\ tmap' = tmap /\ (now' = now \/ now' = now + 1)
    BY <1>6 DEF NextWait, Tick, vars, clientVars
  <2>2. now' \in Nat /\ now' >= now
    BY <1>4, <2>1
  <2> QED BY <2>1, <2>2, QuietOnSchedule
<1> QED BY <1>1, <1>2, <1>3, <1>5, <1>6 DEF Next, NextCall

\* The timeouts come when the schedule has run down.
LEMMA GivesUpOnSchedule ==
    ASSUME PowersDouble, RequestCount > 1
    PROVE  Spec => []NoEarlyTimeout
<1>1. Init => ScheduleInv
  <2>1. Init => DOMAIN tmap = {}
    BY DEF Init
  <2> QED BY <2>1, InitSafe DEF ScheduleInv, OnSchedule
<1>2. ASSUME ScheduleInv PROVE NoEarlyTimeout
  <2> SUFFICES ASSUME NEW h \in DOMAIN tmap, tmap[h].algo.n5xx = 0,
                      tmap[h].algo.maybe_next = None
               PROVE  now - tmap[h].create_time >= Schedule(tmap[h].algo.initial_rto)
    BY DEF NoEarlyTimeout
  <2> DEFINE a == tmap[h].algo
             r == a.initial_rto
             k == RequestCount - 1
  <2>1. /\ now \in Nat /\ tmap[h].create_time \in Nat /\ a \in RetransmitAlgo
        /\ r \in Nat /\ a.rtx_count \in Nat
    BY <1>2 DEF ScheduleInv, SafetyInv, TypeInv, TypeOK, Transaction, RetransmitAlgo
  <2>2. OnTime(tmap[h], now)
    BY <1>2 DEF ScheduleInv, OnSchedule
  <2>3. tmap[h].create_time + Elapsed(a) <= now /\ a.rtx_count + 1 = RequestCount
    BY <2>2 DEF OnTime
  <2>4. k \in Nat
    BY ClientAssumption
  <2>5. Elapsed(a) = Doubled(r, k) - r + LastSpan(r)
    BY <2>1, <2>3 DEF Elapsed
  <2>6. LastSpan(r) \in Nat /\ Doubled(r, k) \in Nat
    BY <2>1, <2>4, ElapsedType
  <2> HIDE DEF k
  <2>7. r * (2^k - 1) = Doubled(r, k) - r
    BY <2>1, <2>4, DoubledFacts
  <2>8. Schedule(r) = r * (2^k - 1) + LastSpan(r)
    BY DEF Schedule, LastSpan, k
  <2> HIDE DEF r
  <2>9. Schedule(r) = Elapsed(a)
    BY <2>5, <2>7, <2>8
  <2> HIDE DEF a
  <2>10. Elapsed(a) \in Int
    BY <2>1, <2>5, <2>6
  <2>11. now - tmap[h].create_time >= Elapsed(a)
    BY <2>1, <2>3, <2>10
  <2> QED BY <2>9, <2>11 DEF r, a
<1>3. ScheduleInv /\ [Next]_vars => ScheduleInv'
  BY NextOnSchedule
<1> QED BY <1>1, <1>2, <1>3, PTL DEF Spec

-----------------------------------------------------------------------------
(* What is used of finite sets.  The theorems of the library are brought   *)
(* in last, at the end of StunClientExample_proofs: they slow down every   *)
(* proof that follows them.                                                *)

FiniteWithin == \A n \in Nat : \A S \in SUBSET (0 .. n) : IsFiniteSet(S)

SizeNatural == \A S : IsFiniteSet(S) => Cardinality(S) \in Nat

SizeEmpty == Cardinality({}) = 0

SizeAdded ==
    \A S, x : IsFiniteSet(S) =>
        Cardinality(S \cup {x}) = IF x \in S THEN Cardinality(S) ELSE Cardinality(S) + 1

SizeRemoved ==
    \A S, x : IsFiniteSet(S) =>
        /\ IsFiniteSet(S \ {x})
        /\ Cardinality(S \ {x}) = IF x \in S THEN Cardinality(S) - 1 ELSE Cardinality(S)

SizeMatched ==
    \A S, T : IsFiniteSet(S) /\ ExistsBijection(S, T) => Cardinality(T) = Cardinality(S)

FiniteSetLaws ==
    FiniteWithin /\ SizeNatural /\ SizeEmpty /\ SizeAdded /\ SizeRemoved /\ SizeMatched

\* The laws, one by one.
LEMMA Within ==
    ASSUME FiniteSetLaws, NEW n \in Nat, NEW S \in SUBSET (0 .. n)
    PROVE  IsFiniteSet(S)
BY ZenonT(100) DEF FiniteSetLaws, FiniteWithin

LEMMA SizeType ==
    ASSUME FiniteSetLaws, NEW S, IsFiniteSet(S) PROVE Cardinality(S) \in Nat
BY ZenonT(100) DEF FiniteSetLaws, SizeNatural

LEMMA SizeAdd ==
    ASSUME FiniteSetLaws, NEW S, NEW x, IsFiniteSet(S)
    PROVE  Cardinality(S \cup {x}) = IF x \in S THEN Cardinality(S) ELSE Cardinality(S) + 1
BY ZenonT(100) DEF FiniteSetLaws, SizeAdded

LEMMA SizeRemove ==
    ASSUME FiniteSetLaws, NEW S, NEW x, IsFiniteSet(S)
    PROVE  /\ IsFiniteSet(S \ {x})
           /\ Cardinality(S \ {x}) = IF x \in S THEN Cardinality(S) - 1 ELSE Cardinality(S)
BY ZenonT(100) DEF FiniteSetLaws, SizeRemoved

-----------------------------------------------------------------------------
(* Counting the effects of a kind in a queue.                              *)

\* How many effects of s are in P.
Counted(s, P) == Cardinality({i \in 1 .. Len(s) : s[i] \in P})

\* The effects counted are finitely many.
LEMMA CountType ==
    ASSUME FiniteSetLaws, NEW s \in Seq(EffectSet), NEW P
    PROVE  /\ IsFiniteSet({i \in 1 .. Len(s) : s[i] \in P})
           /\ Counted(s, P) \in Nat
<1> DEFINE S == {i \in 1 .. Len(s) : s[i] \in P}
<1>1. Len(s) \in Nat /\ S \in SUBSET (0 .. Len(s))
  OBVIOUS
<1> HIDE DEF S
<1>2. IsFiniteSet(S)
  BY <1>1, Within, ZenonT(100)
<1>3. Cardinality(S) \in Nat
  BY <1>2, SizeType
<1> QED BY <1>2, <1>3 DEF Counted, S

\* An empty queue has none.
LEMMA CountEmpty ==
    ASSUME FiniteSetLaws, NEW P
    PROVE  Counted(<<>>, P) = 0
<1>1. {i \in 1 .. Len(<<>>) : <<>>[i] \in P} = {}
  OBVIOUS
<1> QED BY <1>1 DEF Counted, FiniteSetLaws, SizeEmpty

\* An effect that is queued is counted when it is in P.
LEMMA CountAppend ==
    ASSUME FiniteSetLaws, NEW s \in Seq(EffectSet), NEW x \in EffectSet, NEW P
    PROVE  Counted(Append(s, x), P) = IF x \in P THEN Counted(s, P) + 1 ELSE Counted(s, P)
<1> DEFINE t == Append(s, x)
           S == {i \in 1 .. Len(s) : s[i] \in P}
           T == {i \in 1 .. Len(t) : t[i] \in P}
           n == Len(s) + 1
<1>1. Len(s) \in Nat /\ Len(t) = n /\ t[n] = x /\ \A i \in 1 .. Len(s) : t[i] = s[i]
  OBVIOUS
<1> HIDE DEF t
<1>2. T = IF x \in P THEN S \cup {n} ELSE S
  <2>1. ASSUME NEW i PROVE i \in T <=> i \in S \/ (i = n /\ x \in P)
    BY <1>1
  <2> HIDE DEF S, T
  <2> QED BY <2>1, ZenonT(100)
<1>3. n \notin S
  BY <1>1
<1>0. IsFiniteSet(S)
  BY CountType, ZenonT(100)
<1>4. Counted(t, P) = Cardinality(T) /\ Counted(s, P) = Cardinality(S)
  BY DEF Counted
<1> HIDE DEF S, T, n
<1>5. Counted(t, P) = IF x \in P THEN Counted(s, P) + 1 ELSE Counted(s, P)
  BY <1>0, <1>2, <1>3, <1>4, SizeAdd, ZenonT(100)
<1> QED BY <1>5 DEF t

\* The first effect is no longer counted once it is taken.
LEMMA CountTail ==
    ASSUME FiniteSetLaws, NEW s \in Seq(EffectSet), NEW t \in Seq(EffectSet), NEW P,
           Len(s) > 0, Len(t) = Len(s) - 1, \A i \in 1 .. Len(t) : t[i] = s[i + 1]
    PROVE  Counted(s, P) = IF s[1] \in P THEN Counted(t, P) + 1 ELSE Counted(t, P)
<1> DEFINE S == {i \in 1 .. Len(s) : s[i] \in P}
           T == {i \in 1 .. Len(t) : t[i] \in P}
           f == [i \in T |-> i + 1]
<1>1. Len(s) \in Nat
  OBVIOUS
<1>2. f \in Bijection(T, S \ {1})
  <2>1. f \in [T -> S \ {1}]
    BY <1>1
  <2>2. \A i, j \in T : f[i] = f[j] => i = j
    BY <1>1
  <2>3. ASSUME NEW k \in S \ {1} PROVE \E i \in T : f[i] = k
    <3>1. k - 1 \in T /\ f[k - 1] = k
      BY <1>1
    <3> QED BY <3>1
  <2> HIDE DEF f, S, T
  <2> QED BY <2>1, <2>2, <2>3 DEF Bijection, Injection, Surjection, IsInjective
<1>3. 1 \in S <=> s[1] \in P
  BY <1>1
<1>4. Counted(t, P) = Cardinality(T) /\ Counted(s, P) = Cardinality(S)
  BY DEF Counted
<1>5. IsFiniteSet(S) /\ IsFiniteSet(T)
  BY CountType, ZenonT(100)
<1> HIDE DEF S, T, f
<1>6. Cardinality(S \ {1}) = Cardinality(T)
  <2>1. ExistsBijection(T, S \ {1})
    BY <1>2, ZenonT(100) DEF ExistsBijection
  <2> QED BY <1>5, <2>1, ZenonT(100) DEF FiniteSetLaws, SizeMatched
<1>7. Cardinality(S) \in Nat /\ Cardinality(T) \in Nat
  BY <1>5, SizeType
<1>8. Cardinality(S \ {1}) = IF 1 \in S THEN Cardinality(S) - 1 ELSE Cardinality(S)
  BY <1>5, SizeRemove, ZenonT(100)
<1> QED BY <1>3, <1>4, <1>6, <1>7, <1>8

-----------------------------------------------------------------------------
(* The SendData effects of a handle in m_effects, and its outcomes.        *)

Sends(h) == {e \in EffectSet : IsSendData(e, h)}

Outcomes(h) == {e \in EffectSet : IsOutcome(e) /\ e.hnd = h}

\* The two counts of the specification are counts of effects of a kind.
LEMMA QueuedCounts ==
    ASSUME effects \in Seq(EffectSet), NEW h
    PROVE  /\ QueuedSends(h) = Counted(effects, Sends(h))
           /\ QueuedOutcomes(h) = Counted(effects, Outcomes(h))
<1>1. \A i \in 1 .. Len(effects) : effects[i] \in EffectSet
  OBVIOUS
<1>2. /\ {i \in 1 .. Len(effects) : IsSendData(effects[i], h)}
            = {i \in 1 .. Len(effects) : effects[i] \in Sends(h)}
      /\ {i \in 1 .. Len(effects) : IsOutcome(effects[i]) /\ effects[i].hnd = h}
            = {i \in 1 .. Len(effects) : effects[i] \in Outcomes(h)}
  BY <1>1 DEF Sends, Outcomes
<1> QED BY <1>2, Zenon DEF QueuedSends, QueuedOutcomes, Counted

\* The same of the next state.
LEMMA QueuedCountsNext ==
    ASSUME effects' \in Seq(EffectSet), NEW h
    PROVE  /\ QueuedSends(h)' = Counted(effects', Sends(h))
           /\ QueuedOutcomes(h)' = Counted(effects', Outcomes(h))
<1>1. \A i \in 1 .. Len(effects') : effects'[i] \in EffectSet
  OBVIOUS
<1>2. /\ {i \in 1 .. Len(effects') : IsSendData(effects'[i], h)}
            = {i \in 1 .. Len(effects') : effects'[i] \in Sends(h)}
      /\ {i \in 1 .. Len(effects') : IsOutcome(effects'[i]) /\ effects'[i].hnd = h}
            = {i \in 1 .. Len(effects') : effects'[i] \in Outcomes(h)}
  BY <1>1 DEF Sends, Outcomes
<1> QED BY <1>2, Zenon DEF QueuedSends, QueuedOutcomes, Counted, IsSendData, IsOutcome

\* What a SendData effect is, and that no outcome is one.
LEMMA SendDataFacts ==
    ASSUME NEW h \in Handle
    PROVE  /\ SendData(h) \in EffectSet /\ ~IsOutcome(SendData(h))
           /\ SendData(h).hnd = h /\ SendData(h).type = "SendData"
           /\ \A g : IsSendData(SendData(h), g) <=> g = h
           /\ \A x : IsOutcome(x) => ~IsSendData(x, h)
BY DEF SendData, Effect, EffectSet, Reason, IsOutcome, IsSendData

\* The queued effects of a handle are a natural number.
LEMMA QueuedType ==
    ASSUME FiniteSetLaws, TypeOK, NEW h
    PROVE  QueuedSends(h) \in Nat /\ QueuedOutcomes(h) \in Nat
<1>1. effects \in Seq(EffectSet)
  BY DEF TypeOK
<1> QED BY <1>1, QueuedCounts, CountType, Zenon

\* An effect that is queued is counted when it is a SendData, or an outcome, of h.
LEMMA AppendCount ==
    ASSUME FiniteSetLaws, TypeOK, NEW x \in EffectSet, effects' = Append(effects, x), NEW h
    PROVE  /\ QueuedSends(h)' = IF IsSendData(x, h) THEN QueuedSends(h) + 1
                                                    ELSE QueuedSends(h)
           /\ QueuedOutcomes(h)' = IF IsOutcome(x) /\ x.hnd = h
                                   THEN QueuedOutcomes(h) + 1 ELSE QueuedOutcomes(h)
<1>1. effects \in Seq(EffectSet) /\ effects' \in Seq(EffectSet)
  BY DEF TypeOK
<1>2. /\ x \in Sends(h) <=> IsSendData(x, h)
      /\ x \in Outcomes(h) <=> IsOutcome(x) /\ x.hnd = h
  BY DEF Sends, Outcomes
<1>3. /\ QueuedSends(h) = Counted(effects, Sends(h))
      /\ QueuedOutcomes(h) = Counted(effects, Outcomes(h))
  BY <1>1, QueuedCounts
<1>4. /\ QueuedSends(h)' = Counted(effects', Sends(h))
      /\ QueuedOutcomes(h)' = Counted(effects', Outcomes(h))
  BY <1>1, QueuedCountsNext
<1>5. \A P : Counted(effects', P) = IF x \in P THEN Counted(effects, P) + 1
                                               ELSE Counted(effects, P)
  BY <1>1, CountAppend, ZenonT(100)
<1> QED BY <1>2, <1>3, <1>4, <1>5, ZenonT(100)

\* The effect next() takes from the queue is no longer counted.
LEMMA TailCount ==
    ASSUME FiniteSetLaws, TypeOK, effects' \in Seq(EffectSet),
           Len(effects) > 0, Len(effects') = Len(effects) - 1,
           \A i \in 1 .. Len(effects') : effects'[i] = effects[i + 1], NEW h
    PROVE  /\ QueuedSends(h)' \in Nat /\ QueuedOutcomes(h)' \in Nat
           /\ QueuedSends(h) = IF IsSendData(effects[1], h) THEN QueuedSends(h)' + 1
                                                           ELSE QueuedSends(h)'
           /\ QueuedOutcomes(h) = IF IsOutcome(effects[1]) /\ effects[1].hnd = h
                                  THEN QueuedOutcomes(h)' + 1 ELSE QueuedOutcomes(h)'
<1>1. effects \in Seq(EffectSet) /\ effects[1] \in EffectSet
  BY DEF TypeOK
<1>2. /\ effects[1] \in Sends(h) <=> IsSendData(effects[1], h)
      /\ effects[1] \in Outcomes(h) <=> IsOutcome(effects[1]) /\ effects[1].hnd = h
  BY <1>1 DEF Sends, Outcomes
<1>3. /\ QueuedSends(h) = Counted(effects, Sends(h))
      /\ QueuedOutcomes(h) = Counted(effects, Outcomes(h))
  BY <1>1, QueuedCounts
<1>4. /\ QueuedSends(h)' = Counted(effects', Sends(h))
      /\ QueuedOutcomes(h)' = Counted(effects', Outcomes(h))
  BY QueuedCountsNext
<1>5. \A P : /\ Counted(effects', P) \in Nat
             /\ Counted(effects, P) = IF effects[1] \in P THEN Counted(effects', P) + 1
                                                          ELSE Counted(effects', P)
  BY <1>1, CountTail, CountType, ZenonT(100)
<1> QED BY <1>2, <1>3, <1>4, <1>5, ZenonT(100)

-----------------------------------------------------------------------------
(* The requests handed out for a transaction, in the queue or returned,    *)
(* are the first one and those next() counted in rtx_count.  A transaction *)
(* that has ended is charged what it was charged when it ended: nothing is *)
(* queued for it any more.                                                 *)

MaxRequests == RequestCount + 2 * ServerErrorMax

SendsCounted ==
    /\ \A h \in DOMAIN tmap : sent[h] + QueuedSends(h) = 1 + tmap[h].rtx_count
    /\ \A h \in ended : sent[h] + QueuedSends(h) <= MaxRequests
    /\ \A h \in Handle : h >= next_handle => sent[h] = 0

SendsInv == SafetyInv /\ SendsCounted

\* What the invariant says of the types.
LEMMA SendsTypes ==
    ASSUME SendsInv
    PROVE  /\ SafetyInv /\ TypeInv /\ TypeOK
           /\ next_handle \in Nat /\ ended \subseteq Handle /\ DOMAIN tmap \subseteq Handle
           /\ effects \in Seq(EffectSet) /\ Len(effects) \in Nat
<1>1. SafetyInv /\ TypeInv /\ TypeOK
  BY DEF SendsInv, SafetyInv, TypeInv
<1>2. next_handle \in Nat
  BY <1>1, HandleFacts DEF TypeOK
<1>3. ended \subseteq Handle /\ DOMAIN tmap \subseteq Handle
  BY <1>1 DEF TypeOK
<1>4. effects \in Seq(EffectSet) /\ Len(effects) \in Nat
  BY <1>1 DEF TypeOK
<1> QED BY <1>1, <1>2, <1>3, <1>4

\* An effect next() returns leaves the queue.
LEMMA EffectLeaves ==
    ASSUME TypeInv, NextEffect
    PROVE  /\ Len(effects) \in Nat /\ Len(effects') \in Nat /\ Len(effects') <= Len(effects)
           /\ next_handle' = next_handle
           /\ ended' = IF IsOutcome(effects[1]) THEN ended \cup {effects[1].hnd} ELSE ended
<1>1. Len(effects) \in Nat
  BY DEF TypeInv, TypeOK
<1>2. Len(effects) > 0 /\ Len(effects') = Len(effects) - 1
  BY EffectStep
<1>3. Head(effects) = effects[1] /\ next_handle' = next_handle
  BY EffectStep
<1>4. ended' = IF IsOutcome(effects[1]) THEN ended \cup {effects[1].hnd} ELSE ended
  BY EffectStep
<1> QED BY <1>1, <1>2, <1>3, <1>4

\* Nothing is queued for a handle that was not issued.
LEMMA UnissuedCount ==
    ASSUME FiniteSetLaws, SafetyInv, NEW h \in Handle, h >= next_handle
    PROVE  QueuedSends(h) = 0
<1> DEFINE S == {i \in 1 .. Len(effects) : IsSendData(effects[i], h)}
<1>1. next_handle \in Nat /\ h \in Nat
  BY HandleFacts DEF SafetyInv, TypeInv, TypeOK
<1>2. ASSUME NEW i \in 1 .. Len(effects) PROVE ~IsSendData(effects[i], h)
  <2>1. effects[i].hnd < next_handle
    BY DEF SafetyInv, Issued
  <2> QED BY <1>1, <2>1 DEF IsSendData
<1>3. S = {}
  BY <1>2
<1> HIDE DEF S
<1>4. Cardinality(S) = 0
  BY <1>3 DEF FiniteSetLaws, SizeEmpty
<1> QED BY <1>4 DEF QueuedSends, S

\* What is counted is a natural number, and each retransmission of a live
\* transaction is within the bound.
LEMMA CountFacts ==
    ASSUME FiniteSetLaws, SendsInv
    PROVE  /\ \A h \in Handle : sent[h] \in Nat /\ QueuedSends(h) \in Nat
           /\ MaxRequests \in Nat
           /\ \A h \in DOMAIN tmap : /\ h \in Handle /\ tmap[h].rtx_count \in Nat
                                     /\ sent[h] + QueuedSends(h) <= MaxRequests
<1>1. TypeOK
  BY DEF SendsInv, SafetyInv, TypeInv
<1>2. \A h \in Handle : sent[h] \in Nat /\ QueuedSends(h) \in Nat
  BY <1>1, QueuedType, ZenonT(100) DEF TypeOK
<1>3. MaxRequests \in Nat /\ RequestCount \in Nat /\ ServerErrorMax \in Nat
  BY ClientAssumption DEF MaxRequests
<1>4. ASSUME NEW h \in DOMAIN tmap
      PROVE  /\ h \in Handle /\ tmap[h].rtx_count \in Nat
             /\ sent[h] + QueuedSends(h) <= MaxRequests
  <2>1. /\ h \in Handle /\ tmap[h].rtx_count \in Nat
        /\ tmap[h].algo.n5xx \in Nat /\ tmap[h].algo.rtx_count \in Nat
    BY <1>1 DEF TypeOK, Transaction, RetransmitAlgo
  <2>2. Paid(h)
    BY DEF SendsInv, SafetyInv, AllPaid
  <2>3. sent[h] + QueuedSends(h) = 1 + tmap[h].rtx_count
    BY DEF SendsInv, SendsCounted
  <2> QED BY <1>3, <2>1, <2>2, <2>3 DEF Paid, MaxRequests
<1> QED BY <1>2, <1>3, <1>4

\* create() owes one send and queues it.
LEMMA CreateCounted ==
    ASSUME FiniteSetLaws, SendsInv, SafetyInv', NEW tid \in Tid, NEW p \in Path,
           NEW auth \in Authenticated, Create(tid, p, auth)
    PROVE  SendsCounted'
<1>00. TypeInv /\ LiveOrEnded /\ TypeOK /\ ended \subseteq Handle
  BY SendsTypes DEF SafetyInv
<1>0. PICK h \in Handle : h = next_handle
  BY <1>00, AllocatesNext DEF Create
<1>1. AllocateHandle = h /\ h \notin DOMAIN tmap /\ h \notin ended
  BY <1>0, <1>00, AllocatesNext
<1>2. /\ next_handle' = h + 1 /\ effects' = Append(effects, SendData(h))
      /\ ended' = ended /\ sent' = sent
      /\ DOMAIN tmap' = DOMAIN tmap \cup {h} /\ tmap'[h].rtx_count = 0
      /\ \A x \in DOMAIN tmap : tmap'[x] = tmap[x]
  BY <1>1 DEF Create, Assign
<1>3. h \in Nat /\ Handle \subseteq Nat
  BY HandleFacts
<1>4. \A x \in Handle : QueuedSends(x)' = IF x = h THEN QueuedSends(x) + 1
                                                   ELSE QueuedSends(x)
  BY <1>00, <1>2, SendDataFacts, AppendCount
<1>5. QueuedSends(h) = 0 /\ sent[h] = 0
  BY <1>0, <1>3, UnissuedCount DEF SendsInv, SendsCounted
<1>6. ASSUME NEW x \in DOMAIN tmap'
      PROVE  sent'[x] + QueuedSends(x)' = 1 + tmap'[x].rtx_count
  <2>1. CASE x = h
    BY <1>2, <1>4, <1>5, <2>1
  <2>2. CASE x # h
    <3>1. x \in DOMAIN tmap /\ x \in Handle
      BY <1>2, <2>2, CountFacts
    <3> QED BY <1>2, <1>4, <2>2, <3>1 DEF SendsInv, SendsCounted
  <2> QED BY <2>1, <2>2
<1>7. ASSUME NEW x \in ended' PROVE sent'[x] + QueuedSends(x)' <= MaxRequests
  <2>1. x \in ended /\ x # h /\ x \in Handle
    BY <1>00, <1>1, <1>2
  <2> QED BY <1>2, <1>4, <2>1 DEF SendsInv, SendsCounted
<1>8. ASSUME NEW x \in Handle, x >= next_handle' PROVE sent'[x] = 0
  <2>1. x >= next_handle
    BY <1>0, <1>2, <1>3, <1>8
  <2> QED BY <1>2, <2>1 DEF SendsInv, SendsCounted
<1> QED BY <1>6, <1>7, <1>8 DEF SendsCounted, MaxRequests

\* A step that queues an outcome, or nothing, and keeps the counters.
LEMMA SameCounted ==
    ASSUME FiniteSetLaws, SendsInv,
           \/ effects' = effects
           \/ \E x \in EffectSet : IsOutcome(x) /\ effects' = Append(effects, x),
           DOMAIN tmap' = DOMAIN tmap,
           \A h \in DOMAIN tmap : tmap'[h].rtx_count = tmap[h].rtx_count,
           UNCHANGED <<next_handle, sent, ended>>
    PROVE  SendsCounted'
<1>1. ASSUME NEW h \in Handle PROVE QueuedSends(h)' = QueuedSends(h)
  <2>1. CASE effects' = effects
    BY <2>1 DEF QueuedSends, IsSendData
  <2>2. ASSUME NEW x \in EffectSet, IsOutcome(x), effects' = Append(effects, x)
        PROVE  QueuedSends(h)' = QueuedSends(h)
    <3>1. ~IsSendData(x, h)
      BY <2>2, SendDataFacts
    <3> QED BY <2>2, <3>1, AppendCount DEF SendsInv, SafetyInv, TypeInv
  <2> QED BY <2>1, <2>2
<1>2. DOMAIN tmap \subseteq Handle /\ ended \subseteq Handle
  BY DEF SendsInv, SafetyInv, TypeInv, TypeOK
<1> QED BY <1>1, <1>2 DEF SendsInv, SendsCounted, MaxRequests

\* response() queues no send.
LEMMA ResponseCounted ==
    ASSUME FiniteSetLaws, SendsInv, NEW m \in Datagram, Response(m)
    PROVE  SendsCounted'
<1>1. UNCHANGED <<next_handle, sent, ended>>
  BY DEF Response
<1>2. CASE /\ tmap' = tmap
           /\ \/ effects' = effects
              \/ \E x \in EffectSet : IsOutcome(x) /\ effects' = Append(effects, x)
  BY <1>1, <1>2, SameCounted
<1>3. ASSUME effects' = effects, NEW h \in DOMAIN tmap,
             tmap' = [tmap EXCEPT ![h].algo = Algo5xx(@, now)]
      PROVE  SendsCounted'
  <2>1. /\ DOMAIN tmap' = DOMAIN tmap
        /\ \A x \in DOMAIN tmap : tmap'[x].rtx_count = tmap[x].rtx_count
    BY <1>3 DEF SendsInv, SafetyInv, TypeInv, TypeOK, Transaction
  <2> QED BY <1>1, <1>3, <2>1, SameCounted
<1> QED BY <1>2, <1>3, ResponseStep DEF SendsInv, SafetyInv

\* A timer that runs out owes one send more, and queues it, or ends the
\* transaction.
LEMMA PopCounted ==
    ASSUME FiniteSetLaws, SendsInv, NEW e \in timeline, NextPop(e)
    PROVE  SendsCounted'
<1>0. PICK h \in Handle : h = e[2]
  BY PopStep, ZenonT(100) DEF SendsInv, SafetyInv
<1>1. UNCHANGED <<next_handle, sent, ended>>
  BY DEF NextPop
<1>2. CASE UNCHANGED <<tmap, effects>>
  BY <1>1, <1>2, SameCounted
<1>3. ASSUME h \in DOMAIN tmap, NEW b \in RetransmitAlgo,
             tmap' = [tmap EXCEPT ![h] = [tmap[h] EXCEPT
                         !.algo = b, !.rtx_count = tmap[h].rtx_count + 1]],
             effects' = Append(effects, SendData(h))
      PROVE  SendsCounted'
  <2>1. tmap[h] \in Transaction
    BY <1>3 DEF SendsInv, SafetyInv, TypeInv, TypeOK
  <2>2. /\ DOMAIN tmap' = DOMAIN tmap
        /\ \A x \in DOMAIN tmap : x # h => tmap'[x] = tmap[x]
        /\ tmap'[h].rtx_count = tmap[h].rtx_count + 1
    BY <1>3, <2>1, ZenonT(100) DEF Transaction
  <2>3. \A x \in Handle : QueuedSends(x)' = IF x = h THEN QueuedSends(x) + 1
                                                     ELSE QueuedSends(x)
    BY <1>3, SendDataFacts, AppendCount DEF SendsInv, SafetyInv, TypeInv
  <2>4. /\ sent[h] \in Nat /\ QueuedSends(h) \in Nat /\ tmap[h].rtx_count \in Nat
        /\ sent[h] + QueuedSends(h) = 1 + tmap[h].rtx_count
    BY <1>3, CountFacts DEF SendsInv, SendsCounted
  <2>5. ASSUME NEW x \in DOMAIN tmap'
        PROVE  sent'[x] + QueuedSends(x)' = 1 + tmap'[x].rtx_count
    <3>1. CASE x = h
      BY <1>1, <2>2, <2>3, <2>4, <3>1
    <3>2. CASE x # h
      <4>1. x \in DOMAIN tmap /\ x \in Handle
        BY <2>2, CountFacts
      <4> QED BY <1>1, <2>2, <2>3, <3>2, <4>1 DEF SendsInv, SendsCounted
    <3> QED BY <3>1, <3>2
  <2>6. ASSUME NEW x \in ended' PROVE sent'[x] + QueuedSends(x)' <= MaxRequests
    <3>1. x \in ended /\ x # h /\ x \in Handle
      BY <1>1, <1>3 DEF SendsInv, SafetyInv, LiveOrEnded, TypeInv, TypeOK
    <3> QED BY <1>1, <2>3, <3>1 DEF SendsInv, SendsCounted
  <2> QED BY <1>1, <2>5, <2>6 DEF SendsInv, SendsCounted, MaxRequests
<1>4. ASSUME h \in DOMAIN tmap, NEW b \in RetransmitAlgo,
             tmap' = [tmap EXCEPT ![h].algo = b],
             effects' = Append(effects, TransactionFailed(h, "Timeout"))
      PROVE  SendsCounted'
  <2>1. /\ DOMAIN tmap' = DOMAIN tmap
        /\ \A x \in DOMAIN tmap : tmap'[x].rtx_count = tmap[x].rtx_count
    BY <1>4 DEF SendsInv, SafetyInv, TypeInv, TypeOK, Transaction
  <2>2. /\ TransactionFailed(h, "Timeout") \in EffectSet
        /\ IsOutcome(TransactionFailed(h, "Timeout"))
    BY DEF TransactionFailed, Effect, EffectSet, Reason, IsOutcome
  <2> QED BY <1>1, <1>4, <2>1, <2>2, SameCounted
<1> QED BY <1>0, <1>2, <1>3, <1>4, PopStep, ZenonT(100) DEF SendsInv, SafetyInv

\* next() moves a SendData from the queue to its user, or an outcome, whose
\* transaction keeps its count when it ends.
LEMMA EffectSent ==
    ASSUME FiniteSetLaws, SendsInv, NextEffect
    PROVE  LET e == effects[1]
           IN  /\ e \in EffectSet /\ e.hnd \in Handle /\ e.hnd < next_handle
               /\ e.type = "SendData" \/ IsOutcome(e)
               /\ sent' = IF e.type = "SendData" THEN [sent EXCEPT ![e.hnd] = @ + 1]
                                                 ELSE sent
               /\ \A h \in Handle :
                     /\ QueuedSends(h)' \in Nat
                     /\ IsSendData(e, h) => QueuedSends(h) = QueuedSends(h)' + 1
                     /\ sent'[h] + QueuedSends(h)' = sent[h] + QueuedSends(h)
<1> DEFINE e == effects[1]
<1>0. TypeOK
  BY DEF SendsInv, SafetyInv, TypeInv
<1>1. /\ Len(effects) > 0 /\ Head(effects) = e /\ e \in EffectSet /\ e.hnd \in Handle
      /\ Len(effects') = Len(effects) - 1
      /\ \A i \in 1 .. Len(effects') : effects'[i] = effects[i + 1]
      /\ effects' \in Seq(EffectSet)
  BY EffectStep DEF SendsInv, SafetyInv
<1>2. sent' = IF e.type = "SendData" THEN [sent EXCEPT ![e.hnd] = @ + 1] ELSE sent
  BY <1>1, ZenonT(100) DEF NextEffect
<1>3. e.type = "SendData" \/ IsOutcome(e)
  BY <1>1 DEF EffectSet, IsOutcome
<1>4. e.hnd < next_handle
  <2>1. 1 \in 1 .. Len(effects)
    BY <1>0, <1>1 DEF TypeOK
  <2> QED BY <2>1 DEF SendsInv, SafetyInv, Issued
<1>5. ASSUME NEW h \in Handle
      PROVE  /\ QueuedSends(h)' \in Nat
             /\ IsSendData(e, h) => QueuedSends(h) = QueuedSends(h)' + 1
             /\ sent'[h] + QueuedSends(h)' = sent[h] + QueuedSends(h)
  <2>1. QueuedSends(h) = IF IsSendData(e, h) THEN QueuedSends(h)' + 1 ELSE QueuedSends(h)'
    BY <1>0, <1>1, TailCount
  <2>2. QueuedSends(h)' \in Nat
    BY <1>0, <1>1, TailCount
  <2>3. sent'[h] = IF IsSendData(e, h) THEN sent[h] + 1 ELSE sent[h]
    BY <1>0, <1>2 DEF TypeOK, IsSendData
  <2>4. sent[h] \in Nat
    BY <1>0 DEF TypeOK
  <2> QED BY <2>1, <2>2, <2>3, <2>4
<1> QED BY <1>1, <1>2, <1>3, <1>4, <1>5

\* next() hands out the head of the queue and counts it if it is a send.
LEMMA EffectCounted ==
    ASSUME FiniteSetLaws, SendsInv, NextEffect
    PROVE  SendsCounted'
<1> DEFINE e == effects[1]
<1>1. /\ e \in EffectSet /\ e.hnd \in Handle /\ e.hnd < next_handle
      /\ e.type = "SendData" \/ IsOutcome(e)
      /\ sent' = IF e.type = "SendData" THEN [sent EXCEPT ![e.hnd] = @ + 1] ELSE sent
      /\ \A h \in Handle : sent'[h] + QueuedSends(h)' = sent[h] + QueuedSends(h)
  BY EffectSent
<1>2. /\ next_handle' = next_handle
      /\ IF IsOutcome(e) THEN Cleanup(e.hnd) /\ ended' = ended \cup {e.hnd}
                         ELSE UNCHANGED <<tmap, ended>>
  BY EffectStep DEF SendsInv, SafetyInv
<1>3. /\ DOMAIN tmap' \subseteq DOMAIN tmap
      /\ \A x \in DOMAIN tmap' : tmap'[x] = tmap[x]
      /\ ended' \subseteq ended \cup {e.hnd}
  <2>1. CASE IsOutcome(e)
    BY <1>1, <1>2, <2>1, CleanupStep, ZenonT(100)
  <2>2. CASE ~IsOutcome(e)
    BY <1>2, <2>2
  <2> QED BY <2>1, <2>2
<1>4. DOMAIN tmap \subseteq Handle /\ ended \subseteq Handle /\ next_handle \in Nat
  BY HandleFacts DEF SendsInv, SafetyInv, TypeInv, TypeOK
<1>5. \A x \in DOMAIN tmap' : sent'[x] + QueuedSends(x)' = 1 + tmap'[x].rtx_count
  BY <1>1, <1>3, <1>4 DEF SendsInv, SendsCounted
<1>6. ASSUME NEW x \in ended' PROVE sent'[x] + QueuedSends(x)' <= MaxRequests
  <2>1. x \in Handle /\ (x \in ended \/ x = e.hnd)
    BY <1>1, <1>3, <1>4
  <2>2. x \in ended \/ x \in DOMAIN tmap
    <3>1. e.hnd \in 0 .. (next_handle - 1)
      BY <1>1, <1>4, HandleFacts
    <3> QED BY <2>1, <3>1 DEF SendsInv, SafetyInv, LiveOrEnded
  <2>3. sent[x] + QueuedSends(x) <= MaxRequests
    BY <2>2, CountFacts DEF SendsInv, SendsCounted
  <2> QED BY <1>1, <2>1, <2>3
<1>7. ASSUME NEW x \in Handle, x >= next_handle' PROVE sent'[x] = 0
  <2>1. sent[x] = 0 /\ x # e.hnd
    BY <1>1, <1>2, <1>4, <1>7, HandleFacts DEF SendsInv, SendsCounted
  <2>2. sent \in [Handle -> Nat]
    BY DEF SendsInv, SafetyInv, TypeInv, TypeOK
  <2> QED BY <1>1, <2>1, <2>2
<1> QED BY <1>5, <1>6, <1>7 DEF SendsCounted, MaxRequests

\* The invariant holds at the start ...
LEMMA InitCounted == FiniteSetLaws /\ Init => SendsInv
<1> SUFFICES ASSUME FiniteSetLaws, Init PROVE SendsInv
  OBVIOUS
<1>1. DOMAIN tmap = {} /\ ended = {} /\ sent = [h \in Handle |-> 0]
  BY DEF Init
<1> QED BY <1>1, InitSafe DEF SendsInv, SendsCounted

\* ... every step keeps it ...
LEMMA NextCounted == FiniteSetLaws /\ SendsInv /\ [Next]_vars => SendsInv'
<1> SUFFICES ASSUME FiniteSetLaws, SendsInv, [Next]_vars PROVE SendsInv'
  OBVIOUS
<1>0. SafetyInv'
  BY NextSafe DEF SendsInv
<1> SUFFICES SendsCounted'
  BY <1>0 DEF SendsInv
<1>1. ASSUME NEW tid \in Tid, NEW p \in Path, NEW auth \in Authenticated,
             Create(tid, p, auth)
      PROVE  SendsCounted'
  BY <1>0, <1>1, CreateCounted
<1>2. ASSUME NEW m \in Datagram, Response(m) PROVE SendsCounted'
  BY <1>2, ResponseCounted
<1>3. ASSUME NEW e \in timeline, NextPop(e) PROVE SendsCounted'
  BY <1>3, PopCounted
<1>4. CASE NextEffect
  BY <1>4, EffectCounted
<1>5. CASE NextWait
  BY <1>5, SameCounted DEF NextWait
<1>6. CASE Tick
  BY <1>6, SameCounted DEF Tick
<1>7. CASE UNCHANGED vars
  BY <1>7, SameCounted DEF vars, clientVars
<1> QED BY <1>1, <1>2, <1>3, <1>4, <1>5, <1>6, <1>7 DEF Next, NextCall

\* ... so it always holds.
LEMMA AlwaysCounted == ASSUME FiniteSetLaws PROVE Spec => []SendsInv
<1>1. (Init => SendsInv) /\ (SendsInv /\ [Next]_vars => SendsInv')
  BY InitCounted, NextCounted
<1> QED BY <1>1, PTL DEF Spec

-----------------------------------------------------------------------------

\* The outcomes decided on and not yet returned, as StunTransactions sees them.
Pending == [h \in Handle |-> QueuedOutcomes(h)]

\* An effect that is queued is an outcome decided on, or it is none.
LEMMA PendingAppend ==
    ASSUME FiniteSetLaws, TypeOK, NEW x \in EffectSet, effects' = Append(effects, x)
    PROVE  Pending' = IF IsOutcome(x) THEN [Pending EXCEPT ![x.hnd] = @ + 1] ELSE Pending
<1>1. \A h \in Handle : QueuedOutcomes(h)' = IF IsOutcome(x) /\ x.hnd = h
                                             THEN QueuedOutcomes(h) + 1
                                             ELSE QueuedOutcomes(h)
  BY AppendCount
<1>2. x.hnd \in Handle
  BY DEF EffectSet
<1>3. Pending' = [h \in Handle |-> QueuedOutcomes(h)']
  BY DEF Pending
<1>4. CASE IsOutcome(x)
  BY <1>1, <1>2, <1>3, <1>4 DEF Pending
<1>5. CASE ~IsOutcome(x)
  BY <1>1, <1>3, <1>5 DEF Pending
<1> QED BY <1>4, <1>5

\* The effect next() returns is an outcome decided on before, or it is none.
LEMMA PendingTail ==
    ASSUME FiniteSetLaws, SendsInv, NextEffect
    PROVE  LET e == effects[1]
           IN  IF IsOutcome(e) THEN /\ Pending[e.hnd] > 0
                                    /\ Pending' = [Pending EXCEPT ![e.hnd] = @ - 1]
                               ELSE Pending' = Pending
<1> DEFINE e == effects[1]
<1>0. TypeInv /\ TypeOK
  BY SendsTypes
<1>1. /\ Len(effects) > 0 /\ e.hnd \in Handle
      /\ Len(effects') = Len(effects) - 1
      /\ \A i \in 1 .. Len(effects') : effects'[i] = effects[i + 1]
      /\ effects' \in Seq(EffectSet)
  BY <1>0, EffectStep
<1>2. \A h \in Handle : /\ QueuedOutcomes(h)' \in Nat
                        /\ QueuedOutcomes(h) = IF IsOutcome(e) /\ e.hnd = h
                                               THEN QueuedOutcomes(h)' + 1
                                               ELSE QueuedOutcomes(h)'
  BY <1>0, <1>1, TailCount
<1> HIDE DEF e
<1>3. \A h \in Handle : QueuedOutcomes(h)' = IF IsOutcome(e) /\ e.hnd = h
                                             THEN QueuedOutcomes(h) - 1
                                             ELSE QueuedOutcomes(h)
  BY <1>2
<1>4. Pending' = [h \in Handle |-> QueuedOutcomes(h)']
  BY DEF Pending
<1>5. CASE IsOutcome(e)
  <2>1. Pending[e.hnd] > 0
    BY <1>1, <1>2, <1>5 DEF Pending
  <2>2. Pending' = [Pending EXCEPT ![e.hnd] = @ - 1]
    BY <1>1, <1>3, <1>4, <1>5 DEF Pending
  <2> QED BY <1>5, <2>1, <2>2 DEF e
<1>6. CASE ~IsOutcome(e)
  <2>1. Pending' = Pending
    BY <1>3, <1>4, <1>6 DEF Pending
  <2> QED BY <1>6, <2>1 DEF e
<1> QED BY <1>5, <1>6 DEF e

\* The client implements the abstract transactions: create() starts one under
\* a handle never used before; response() and the timers decide on outcomes of
\* it until next() has returned one, and next() returns only outcomes decided
\* on, each once, and at most Rc + 2 * server_error_max_retransmits SendData.
LEMMA CountedTransactions == ASSUME FiniteSetLaws PROVE Spec => Transactions!Spec
<1>1. Init => Transactions!Init
  <2>1. ASSUME Init, NEW h \in Handle PROVE QueuedOutcomes(h) = 0
    <3>1. effects = <<>> /\ effects \in Seq(EffectSet)
      BY <2>1 DEF Init
    <3> QED BY <3>1, QueuedCounts, CountEmpty
  <2>2. Init => 0 .. (next_handle - 1) = {} /\ ended = {} /\ sent = [h \in Handle |-> 0]
    BY DEF Init
  <2> QED BY <2>1, <2>2, ZenonT(100) DEF Transactions!Init
<1>2. ASSUME SendsInv, [Next]_vars PROVE [Transactions!Next]_(Transactions!vars)
  <2> DEFINE started == 0 .. (next_handle - 1)
  <2>0. /\ next_handle \in Nat /\ Handle \subseteq Nat
        /\ TypeInv /\ TypeOK /\ SafetyInv /\ DOMAIN tmap \subseteq Handle
    BY <1>2, HandleFacts, SendsTypes
  <2>1. ASSUME NEW x \in EffectSet, IsOutcome(x), x.hnd \in DOMAIN tmap,
               effects' = Append(effects, x), UNCHANGED <<next_handle, ended, sent>>
        PROVE  Transactions!Next
    <3>0. PICK h \in Handle : h = x.hnd
      BY <2>0, <2>1, Zenon
    <3>1. h \in started \ ended
      BY <2>0, <2>1, <3>0 DEF SafetyInv, LiveOrEnded
    <3>2. Pending' = [Pending EXCEPT ![h] = @ + 1]
      BY <2>0, <2>1, <3>0, PendingAppend, ZenonT(100)
    <3>3. Transactions!Decide(h)
      BY <2>1, <3>1, <3>2 DEF Transactions!Decide, Pending
    <3> QED BY <3>3 DEF Transactions!Next
  <2>2. CASE UNCHANGED <<next_handle, ended, sent>> /\ Pending' = Pending
    BY <2>2 DEF Transactions!vars, Pending
  <2>3. effects' = effects => Pending' = Pending
    BY DEF Pending, QueuedOutcomes, IsOutcome
  <2>4. ASSUME NEW tid \in Tid, NEW p \in Path, NEW auth \in Authenticated,
               Create(tid, p, auth)
        PROVE  Transactions!Next
    <3>1. /\ next_handle \in Handle /\ next_handle' = next_handle + 1
          /\ UNCHANGED <<sent, ended>>
          /\ effects' = Append(effects, SendData(next_handle))
      <4>1. AllocateHandle = next_handle
        BY <2>0, AllocatesNext DEF SafetyInv
      <4> QED BY <2>4, <4>1 DEF Create
    <3>2. next_handle \notin started /\ started' = started \cup {next_handle}
      BY <2>0, <3>1
    <3>3. Pending' = Pending
      <4>1. SendData(next_handle) \in EffectSet /\ ~IsOutcome(SendData(next_handle))
        BY <3>1, SendDataFacts
      <4> QED BY <2>0, <3>1, <4>1, PendingAppend, ZenonT(100)
    <3>4. Transactions!Start(next_handle)
      BY <3>1, <3>2, <3>3 DEF Transactions!Start, Pending
    <3> QED BY <3>1, <3>4 DEF Transactions!Next
  <2>5. ASSUME NEW m \in Datagram, Response(m)
        PROVE  [Transactions!Next]_(Transactions!vars)
    <3>1. UNCHANGED <<next_handle, ended, sent>>
      BY <2>5 DEF Response
    <3>2. CASE effects' = effects
      BY <2>2, <2>3, <3>1, <3>2, ZenonT(100)
    <3>3. CASE \E x \in EffectSet : /\ x.hnd \in DOMAIN tmap
                                    /\ IsOutcome(x)
                                    /\ effects' = Append(effects, x)
      BY <2>1, <3>1, <3>3, ZenonT(100)
    <3> QED BY <2>0, <2>5, <3>2, <3>3, ResponseStep, ZenonT(100)
  <2>6. ASSUME NEW e \in timeline, NextPop(e)
        PROVE  [Transactions!Next]_(Transactions!vars)
    <3>0. PICK h \in Handle : h = e[2]
      BY <2>0, <2>6, PopStep, ZenonT(100)
    <3>1. UNCHANGED <<next_handle, ended, sent>>
      BY <2>6 DEF NextPop
    <3>2. CASE effects' = effects
      BY <2>2, <2>3, <3>1, <3>2, ZenonT(100)
    <3>3. CASE effects' = Append(effects, SendData(h))
      <4>1. SendData(h) \in EffectSet /\ ~IsOutcome(SendData(h))
        BY SendDataFacts
      <4>2. Pending' = Pending
        BY <2>0, <3>3, <4>1, PendingAppend, ZenonT(100)
      <4> QED BY <2>2, <3>1, <4>2, ZenonT(100)
    <3>4. CASE /\ h \in DOMAIN tmap
               /\ effects' = Append(effects, TransactionFailed(h, "Timeout"))
      <4>1. /\ TransactionFailed(h, "Timeout") \in EffectSet
            /\ IsOutcome(TransactionFailed(h, "Timeout"))
            /\ TransactionFailed(h, "Timeout").hnd = h
        BY DEF TransactionFailed, Effect, EffectSet, Reason, IsOutcome
      <4> QED BY <2>1, <3>1, <3>4, <4>1, ZenonT(100)
    <3> QED BY <2>0, <2>6, <3>0, <3>2, <3>3, <3>4, PopStep, ZenonT(100)
  <2>7. CASE NextEffect
    <3> DEFINE e == effects[1]
    <3>1. /\ e \in EffectSet /\ e.hnd \in Handle /\ e.hnd < next_handle
          /\ e.type = "SendData" \/ IsOutcome(e)
          /\ sent' = IF e.type = "SendData" THEN [sent EXCEPT ![e.hnd] = @ + 1] ELSE sent
          /\ \A h \in Handle :
                /\ QueuedSends(h)' \in Nat
                /\ IsSendData(e, h) => QueuedSends(h) = QueuedSends(h)' + 1
      BY <1>2, <2>7, EffectSent
    <3>2. /\ next_handle' = next_handle
          /\ ended' = IF IsOutcome(e) THEN ended \cup {e.hnd} ELSE ended
      BY <1>2, <2>7, SendsTypes, EffectLeaves
    <3>3. IF IsOutcome(e) THEN /\ Pending[e.hnd] > 0
                               /\ Pending' = [Pending EXCEPT ![e.hnd] = @ - 1]
                          ELSE Pending' = Pending
      BY <1>2, <2>7, PendingTail
    <3> HIDE DEF e
    <3>0. PICK h \in Handle : h = e.hnd
      BY <3>1
    <3>4. h \in started /\ started' = started
      <4>1. h \in Nat /\ h < next_handle
        BY <2>0, <3>0, <3>1
      <4>2. h \in started
        BY <2>0, <4>1
      <4> QED BY <3>2, <4>2
    <3>5. CASE e.type = "SendData"
      <4>1. sent[h] + QueuedSends(h) <= MaxRequests
        BY <1>2, <3>4, CountFacts DEF SendsInv, SafetyInv, LiveOrEnded, SendsCounted
      <4>2. IsSendData(e, h)
        BY <3>0, <3>5 DEF IsSendData
      <4>3. QueuedSends(h) = QueuedSends(h)' + 1 /\ QueuedSends(h)' \in Nat
        BY <3>1, <4>2
      <4>4. sent[h] < MaxRequests
        BY <1>2, <4>1, <4>3, CountFacts
      <4>5. ~IsOutcome(e)
        BY <3>5 DEF IsOutcome
      <4>6. Transactions!Send(h)
        BY <3>0, <3>1, <3>2, <3>3, <3>4, <3>5, <4>4, <4>5
           DEF Transactions!Send, MaxRequests, Pending
      <4> QED BY <4>6 DEF Transactions!Next
    <3>6. CASE IsOutcome(e)
      <4>1. sent' = sent
        BY <3>1, <3>6 DEF IsOutcome
      <4>2. Transactions!Report(h)
        BY <3>0, <3>2, <3>3, <3>4, <3>6, <4>1 DEF Transactions!Report, Pending
      <4> QED BY <4>2 DEF Transactions!Next
    <3> QED BY <3>1, <3>5, <3>6
  <2>8. CASE NextWait \/ Tick \/ UNCHANGED vars
    <3>1. UNCHANGED <<next_handle, ended, sent>> /\ effects' = effects
      BY <2>8 DEF NextWait, Tick, vars, clientVars
    <3> QED BY <2>2, <2>3, <3>1, ZenonT(100)
  <2> QED BY <1>2, <2>4, <2>5, <2>6, <2>7, <2>8 DEF Next, NextCall
<1> QED BY <1>1, <1>2, AlwaysCounted, PTL DEF Spec, Transactions!Spec

\* handle_success_response() reports a round trip, and feeds it to the
\* calculator, only for a request of which one copy was ever handed out.
LEMMA CountedKarn == ASSUME FiniteSetLaws PROVE Spec => KarnSound
<1> DEFINE Karn == \A h \in Handle :
                      (/\ Len(effects') > Len(effects)
                       /\ effects'[Len(effects')].hnd = h
                       /\ effects'[Len(effects')].type = "TransactionOk"
                       /\ effects'[Len(effects')].dur # None)
                      => sent[h] + QueuedSends(h) = 1
<1>1. ASSUME SendsInv, Next PROVE Karn
  <2>0. effects \in Seq(EffectSet) /\ Len(effects) \in Nat
    BY <1>1, SendsTypes
  <2>1. ASSUME NEW x, effects' = Append(effects, x), x.type # "TransactionOk" PROVE Karn
    <3>1. effects'[Len(effects')] = x
      BY <2>0, <2>1
    <3> QED BY <2>1, <3>1, ZenonT(100)
  <2>2. \A h : /\ SendData(h).type # "TransactionOk"
               /\ \A r : TransactionFailed(h, r).type # "TransactionOk"
    BY DEF SendData, TransactionFailed, Effect
  <2>3. CASE Len(effects') <= Len(effects)
    <3>1. ~(Len(effects') > Len(effects))
      BY <2>3
    <3> QED BY <3>1, ZenonT(100)
  <2> HIDE DEF Karn
  <2>9. CASE UNCHANGED effects
    BY <2>0, <2>3, <2>9
  <2>4. ASSUME NEW m \in Datagram, Response(m) PROVE Karn
    <3> DEFINE g == tid_to_handle[m.tid]
    <3>1. CASE UNCHANGED effects
      BY <2>9, <3>1
    <3>2. CASE Handled(m) /\ HandleSuccessResponse(g, m)
      <4>1. g \in DOMAIN tmap
        BY <3>2 DEF Handled, Found
      <4>2. CASE effects' = Append(effects, TransactionFailed(g, "UnknownComprehensionRequired"))
        BY <2>1, <2>2, <4>2, ZenonT(100)
      <4>3. CASE effects' = Append(effects, TransactionFailed(g, "Error"))
        BY <2>1, <2>2, <4>3, ZenonT(100)
      <4>4. CASE effects' = Append(effects, TransactionOk(g, RoundTrip(tmap[g])))
        <5> DEFINE x == TransactionOk(g, RoundTrip(tmap[g]))
        <5>1. x.hnd = g /\ x.dur = RoundTrip(tmap[g])
          BY DEF TransactionOk, Effect
        <5>2. x.dur # None => tmap[g].rtx_count = 0
          BY <5>1 DEF RoundTrip
        <5> HIDE DEF x
        <5>3. effects'[Len(effects')] = x
          BY <2>0, <4>4 DEF x
        <5>4. sent[g] + QueuedSends(g) = 1 + tmap[g].rtx_count
          BY <1>1, <4>1 DEF SendsInv, SendsCounted
        <5> QED BY <5>1, <5>2, <5>3, <5>4 DEF Karn
      <4> QED BY <3>2, <4>2, <4>3, <4>4 DEF HandleSuccessResponse
    <3>3. CASE HandleErrorResponse(g, m)
      <4>1. \/ effects' = effects
            \/ effects' = Append(effects, TransactionFailed(g, ErrorReason(m)))
        BY <3>3 DEF HandleErrorResponse
      <4>2. CASE effects' = effects
        BY <2>9, <4>2
      <4>3. CASE effects' = Append(effects, TransactionFailed(g, ErrorReason(m)))
        BY <2>1, <2>2, <4>3, ZenonT(100)
      <4> QED BY <4>1, <4>2, <4>3
    <3> QED BY <2>4, <3>1, <3>2, <3>3 DEF Response
  <2>5. ASSUME NEW tid \in Tid, NEW p \in Path, NEW auth \in Authenticated,
               Create(tid, p, auth)
        PROVE  Karn
    <3>1. \/ effects' = effects
          \/ effects' = Append(effects, SendData(AllocateHandle))
      BY <2>5 DEF Create
    <3>2. CASE effects' = Append(effects, SendData(AllocateHandle))
      BY <2>1, <2>2, <3>2, ZenonT(100)
    <3> QED BY <2>9, <3>1, <3>2
  <2>6. ASSUME NEW e \in timeline, NextPop(e) PROVE Karn
    <3>1. \/ effects' = effects
          \/ effects' = Append(effects, SendData(e[2]))
          \/ effects' = Append(effects, TransactionFailed(e[2], "Timeout"))
      BY <2>6 DEF NextPop
    <3>2. CASE effects' = Append(effects, SendData(e[2]))
      BY <2>1, <2>2, <3>2, ZenonT(100)
    <3>3. CASE effects' = Append(effects, TransactionFailed(e[2], "Timeout"))
      BY <2>1, <2>2, <3>3, ZenonT(100)
    <3> QED BY <2>9, <3>1, <3>2, <3>3
  <2>7. CASE NextEffect
    <3>1. Len(effects') <= Len(effects)
      BY <1>1, <2>7, SendsTypes, EffectLeaves
    <3> QED BY <2>3, <3>1
  <2>8. CASE NextWait \/ Tick
    BY <2>8, <2>9 DEF NextWait, Tick
  <2> QED BY <1>1, <2>4, <2>5, <2>6, <2>7, <2>8 DEF Next, NextCall
<1>2. SendsInv /\ [Next]_vars => [Karn]_vars
  BY <1>1
<1> QED BY <1>2, AlwaysCounted, PTL DEF Spec, KarnSound

=============================================================================
