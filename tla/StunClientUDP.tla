--------------------------- MODULE StunClientUDP ---------------------------
(***************************************************************************)
(* The STUN client over UDP: stun::ClientUDP (stun_client_udp.cpp).        *)
(*                                                                         *)
(* The client does no input or output and reads no clock.  Its user calls  *)
(*   create(now, request)   to start a binding transaction,                *)
(*   response(now, packet)  for every datagram that arrives, and           *)
(*   next(now)              for the next effect to carry out: send a       *)
(*                          datagram, report an outcome, sleep, or idle.   *)
(* The calls do not overlap.  Their order, the time between them and the   *)
(* datagrams are the environment's: requests and responses may be lost,    *)
(* duplicated, delayed and reordered, so any response to any transaction   *)
(* may arrive at any time.                                                 *)
(*                                                                         *)
(* The loop of next() takes one step per timeline entry: busy is TRUE from *)
(* the first entry the call pops to its return, and no other action is     *)
(* enabled meanwhile.                                                      *)
(***************************************************************************)
EXTENDS RtoCalculator, FiniteSets

CONSTANTS Tid,                  \* transaction identifiers that may be drawn
          Authenticated,        \* BOOLEAN, or {b} to fix Request::maybe_auth
          Datagram,             \* datagrams that may arrive, see DatagramSet
          RequestCount,         \* RetransmitDefault::request_count (Rc)
          Multiplier,           \* RetransmitDefault::retransmission_multiplier
          MaxRto,               \* RetransmitDefault::max_rto, or None
          ServerErrorTimeout,   \* server_error_timeout, or None
          ServerErrorMax,       \* server_error_max_retransmits
          AllowUnauthAlternate, \* allow_unauthenticated_alternate
          \* bounds of the model
          MaxTime,              \* the clock stops here
          LastCreate,           \* no transaction is created later than this
          MaxHandle,            \* number of transactions ever created
          MaxEffects,           \* no datagram arrives while this many are queued
          Lateness              \* ticks by which next() may miss a Sleep

\* A datagram, as far as response() looks into it.  code is the ERROR-CODE or
\* None; alternate and reported tell whether ALTERNATE-SERVER and
\* UNKNOWN-ATTRIBUTES are there; unknown whether a comprehension-required
\* attribute is not known.
DatagramSet ==
    [tid       : Tid,
     cls       : {"malformed", "success", "error", "other"},
     integrity : {"valid", "invalid", "absent", "hash_error"},
     unknown   : BOOLEAN,
     address   : {"xor_mapped", "mapped", "absent"},
     code      : Nat \cup {None},
     alternate : BOOLEAN,
     reported  : BOOLEAN]

ASSUME ClientAssumption ==
    /\ Authenticated \subseteq BOOLEAN
    /\ Datagram \subseteq DatagramSet
    /\ RequestCount \in Nat \ {0}
    /\ Multiplier \in Nat \ {0}
    /\ MaxRto \in Nat \cup {None}
    /\ ServerErrorTimeout \in Nat \cup {None}
    /\ ServerErrorMax \in Nat
    /\ AllowUnauthAlternate \in BOOLEAN
    /\ {MaxTime, LastCreate, MaxHandle, MaxEffects, Lateness} \subseteq Nat

VARIABLES now,            \* the Timepoint the user passes to the next call
          next_handle,    \* m_next_handle_value
          tid_to_handle,  \* m_tid_to_handle
          tmap,           \* m_tmap: the live transactions by handle
          timeline,       \* m_tid_timeline: set of <<timepoint, handle>>
          effects,        \* m_effects: the queue of pending effects
          busy,           \* inside the loop of next()
          returned,       \* the effect the last call of next() returned
          sent,           \* history: SendData effects returned, per handle
          ended           \* history: handles whose outcome was returned

clientVars == <<now, next_handle, tid_to_handle, tmap, timeline, effects, busy,
                returned, sent, ended>>

vars == <<clientVars, rtoVars>>

\* Handle values that may be issued.
Handle == 0 .. (MaxHandle - 1)

-----------------------------------------------------------------------------
\* Effects.  dur is the duration of Sleep and the round_trip of TransactionOk.

Effect(type, hnd, reason, dur) ==
    [type |-> type, hnd |-> hnd, reason |-> reason, dur |-> dur]

SendData(h)           == Effect("SendData", h, "", None)
TransactionOk(h, rtt) == Effect("TransactionOk", h, "", rtt)
TransactionFailed(h, reason) == Effect("TransactionFailed", h, reason, None)
Sleep(d)              == Effect("Sleep", None, "", d)
Idle                  == Effect("Idle", None, "", None)

IsOutcome(e) == e.type \in {"TransactionOk", "TransactionFailed"}

Reason == {"", "UnknownComprehensionRequired", "UnknownAttributeReported",
           "AlternateServer", "ErrorCode", "Error", "Timeout"}

EffectSet == [type : {"SendData", "TransactionOk", "TransactionFailed"},
              hnd : Handle, reason : Reason, dur : Nat \cup {None}]

-----------------------------------------------------------------------------
\* RetransmitAlgo, one per transaction: the record of its members.

RetransmitAlgo == [initial_rto : Nat, maybe_next : Nat \cup {None},
                   last_timeout : Nat, rtx_count : Nat, n5xx : Nat]

\* Constructor followed by init(now), as do_create calls them.
NewRtxAlgo(rto, at) ==
    [initial_rto |-> rto, maybe_next |-> at + rto, last_timeout |-> rto,
     rtx_count |-> 0, n5xx |-> 0]

\* Mutant of MoreRequests: one request too many.
MoreRequestsOffByOne(a) == a.rtx_count + 1 <= RequestCount + a.n5xx

\* calc_next: whether another request is sent, and the interval after it.
MoreRequests(a) == a.rtx_count + 1 < RequestCount + a.n5xx

\* Mutant of NextTimeout: the interval does not grow.
NextTimeoutConstant(a) == a.last_timeout

NextTimeout(a) ==
    LET current == IF a.rtx_count + 2 = RequestCount
                   THEN a.initial_rto * Multiplier
                   ELSE a.last_timeout * 2
    IN  IF MaxRto # None /\ MaxRto > current THEN MaxRto ELSE current

\* RetransmitAlgo::next: the member update; the result is the new maybe_next.
AlgoNext(a, at) ==
    IF a.maybe_next = None \/ at < a.maybe_next THEN a
    ELSE IF ~MoreRequests(a) THEN [a EXCEPT !.maybe_next = None]
    ELSE [a EXCEPT !.maybe_next   = at + NextTimeout(a),
                   !.rtx_count    = @ + 1,
                   !.last_timeout = NextTimeout(a)]

\* process_5xx: RetransmitScheduled when this holds, with the update below.
Schedules5xx(a) == ServerErrorTimeout # None /\ a.n5xx < ServerErrorMax

Algo5xx(a, at) == [a EXCEPT !.n5xx = @ + 1,
                            !.maybe_next = at + ServerErrorTimeout]

-----------------------------------------------------------------------------
Transaction == [tid : Tid, path : Path, create_time : Nat, auth : BOOLEAN,
                rtx_count : Nat, algo : RetransmitAlgo]

Init ==
    /\ now = 0
    /\ next_handle = 0
    /\ tid_to_handle = <<>>
    /\ tmap = <<>>
    /\ timeline = {}
    /\ effects = <<>>
    /\ busy = FALSE
    /\ returned = Idle
    /\ sent = [h \in Handle |-> 0]
    /\ ended = {}
    /\ RtoInit

\* allocate_handle: the first value from next_handle on that is not in use.
\* The counter is 32 bits wide; MaxHandle keeps it from wrapping.
AllocateHandle ==
    CHOOSE h \in next_handle .. MaxHandle :
        /\ h \notin DOMAIN tmap
        /\ \A k \in next_handle .. (h - 1) : k \in DOMAIN tmap

\* create draws identifiers until one is not in use.
FreshTid(tid) == tid \notin DOMAIN tid_to_handle

AllocateRtxAlgo(p, at) == NewRtxAlgo(Rto(p), at)

\* create and do_create.  When the request cannot be built nothing changes.
Create(tid, p, auth) ==
    /\ ~busy
    /\ now <= LastCreate
    /\ FreshTid(tid)
    /\ LET h == AllocateHandle
           a == AllocateRtxAlgo(p, now)
           t == [tid |-> tid, path |-> p, create_time |-> now, auth |-> auth,
                 rtx_count |-> 0, algo |-> a]
       IN  /\ h \in Handle
           /\ next_handle' = h + 1
           /\ tid_to_handle' = Assign(tid_to_handle, tid, h)
           /\ tmap' = Assign(tmap, h, t)
           /\ effects' = Append(effects, SendData(h))
           /\ timeline' = timeline \cup {<<a.maybe_next, h>>}
    /\ UNCHANGED <<now, busy, returned, sent, ended, rtoVars>>

-----------------------------------------------------------------------------
\* response(): the handlers below run on the transaction h of the datagram m.

IsAlternateServer(m) == m.cls = "error" /\ m.code = 300

\* Mutant of AuthAccepts: any unsigned response passes for a redirection.
AuthAcceptsUnsigned(t, m) ==
    \/ ~t.auth
    \/ m.integrity = "valid"
    \/ m.integrity = "absent" /\ AllowUnauthAlternate

\* check_response_auth
AuthAccepts(t, m) ==
    \/ ~t.auth
    \/ m.integrity = "valid"
    \/ /\ m.integrity = "absent"
       /\ AllowUnauthAlternate
       /\ IsAlternateServer(m)

\* Mutant of RoundTrip: the counter of the schedule instead of all requests.
RoundTripBySchedule(t) == IF t.algo.rtx_count = 0 THEN now - t.create_time ELSE None

\* Karn's algorithm: no round trip when the request was sent more than once.
RoundTrip(t) == IF t.rtx_count = 0 THEN now - t.create_time ELSE None

\* handle_success_response
HandleSuccessResponse(h, m) ==
    LET t   == tmap[h]
        rtt == RoundTrip(t)
    IN  /\ UNCHANGED tmap
        /\ \/ /\ m.unknown
              /\ effects' = Append(effects,
                    TransactionFailed(h, "UnknownComprehensionRequired"))
              /\ UNCHANGED rtoVars
           \/ /\ ~m.unknown
              /\ IF rtt # None THEN NewRtt(now, t.path, rtt)
                               ELSE Backoff(now, t.path, t.algo.last_timeout)
              /\ effects' = Append(effects,
                    IF m.address # "absent" THEN TransactionOk(h, rtt)
                                            ELSE TransactionFailed(h, "Error"))

\* handle_error_response, by the class of the error code.
CodeClass(m) == IF m.unknown \/ m.code = None THEN 0 ELSE m.code \div 100

Unexpected(m) == ~m.unknown /\ m.code # None /\ CodeClass(m) \notin 3..5

ErrorReason(m) ==
    CASE m.unknown -> "UnknownComprehensionRequired"
      [] ~m.unknown /\ m.code = None -> "Error"
      [] ~m.unknown /\ m.code = 300 ->
            IF m.alternate THEN "AlternateServer" ELSE "Error"
      [] ~m.unknown /\ m.code = 420 /\ m.reported -> "UnknownAttributeReported"
      [] OTHER -> "ErrorCode"

HandleErrorResponse(h, m) ==
    /\ UNCHANGED rtoVars
    /\ \/ /\ Unexpected(m)
          /\ UNCHANGED <<tmap, effects>>
       \/ /\ CodeClass(m) = 5 /\ Schedules5xx(tmap[h].algo)
          /\ tmap' = [tmap EXCEPT ![h].algo = Algo5xx(@, now)]
          /\ UNCHANGED effects
       \/ /\ ~Unexpected(m)
          /\ ~(CodeClass(m) = 5 /\ Schedules5xx(tmap[h].algo))
          /\ effects' = Append(effects, TransactionFailed(h, ErrorReason(m)))
          /\ UNCHANGED tmap

\* find_transaction, after Message::parse.
Found(m) ==
    /\ m.cls # "malformed"
    /\ m.tid \in DOMAIN tid_to_handle
    /\ tid_to_handle[m.tid] \in DOMAIN tmap

Handled(m) ==
    /\ Found(m)
    /\ AuthAccepts(tmap[tid_to_handle[m.tid]], m)
    /\ m.cls \in {"success", "error"}

Response(m) ==
    /\ ~busy
    /\ Len(effects) < MaxEffects
    /\ \/ /\ ~Handled(m)
          /\ UNCHANGED <<tmap, effects, rtoVars>>
       \/ /\ Handled(m) /\ m.cls = "success"
          /\ HandleSuccessResponse(tid_to_handle[m.tid], m)
       \/ /\ Handled(m) /\ m.cls = "error"
          /\ HandleErrorResponse(tid_to_handle[m.tid], m)
    /\ UNCHANGED <<now, next_handle, tid_to_handle, timeline, busy, returned, sent,
                   ended>>

-----------------------------------------------------------------------------
\* next()

\* TimelineGreater: the top entry has the least time, then the least handle.
IsTop(e) == /\ e \in timeline
            /\ \A f \in timeline : e[1] < f[1] \/ (e[1] = f[1] /\ e[2] <= f[2])

\* Mutant of NothingDue: an if in place of the loop of next().
NothingDueOnce == busy \/ \A e \in timeline : now < e[1]

NothingDue == \A e \in timeline : now < e[1]

\* Mutants of Rearm: the timer is not started again, or the old one stays.
RearmForgotten(e, at) == timeline \ {e}

RearmUnpopped(e, at) == timeline \cup {<<at, e[2]>>}

\* The timeline with the popped entry e scheduled again for time at.
Rearm(e, at) == (timeline \ {e}) \cup {<<at, e[2]>>}

\* One iteration of the loop: pop the top entry and run its transaction.
NextPop(e) ==
    /\ IsTop(e)
    /\ e[1] <= now
    /\ busy' = TRUE
    /\ LET h == e[2]
           t == tmap[h]
           a == AlgoNext(t.algo, now)
       IN  \/ /\ h \notin DOMAIN tmap
              /\ timeline' = timeline \ {e}
              /\ UNCHANGED <<tmap, effects>>
           \/ /\ h \in DOMAIN tmap /\ a.maybe_next # None
              /\ tmap' = [tmap EXCEPT ![h] =
                        [t EXCEPT !.algo = a, !.rtx_count = t.rtx_count + 1]]
              /\ timeline' = Rearm(e, a.maybe_next)
              /\ effects' = Append(effects, SendData(h))
           \/ /\ h \in DOMAIN tmap /\ a.maybe_next = None
              /\ tmap' = [tmap EXCEPT ![h].algo = a]
              /\ timeline' = timeline \ {e}
              /\ effects' = Append(effects, TransactionFailed(h, "Timeout"))
    /\ UNCHANGED <<now, next_handle, tid_to_handle, returned, sent, ended, rtoVars>>

\* Mutants of Cleanup: one of the two maps keeps its entry.
CleanupForgetsTid(h) ==
    /\ tmap' = Restrict(tmap, DOMAIN tmap \ {h})
    /\ UNCHANGED tid_to_handle

CleanupForgetsTransaction(h) ==
    /\ tid_to_handle' = IF h \in DOMAIN tmap
         THEN Restrict(tid_to_handle, DOMAIN tid_to_handle \ {tmap[h].tid})
         ELSE tid_to_handle
    /\ UNCHANGED tmap

\* cleanup: the timeline keeps its entry.
Cleanup(h) ==
    IF h \in DOMAIN tmap
    THEN /\ tid_to_handle' =
              Restrict(tid_to_handle, DOMAIN tid_to_handle \ {tmap[h].tid})
         /\ tmap' = Restrict(tmap, DOMAIN tmap \ {h})
    ELSE UNCHANGED <<tid_to_handle, tmap>>

\* Return of next() with the oldest pending effect.
NextEffect ==
    /\ NothingDue
    /\ effects # <<>>
    /\ LET e == Head(effects)
       IN  /\ returned' = e
           /\ effects' = Tail(effects)
           /\ IF IsOutcome(e) THEN Cleanup(e.hnd)
                              ELSE UNCHANGED <<tid_to_handle, tmap>>
           /\ sent' = IF e.type = "SendData" THEN [sent EXCEPT ![e.hnd] = @ + 1]
                                             ELSE sent
           /\ ended' = IF IsOutcome(e) THEN ended \cup {e.hnd} ELSE ended
    /\ busy' = FALSE
    /\ UNCHANGED <<now, next_handle, timeline, rtoVars>>

\* Return of next() when no effect is pending.
NextWait ==
    /\ NothingDue
    /\ effects = <<>>
    /\ \/ /\ timeline = {}
          /\ returned' = Idle
       \/ \E e \in timeline : IsTop(e) /\ returned' = Sleep(e[1] - now)
    /\ busy' = FALSE
    /\ UNCHANGED <<now, next_handle, tid_to_handle, tmap, timeline, effects, sent,
                   ended, rtoVars>>

NextCall == (\E e \in timeline : NextPop(e)) \/ NextEffect \/ NextWait

-----------------------------------------------------------------------------
\* Time passes between two calls.
Tick ==
    /\ ~busy
    /\ now < MaxTime
    /\ \A e \in timeline : now < e[1] + Lateness
    /\ now' = now + 1
    /\ UNCHANGED <<next_handle, tid_to_handle, tmap, timeline, effects, busy,
                   returned, sent, ended, rtoVars>>

Next ==
    \/ \E tid \in Tid, p \in Path, auth \in Authenticated : Create(tid, p, auth)
    \/ \E m \in Datagram : Response(m)
    \/ NextCall
    \/ Tick

Spec == Init /\ [][Next]_vars

\* The user calls next() again and again, sleeping as it is told to (the loop
\* of examples/stun_client/index.js), and time does not stand still.
FairSpec == Spec /\ WF_vars(NextCall) /\ WF_vars(Tick)

-----------------------------------------------------------------------------
(* Properties.                                                             *)

\* Every variable has its type.  (history belongs to RtoHistory.)
TypeOK ==
    /\ now \in Nat
    /\ next_handle \in 0 .. MaxHandle
    /\ DOMAIN tid_to_handle \subseteq Tid
    /\ \A tid \in DOMAIN tid_to_handle : tid_to_handle[tid] \in Handle
    /\ DOMAIN tmap \subseteq Handle
    /\ \A h \in DOMAIN tmap : tmap[h] \in Transaction
    /\ timeline \subseteq Nat \X Handle
    /\ effects \in Seq(EffectSet)
    /\ busy \in BOOLEAN
    /\ returned \in [type : {"SendData", "TransactionOk", "TransactionFailed",
                             "Sleep", "Idle"},
                     hnd : Handle \cup {None}, reason : Reason, dur : Nat \cup {None}]
    /\ sent \in [Handle -> Nat]
    /\ ended \subseteq Handle
    /\ DOMAIN by_path \subseteq Path
    /\ \A p \in DOMAIN by_path : by_path[p] \in Data

HasTimer(h) == \E e \in timeline : e[2] = h

HasOutcome(h) == \E i \in 1 .. Len(effects) : IsOutcome(effects[i]) /\ effects[i].hnd = h

\* The two maps of the client stay each other's inverse: a transaction can be
\* found by its identifier exactly as long as it is live, so create() may draw
\* an identifier again only after cleanup() has removed both entries.
IndexConsistent ==
    /\ \A tid \in DOMAIN tid_to_handle :
          tid_to_handle[tid] \in DOMAIN tmap /\ tmap[tid_to_handle[tid]].tid = tid
    /\ \A h \in DOMAIN tmap :
          tmap[h].tid \in DOMAIN tid_to_handle /\ tid_to_handle[tmap[h].tid] = h

\* Every handle create() has issued belongs to a live transaction or to one
\* whose outcome next() has returned, never to both and never to neither.
LiveOrEnded ==
    /\ DOMAIN tmap \cup ended = 0 .. (next_handle - 1)
    /\ DOMAIN tmap \cap ended = {}

\* A live transaction has an entry in the timeline or an outcome in the queue.
\* One with neither would never be heard of again: next() answers Idle or
\* sleeps, although "No more actions needed" (stun_client_udp_effects.hpp).
NeverStranded == \A h \in DOMAIN tmap : HasTimer(h) \/ HasOutcome(h)

\* A handle has at most one entry in the timeline, live or left behind by
\* cleanup(), so a priority queue of entries is the same as a set of them and
\* no transaction is retransmitted by two timers.
OneTimer == \A e, f \in timeline : e[2] = f[2] => e = f

\* The number of retransmissions of a transaction is bounded whatever the
\* server answers: the schedule gives RequestCount - 1 and each accepted 5xx
\* response at most two more, one because calc_next() raises the limit and one
\* because process_5xx() leaves the running timer in the timeline.
RetransmitsBounded ==
    \A h \in DOMAIN tmap :
        /\ tmap[h].algo.n5xx <= ServerErrorMax
        /\ tmap[h].rtx_count <= RequestCount - 1 + 2 * tmap[h].algo.n5xx

IsSendData(e, h) == e.type = "SendData" /\ e.hnd = h

QueuedSends(h) == Cardinality({i \in 1 .. Len(effects) : IsSendData(effects[i], h)})

\* A round trip is reported, and used for the next timeout, only when exactly
\* one copy of the request was ever handed out, whether the user has seen that
\* SendData or it still waits in the queue (Karn's algorithm; the counter
\* handle_success_response() tests is advanced by next()).
KarnSound ==
    [][\A h \in Handle :
          (/\ Len(effects') > Len(effects)
           /\ effects'[Len(effects')].hnd = h
           /\ effects'[Len(effects')].type = "TransactionOk"
           /\ effects'[Len(effects')].dur # None)
          => sent[h] + QueuedSends(h) = 1]_vars

\* Once next() has returned the outcome of a transaction nothing more is
\* queued for it, by a late response, a duplicate or its stale timeline entry.
QuietAfterOutcome ==
    [][Len(effects') > Len(effects) =>
          effects'[Len(effects')].hnd \notin ended]_vars

\* The span RFC 8489 gives a transaction whose requests are not answered:
\* Rc requests with doubling intervals and Rm times the RTO after the last.
Schedule(rto) == rto * (2^(RequestCount - 1) - 1) + rto * Multiplier

\* No transaction times out before its schedule has run down, however late
\* and irregularly next() is called.  (A 5xx response may cut it short.)
NoEarlyTimeout ==
    \A h \in DOMAIN tmap :
        LET a == tmap[h].algo
        IN  a.n5xx = 0 /\ a.maybe_next = None =>
                now - tmap[h].create_time >= Schedule(a.initial_rto)

\* Outcomes of h decided on and not yet returned by next().
QueuedOutcomes(h) ==
    Cardinality({i \in 1 .. Len(effects) : IsOutcome(effects[i]) /\ effects[i].hnd = h})

\* The client implements the abstract transactions, liveness included: handles
\* are issued once; every transaction has an outcome decided on and returned;
\* next() returns only outcomes decided on before it returned the first of the
\* transaction, each of them once, so an ended transaction never comes back; and
\* the request is sent at most Rc + 2 * server_error_max_retransmits times, late
\* SendData effects counted.  That a transaction has one outcome is not among
\* it: response() leaves the transaction in place until next() returns its
\* outcome, and a second response, or the last timer, adds another one.
Transactions == INSTANCE StunTransactions
    WITH started  <- 0 .. (next_handle - 1),
         pending  <- [h \in Handle |-> QueuedOutcomes(h)],
         MaxSends <- RequestCount + 2 * ServerErrorMax

ImplementsTransactions == Transactions!FairSpec

\* When no datagram carries a valid MESSAGE-INTEGRITY, an authenticated
\* transaction ends by its timeout, or by a redirection where the settings
\* accept an unauthenticated one (which may lack its ALTERNATE-SERVER or hold an
\* unknown attribute), and no server error moves its timer:
\* check_response_auth() lets nothing else through to the handlers.
UnsignedNeverAccepted ==
    (\A m \in Datagram : m.integrity # "valid") =>
        /\ \A h \in DOMAIN tmap : tmap[h].auth => tmap[h].algo.n5xx = 0
        /\ \A i \in 1 .. Len(effects) :
              LET e == effects[i]
              IN  IsOutcome(e) /\ e.hnd \in DOMAIN tmap /\ tmap[e.hnd].auth =>
                      \/ e.reason = "Timeout"
                      \/ /\ AllowUnauthAlternate
                         /\ e.reason \in {"AlternateServer", "Error",
                                          "UnknownComprehensionRequired"}

-----------------------------------------------------------------------------
(* What the documentation says and the code does not do.                   *)

\* stun_client_udp_effects.hpp on SendData: "Lifetime of these reference
\* guaranteed until TransactionFail / TransactionOk with the same handle
\* received", so no SendData may be returned after the outcome.
SendDataBeforeOutcome ==
    returned.type = "SendData" => returned.hnd \notin ended
=============================================================================
