-------------------------- MODULE StunBinding_proofs --------------------------
(***************************************************************************)
(* Proofs about the client, the server and the network between them, for   *)
(* either network, any users and any requests.  The server is used as the  *)
(* client's specification allows, so all that is proved about the client   *)
(* holds here; and what an outcome says is what the server did.  The last  *)
(* part is about the client alone: what unsigned responses bring about.    *)
(***************************************************************************)
EXTENDS StunBinding, StunClientUDP_proofs

USE SMTT(100), ZenonT(100)

\* What the server may have answered: success only to a request it accepted,
\* and accepts still; an error is never signed, and there are only two.
Justified(r) ==
    /\ r \in Server!ResponseSet
    /\ r.tid \in Handle
    /\ r.cls = "success" =>
          r.address # "absent" /\ r.tid \notin Strange /\ Accepted(r.tid)
    /\ r.cls = "error" =>
          /\ r.key = None
          /\ \/ r.code = 420 /\ r.reported /\ r.tid \in Strange
             \/ r.code = 401 /\ r.tid \in Signed

\* A transaction is that of the request with its handle.
OwnRequests ==
    \A h \in DOMAIN tmap : tmap[h].tid = h /\ tmap[h].auth = (h \in Signed)

NetworkOK ==
    /\ \A d \in requests : \E h \in Handle : d.msg = RequestOf(h)
    /\ \A d \in responses : Justified(d.msg)

BindingInv == SafetyInv /\ OwnRequests /\ NetworkOK /\ OutcomesTruthful

-----------------------------------------------------------------------------
\* The server's users keep their passwords, so what was accepted stays so.
LEMMA AcceptedKept ==
    ASSUME NEW name, NEW password, Server!add_user(name, password), NEW h, Accepted(h)
    PROVE  Accepted(h)'
BY DEF Server!add_user, Server!emplace, Accepted

\* What a request of the client holds.
LEMMA RequestFacts ==
    ASSUME NEW h \in Handle
    PROVE  LET d == RequestOf(h)
           IN  /\ d.tid = h /\ d.tid \in Tid /\ d.cls = "request" /\ d.method = "binding"
               /\ d.rfc3489 \in BOOLEAN /\ ~d.rfc3489
               /\ d.unknown <=> h \in Strange
               /\ h \in Signed => d.username = Me /\ d.key = Secret
               /\ h \notin Signed => d.username = None /\ d.key = None
               /\ (d.username = None) = (d.key = None)
<1>1. Me # None /\ Secret # None /\ h \in Tid
  BY BindingAssumption
<1> QED BY <1>1, ZenonT(100) DEF RequestOf

\* An error response says what its request deserves ...
LEMMA ErrorJustified ==
    ASSUME NEW h \in Handle, NEW code \in {401, 420},
           code = 420 => h \in Strange, code = 401 => h \in Signed
    PROVE  Justified(Server!create_error(RequestOf(h), code))
<1> DEFINE d == RequestOf(h)
           r == Server!create_error(d, code)
<1>1. d.tid = h /\ d.tid \in Tid /\ d.method = "binding" /\ d.rfc3489 \in BOOLEAN
  BY RequestFacts
<1> HIDE DEF d
<1>2. r \in Server!ResponseSet
  BY <1>1 DEF Server!create_error, Server!ResponseSet
<1>3. /\ r.tid = h /\ r.cls = "error" /\ r.key = None /\ r.code = code
      /\ code = 420 => r.reported
  BY <1>1, ZenonT(100) DEF Server!create_error
<1> HIDE DEF r
<1>4. Justified(r)
  BY <1>2, <1>3 DEF Justified
<1> QED BY <1>4 DEF r, d

\* ... so does a success response ...
LEMMA SuccessJustified ==
    ASSUME NEW h \in Handle, h \notin Strange,
           h \in Signed => Server!Authorised(RequestOf(h))
    PROVE  Justified(Server!create_success(RequestOf(h),
                                           Server!maybe_integrity(RequestOf(h))))
<1> DEFINE d == RequestOf(h)
           k == Server!maybe_integrity(d)
           r == Server!create_success(d, k)
<1>1. /\ d.tid = h /\ d.tid \in Tid /\ d.method = "binding"
      /\ d.rfc3489 \in BOOLEAN /\ ~d.rfc3489
      /\ h \in Signed => d.username = Me /\ d.key = Secret
      /\ h \notin Signed => d.username = None /\ d.key = None
  BY RequestFacts
<1> HIDE DEF d
<1>2. Me # None /\ Secret \in Password
  BY BindingAssumption
<1>3. Accepted(h) /\ k \in Password \cup {None}
  BY <1>1, <1>2 DEF Accepted, Server!Authorised, Server!maybe_integrity, d
<1> HIDE DEF k
<1>4. r \in Server!ResponseSet
  BY <1>1, <1>3 DEF Server!create_success, Server!ResponseSet
<1>5. r.tid = h /\ r.cls = "success" /\ r.address = "xor_mapped"
  BY <1>1 DEF Server!create_success
<1> HIDE DEF r
<1>6. Justified(r)
  BY <1>3, <1>4, <1>5 DEF Justified
<1> QED BY <1>6 DEF r, k, d

\* ... and process() answers with nothing else.
LEMMA AnswerJustified ==
    ASSUME NEW h \in Handle, NEW hash_ok,
           Server!process(RequestOf(h), hash_ok).type = "Respond"
    PROVE  Justified(Server!process(RequestOf(h), hash_ok).response)
<1> DEFINE d == RequestOf(h)
           r == Server!process(d, hash_ok)
<1>1. /\ d.cls = "request" /\ d.method = "binding"
      /\ d.unknown <=> h \in Strange
      /\ d.username # None <=> h \in Signed
      /\ (d.username = None) = (d.key = None)
  BY RequestFacts, BindingAssumption
<1>2. r = Server!process_request(d, hash_ok) /\ r.type = "Respond"
  BY <1>1 DEF Server!process
<1> HIDE DEF d, r
<1>3. \/ /\ h \in Strange
         /\ r = Server!Respond(d, Server!create_error(d, 420))
      \/ /\ h \notin Strange /\ h \in Signed
         /\ r = Server!Respond(d, Server!create_error(d, 401))
      \/ /\ h \notin Strange /\ (h \in Signed => Server!Authorised(d))
         /\ r = Server!Respond(d, Server!create_success(d, Server!maybe_integrity(d)))
  <2>1. Server!HashError(d).type # "Respond"
    BY DEF Server!HashError
  <2>2. CASE d.unknown
    BY <1>1, <1>2, <2>2 DEF Server!process_request
  <2>3. CASE ~d.unknown
    BY <1>1, <1>2, <2>1, <2>3 DEF Server!process_request
  <2> QED BY <2>2, <2>3
<1>4. \A x : Server!Respond(d, x).response = x
  BY DEF Server!Respond
<1>5. \/ h \in Strange /\ r.response = Server!create_error(d, 420)
      \/ h \in Signed /\ r.response = Server!create_error(d, 401)
      \/ /\ h \notin Strange /\ (h \in Signed => Server!Authorised(d))
         /\ r.response = Server!create_success(d, Server!maybe_integrity(d))
  BY <1>3, <1>4
<1>6. Justified(r.response)
  <2>1. CASE h \in Strange /\ r.response = Server!create_error(d, 420)
    BY <2>1, ErrorJustified DEF d
  <2>2. CASE h \in Signed /\ r.response = Server!create_error(d, 401)
    BY <2>2, ErrorJustified DEF d
  <2>3. CASE /\ h \notin Strange /\ (h \in Signed => Server!Authorised(d))
             /\ r.response = Server!create_success(d, Server!maybe_integrity(d))
    BY <2>3, SuccessJustified DEF d
  <2> QED BY <1>5, <2>1, <2>2, <2>3
<1> QED BY <1>6 DEF r, d

-----------------------------------------------------------------------------
(* Each step is a step of the client or leaves it alone.                   *)

\* The network and the server change nothing of the client behind its back.
LEMMA BindingStep ==
    ASSUME BindingInv, [BindingNext]_allVars
    PROVE  [Next]_vars
<1>1. ASSUME NEW p \in Path, CreateRequest(p) PROVE Next
  <2>1. Create(next_handle, p, next_handle \in Signed)
    BY <1>1 DEF CreateRequest
  <2>2. next_handle \in Tid
    BY <2>1, AllocatesNext, BindingAssumption DEF Create, BindingInv, SafetyInv
  <2>3. TRUE \in Authenticated /\ FALSE \in Authenticated
    BY BindingAssumption, ZenonT(100)
  <2>4. CASE next_handle \in Signed
    <3>1. Create(next_handle, p, TRUE)
      BY <2>1, <2>4, ZenonT(100)
    <3> QED BY <2>2, <2>3, <3>1, ZenonT(100) DEF Next
  <2>5. CASE next_handle \notin Signed
    <3>1. (next_handle \in Signed) = FALSE
      BY <2>5
    <3>2. Create(next_handle, p, FALSE)
      BY <2>1, <3>1, ZenonT(100)
    <3> QED BY <2>2, <2>3, <3>2, ZenonT(100) DEF Next
  <2> QED BY <2>4, <2>5
<1>2. ASSUME NEW d \in responses, ReceiveResponse(d) PROVE Next
  <2>1. AsReceived(d.msg) \in Datagram
    BY ResponseAssumption DEF BindingInv, NetworkOK, Justified
  <2> QED BY <1>2, <2>1 DEF ReceiveResponse, Next
<1>3. CASE CallNext \/ PassTime
  BY <1>3 DEF CallNext, PassTime, Next
<1>4. CASE \/ \E d \in requests : ReceiveRequest(d)
           \/ \E name \in User, password \in Password : AddUser(name, password)
           \/ UNCHANGED allVars
  BY <1>4, ZenonT(100) DEF ReceiveRequest, AddUser, allVars
<1> QED BY <1>1, <1>2, <1>3, <1>4 DEF BindingNext

\* The transactions stay those of the client's requests.
LEMMA OwnKept ==
    ASSUME BindingInv, [BindingNext]_allVars
    PROVE  OwnRequests'
<1>0. TypeInv /\ SafetyInv /\ OwnRequests
  BY DEF BindingInv, SafetyInv
<1>1. ASSUME NEW p \in Path, CreateRequest(p) PROVE OwnRequests'
  <2>1. PICK h, a : h \in Handle /\ tmap' = Assign(tmap, h,
            [tid |-> h, path |-> p, create_time |-> now, auth |-> h \in Signed,
             rtx_count |-> 0, algo |-> a])
    BY <1>0, <1>1, AllocatesNext, ZenonT(100) DEF CreateRequest, Create, SafetyInv
  <2> QED BY <1>0, <2>1 DEF Assign, OwnRequests
<1>2. ASSUME \A h \in DOMAIN tmap' : /\ h \in DOMAIN tmap
                                     /\ tmap'[h].tid = tmap[h].tid
                                     /\ tmap'[h].auth = tmap[h].auth
      PROVE  OwnRequests'
  BY <1>0, <1>2 DEF OwnRequests
<1>3. ASSUME NEW d \in responses, ReceiveResponse(d) PROVE OwnRequests'
  <2>1. AsReceived(d.msg) \in Datagram /\ Response(AsReceived(d.msg))
    BY <1>3, ResponseAssumption DEF BindingInv, NetworkOK, Justified, ReceiveResponse
  <2>2. CASE tmap' = tmap
    BY <1>2, <2>2
  <2>3. ASSUME NEW h \in DOMAIN tmap, tmap' = [tmap EXCEPT ![h].algo = Algo5xx(@, now)]
        PROVE  OwnRequests'
    <3>1. \A x \in DOMAIN tmap : tmap[x] \in Transaction
      BY <1>0 DEF TypeInv, TypeOK
    <3> QED BY <1>2, <2>3, <3>1 DEF Transaction
  <2> QED BY <1>0, <2>1, <2>2, <2>3, ResponseStep
<1>4. ASSUME NEW e \in timeline, NextPop(e) PROVE OwnRequests'
  <2>1. \A x \in DOMAIN tmap : tmap[x] \in Transaction
    BY <1>0 DEF TypeInv, TypeOK
  <2>2. \/ tmap' = tmap
        \/ \E b : /\ e[2] \in DOMAIN tmap
                  /\ \/ tmap' = [tmap EXCEPT ![e[2]] = [tmap[e[2]] EXCEPT
                              !.algo = b, !.rtx_count = tmap[e[2]].rtx_count + 1]]
                     \/ tmap' = [tmap EXCEPT ![e[2]].algo = b]
    BY <1>0, <1>4, PopStep, ZenonT(100)
  <2>3. CASE tmap' = tmap
    BY <1>2, <2>3
  <2>4. ASSUME e[2] \in DOMAIN tmap, NEW b, NEW n,
               tmap' = [tmap EXCEPT ![e[2]] = [tmap[e[2]] EXCEPT
                              !.algo = b, !.rtx_count = n]]
        PROVE  OwnRequests'
    <3>1. PICK t \in Transaction : t = tmap[e[2]]
      BY <2>1, <2>4
    <3>2. [t EXCEPT !.algo = b, !.rtx_count = n].tid = t.tid
      BY DEF Transaction
    <3>3. [t EXCEPT !.algo = b, !.rtx_count = n].auth = t.auth
      BY DEF Transaction
    <3>4. \A x \in DOMAIN tmap' : /\ x \in DOMAIN tmap
                                 /\ tmap'[x].tid = tmap[x].tid
                                 /\ tmap'[x].auth = tmap[x].auth
      BY <2>4, <3>1, <3>2, <3>3
    <3> QED BY <1>2, <3>4
  <2>5. ASSUME e[2] \in DOMAIN tmap, NEW b, tmap' = [tmap EXCEPT ![e[2]].algo = b]
        PROVE  OwnRequests'
    <3>1. \A x \in DOMAIN tmap' : /\ x \in DOMAIN tmap
                                 /\ tmap'[x].tid = tmap[x].tid
                                 /\ tmap'[x].auth = tmap[x].auth
      BY <2>1, <2>5 DEF Transaction
    <3> QED BY <1>2, <3>1
  <2> QED BY <2>2, <2>3, <2>4, <2>5, ZenonT(100)
<1>5. CASE NextEffect
  <2>1. tmap' = tmap \/ Cleanup(Head(effects).hnd)
    BY <1>0, <1>5, EffectStep
  <2> QED BY <1>2, <2>1, CleanupStep, ZenonT(100)
<1>6. CASE \/ NextWait \/ PassTime \/ UNCHANGED allVars
           \/ \E d \in requests : ReceiveRequest(d)
           \/ \E name \in User, password \in Password : AddUser(name, password)
  <2>1. tmap' = tmap
    BY <1>6, ZenonT(100) DEF NextWait, PassTime, Tick, ReceiveRequest, AddUser, allVars, vars, clientVars
  <2> QED BY <1>2, <2>1
<1> QED BY <1>1, <1>3, <1>4, <1>5, <1>6 DEF BindingNext, CallNext, NextCall

-----------------------------------------------------------------------------
(* The messages on their way.                                              *)

\* Users do not change but by AddUser.
LEMMA AcceptedStep ==
    ASSUME [BindingNext]_allVars, NEW h, Accepted(h)
    PROVE  Accepted(h)'
<1>1. ASSUME NEW name \in User, NEW password \in Password, AddUser(name, password)
      PROVE  Accepted(h)'
  BY <1>1, AcceptedKept DEF AddUser
<1>2. CASE users' = users
  BY <1>2 DEF Accepted
<1>3. CASE \/ \E p \in Path : CreateRequest(p)
           \/ CallNext
           \/ \E d \in responses : ReceiveResponse(d)
           \/ \E d \in requests : ReceiveRequest(d)
           \/ PassTime
           \/ UNCHANGED allVars
  BY <1>2, <1>3, ZenonT(100) DEF CreateRequest, CallNext, ReceiveResponse, ReceiveRequest, PassTime, allVars
<1> QED BY <1>1, <1>3 DEF BindingNext

\* A response once justified stays so: its request is never forgotten.
LEMMA JustifiedStep ==
    ASSUME [BindingNext]_allVars, NEW r, Justified(r)
    PROVE  Justified(r)'
<1>1. Accepted(r.tid) => Accepted(r.tid)'
  BY AcceptedStep
<1> QED BY <1>1 DEF Justified, Server!ResponseSet, Handle

\* Every response on the network stays justified, whatever is lost or
\* repeated.
LEMMA NetworkKept ==
    ASSUME BindingInv, [BindingNext]_allVars
    PROVE  NetworkOK'
<1>0. NetworkOK /\ TypeInv
  BY DEF BindingInv, SafetyInv
<1>1. \A x, n, d : Packet(x).msg = x /\ Rest(n, d) \subseteq n
  BY DEF Packet, Rest
<1>2. \A d \in requests' : \E h \in Handle : d.msg = RequestOf(h)
  <2>1. CASE requests' \subseteq requests
    BY <1>0, <2>1 DEF NetworkOK
  <2>2. ASSUME requests' = requests \cup {Packet(RequestOf(returned'.hnd))},
               NextCall, sent' # sent
        PROVE  \A d \in requests' : \E h \in Handle : d.msg = RequestOf(h)
    <3>1. NextEffect
      BY <2>2, ZenonT(100) DEF NextCall, NextPop, NextWait
    <3>2. returned'.hnd \in Handle
      BY <1>0, <3>1, EffectStep
    <3> QED BY <1>0, <1>1, <2>2, <3>2 DEF NetworkOK
  <2>3. CASE CallNext
    BY <2>1, <2>2, <2>3 DEF CallNext
  <2>4. ASSUME NEW d \in requests, ReceiveRequest(d) PROVE requests' \subseteq requests
    BY <1>1, <2>4 DEF ReceiveRequest
  <2>5. CASE \/ \E p \in Path : CreateRequest(p)
             \/ \E d \in responses : ReceiveResponse(d)
             \/ \E name \in User, password \in Password : AddUser(name, password)
             \/ PassTime
             \/ UNCHANGED allVars
    BY <2>1, <2>5 DEF CreateRequest, ReceiveResponse, AddUser, PassTime, allVars
  <2> QED BY <2>1, <2>3, <2>4, <2>5 DEF BindingNext
<1>3. \A d \in responses' : Justified(d.msg)
  <2>1. CASE responses' \subseteq responses
    BY <1>0, <2>1 DEF NetworkOK
  <2>2. ASSUME NEW d \in requests, ReceiveRequest(d)
        PROVE  \A x \in responses' : Justified(x.msg)
    <3>1. PICK h \in Handle : d.msg = RequestOf(h)
      BY <1>0 DEF NetworkOK
    <3>2. PICK hash_ok : responses' =
              IF Server!process(d.msg, hash_ok).type = "Respond"
              THEN responses \cup {Packet(Server!process(d.msg, hash_ok).response)}
              ELSE responses
      BY <2>2 DEF ReceiveRequest
    <3>3. CASE responses' = responses
      BY <2>1, <3>3
    <3>4. CASE /\ Server!process(d.msg, hash_ok).type = "Respond"
               /\ responses' = responses
                      \cup {Packet(Server!process(d.msg, hash_ok).response)}
      <4>1. PICK r : r = Server!process(d.msg, hash_ok).response
        OBVIOUS
      <4>2. Justified(r)
        BY <3>1, <3>4, <4>1, AnswerJustified
      <4>3. responses' = responses \cup {Packet(r)}
        BY <3>4, <4>1
      <4> QED BY <1>0, <1>1, <4>2, <4>3 DEF NetworkOK
    <3> QED BY <3>2, <3>3, <3>4
  <2>3. ASSUME NEW d \in responses, ReceiveResponse(d) PROVE responses' \subseteq responses
    BY <1>1, <2>3 DEF ReceiveResponse
  <2>4. CASE \/ \E p \in Path : CreateRequest(p)
             \/ CallNext
             \/ \E name \in User, password \in Password : AddUser(name, password)
             \/ PassTime
             \/ UNCHANGED allVars
    BY <2>1, <2>4 DEF CreateRequest, CallNext, AddUser, PassTime, allVars
  <2> QED BY <2>1, <2>2, <2>3, <2>4 DEF BindingNext
<1>4. \A d \in responses' : Justified(d.msg)'
  <2> SUFFICES ASSUME NEW d \in responses' PROVE Justified(d.msg)'
    OBVIOUS
  <2>1. PICK r : r = d.msg
    OBVIOUS
  <2>2. Justified(r)'
    BY <1>3, <2>1, JustifiedStep
  <2> QED BY <2>1, <2>2
<1> QED BY <1>2, <1>4 DEF NetworkOK, RequestOf, Handle

-----------------------------------------------------------------------------
(* The outcomes.                                                           *)

Truthful(e) ==
    IsOutcome(e) =>
        \/ e.reason = "Timeout"
        \/ /\ e.type = "TransactionOk"
           /\ e.hnd \notin Strange /\ Accepted(e.hnd)
        \/ /\ e.reason = "UnknownAttributeReported"
           /\ e.hnd \in Strange \ Signed

\* What response() makes of a response of the server.
LEMMA ResponseTruthful ==
    ASSUME BindingInv, NEW r, Justified(r), Response(AsReceived(r))
    PROVE  \/ effects' = effects
           \/ \E x : Truthful(x) /\ effects' = Append(effects, x)
<1> DEFINE m == AsReceived(r)
           h == r.tid
<1>1. /\ m.tid = h /\ m.cls = r.cls /\ ~m.unknown /\ m.address = r.address
      /\ m.code = r.code /\ m.reported = r.reported
      /\ r.key = None => m.integrity = "absent"
  BY DEF AsReceived
<1> HIDE DEF m
<1>2. CASE ~Handled(m)
  BY <1>2 DEF Response, m
<1>3. CASE Handled(m)
  <2>1. tid_to_handle[m.tid] = h /\ tmap[h].auth = (h \in Signed)
    <3>1. PICK g \in DOMAIN tmap : g = tid_to_handle[m.tid] /\ m.tid \in DOMAIN tid_to_handle
      BY <1>3 DEF Handled, Found
    <3>2. tmap[g].tid = m.tid
      BY <3>1 DEF BindingInv, SafetyInv, IndexConsistent
    <3>3. tmap[g].tid = g /\ tmap[g].auth = (g \in Signed)
      BY DEF BindingInv, OwnRequests
    <3> QED BY <1>1, <3>1, <3>2, <3>3
  <2>2. AuthAccepts(tmap[h], m)
    BY <1>3, <2>1 DEF Handled
  <2>3. CASE m.cls = "success"
    <3>1. HandleSuccessResponse(h, m)
      BY <1>3, <2>1, <2>3 DEF Response, m
    <3>2. r.address # "absent" /\ h \notin Strange /\ Accepted(h)
      BY <1>1, <2>3 DEF Justified
    <3>3. PICK rtt : effects' = Append(effects, TransactionOk(h, rtt))
      BY <1>1, <3>1, <3>2 DEF HandleSuccessResponse
    <3>4. Truthful(TransactionOk(h, rtt))
      BY <3>2, ZenonT(100) DEF Truthful, TransactionOk, Effect
    <3> QED BY <3>3, <3>4
  <2>4. CASE m.cls = "error"
    <3>1. HandleErrorResponse(h, m)
      BY <1>3, <2>1, <2>4 DEF Response, m
    <3>2. /\ r.key = None
          /\ \/ r.code = 420 /\ r.reported /\ h \in Strange
             \/ r.code = 401 /\ h \in Signed
      BY <1>1, <2>4 DEF Justified
    <3>3. m.integrity = "absent" /\ m.code # 300
      BY <1>1, <3>2
    <3>4. h \notin Signed
      BY <2>1, <2>2, <3>3, ZenonT(100) DEF AuthAccepts, IsAlternateServer
    <3>5. m.code = 420 /\ m.reported /\ h \in Strange
      BY <1>1, <3>2, <3>4
    <3>6. CodeClass(m) = 4 /\ ErrorReason(m) = "UnknownAttributeReported"
      BY <1>1, <3>5 DEF CodeClass, ErrorReason, None
    <3>7. \/ effects' = effects
          \/ effects' = Append(effects, TransactionFailed(h, "UnknownAttributeReported"))
      BY <3>1, <3>6 DEF HandleErrorResponse
    <3>8. Truthful(TransactionFailed(h, "UnknownAttributeReported"))
      BY <3>4, <3>5 DEF Truthful, TransactionFailed, Effect
    <3> QED BY <3>7, <3>8
  <2> QED BY <1>3, <2>3, <2>4 DEF Handled
<1> QED BY <1>2, <1>3

\* So the client hears only justified responses, and its outcomes stay
\* truthful.
LEMMA TruthKept ==
    ASSUME BindingInv, [BindingNext]_allVars
    PROVE  OutcomesTruthful'
<1>0. /\ effects \in Seq(EffectSet) /\ Len(effects) \in Nat /\ TypeInv
      /\ \A i \in 1 .. Len(effects) : Truthful(effects[i])
  BY DEF BindingInv, SafetyInv, TypeInv, TypeOK, OutcomesTruthful, Truthful
<1>1. ASSUME NEW e, Truthful(e) PROVE Truthful(e)'
  <2>1. Accepted(e.hnd) => Accepted(e.hnd)'
    BY AcceptedStep
  <2> QED BY <1>1, <2>1 DEF Truthful, IsOutcome
<1>2. ASSUME \A i \in 1 .. Len(effects') : Truthful(effects'[i])
      PROVE  OutcomesTruthful'
  <2> SUFFICES ASSUME NEW i \in 1 .. Len(effects') PROVE Truthful(effects[i])'
    BY DEF OutcomesTruthful, Truthful, IsOutcome
  <2>1. PICK e : e = effects'[i]
    OBVIOUS
  <2>2. Truthful(e)'
    BY <1>1, <1>2, <2>1
  <2> QED BY <2>1, <2>2
<1>3. CASE effects' = effects
  BY <1>0, <1>2, <1>3
<1>4. ASSUME NEW x, Truthful(x), effects' = Append(effects, x) PROVE OutcomesTruthful'
  <2>1. \A i \in 1 .. Len(effects') : \/ i \in 1 .. Len(effects) /\ effects'[i] = effects[i]
                                      \/ effects'[i] = x
    BY <1>0, <1>4
  <2> QED BY <1>0, <1>2, <1>4, <2>1
<1>5. ASSUME NEW p \in Path, CreateRequest(p) PROVE OutcomesTruthful'
  <2>1. PICK x : x.type = "SendData" /\ effects' = Append(effects, x)
    BY <1>5, ZenonT(100) DEF CreateRequest, Create, SendData, Effect
  <2>2. Truthful(x)
    BY <2>1 DEF Truthful, IsOutcome
  <2> QED BY <1>4, <2>1, <2>2
<1>6. ASSUME NEW e \in timeline, NextPop(e) PROVE OutcomesTruthful'
  <2>1. \/ effects' = effects
        \/ effects' = Append(effects, SendData(e[2]))
        \/ effects' = Append(effects, TransactionFailed(e[2], "Timeout"))
    BY <1>0, <1>6, PopStep, ZenonT(100)
  <2>2. Truthful(SendData(e[2])) /\ Truthful(TransactionFailed(e[2], "Timeout"))
    BY DEF Truthful, IsOutcome, SendData, TransactionFailed, Effect
  <2> QED BY <1>3, <1>4, <2>1, <2>2
<1>7. CASE NextEffect
  <2>1. /\ Len(effects) > 0 /\ Len(effects') = Len(effects) - 1
        /\ \A i \in 1 .. Len(effects') : effects'[i] = effects[i + 1]
    BY <1>0, <1>7, EffectStep
  <2>2. \A i \in 1 .. Len(effects') : Truthful(effects'[i])
    <3> SUFFICES ASSUME NEW i \in 1 .. Len(effects') PROVE Truthful(effects'[i])
      OBVIOUS
    <3>1. i + 1 \in 1 .. Len(effects) /\ effects'[i] = effects[i + 1]
      BY <1>0, <2>1
    <3> QED BY <1>0, <3>1
  <2> QED BY <1>2, <2>2
<1>8. ASSUME NEW d \in responses, ReceiveResponse(d) PROVE OutcomesTruthful'
  <2>1. Justified(d.msg) /\ Response(AsReceived(d.msg))
    BY <1>8 DEF BindingInv, NetworkOK, ReceiveResponse
  <2>2. \/ effects' = effects
        \/ \E x : Truthful(x) /\ effects' = Append(effects, x)
    BY <2>1, ResponseTruthful
  <2> QED BY <1>3, <1>4, <2>2
<1>9. CASE \/ NextWait \/ PassTime \/ UNCHANGED allVars
           \/ \E d \in requests : ReceiveRequest(d)
           \/ \E name \in User, password \in Password : AddUser(name, password)
  <2>1. effects' = effects
    BY <1>9, ZenonT(100) DEF NextWait, PassTime, Tick, ReceiveRequest, AddUser, allVars, vars, clientVars
  <2> QED BY <1>3, <2>1
<1> QED BY <1>5, <1>6, <1>7, <1>8, <1>9 DEF BindingNext, CallNext, NextCall

-----------------------------------------------------------------------------
\* The invariant holds at the start ...
LEMMA BindingInitOK == BindingInit => BindingInv
<1> SUFFICES ASSUME BindingInit PROVE BindingInv
  OBVIOUS
<1>1. SafetyInv
  BY InitSafe DEF BindingInit
<1>2. tmap = <<>> /\ effects = <<>> /\ requests = {} /\ responses = {}
  BY DEF BindingInit, Init
<1> QED BY <1>1, <1>2 DEF BindingInv, OwnRequests, NetworkOK, OutcomesTruthful

\* ... every step keeps it and is a step of the client ...
LEMMA BindingKeeps == BindingInv /\ [BindingNext]_allVars => BindingInv' /\ [Next]_vars
<1> SUFFICES ASSUME BindingInv, [BindingNext]_allVars PROVE BindingInv' /\ [Next]_vars
  OBVIOUS
<1>1. [Next]_vars
  BY BindingStep
<1>2. SafetyInv'
  BY <1>1, NextSafe DEF BindingInv
<1>3. OwnRequests' /\ NetworkOK' /\ OutcomesTruthful'
  BY OwnKept, NetworkKept, TruthKept
<1> QED BY <1>1, <1>2, <1>3 DEF BindingInv

\* ... so it always holds.
LEMMA AlwaysBinding == BindingSpec => []BindingInv
<1>1. BindingInv /\ [BindingNext]_allVars => BindingInv'
  BY BindingKeeps
<1> QED BY <1>1, BindingInitOK, PTL DEF BindingSpec

\* The stateless server behind either network is one of the environments
\* StunClientUDP allows: what is proved about the client holds with it.
THEOREM BindingUsesClient == BindingSpec => Spec
<1>1. BindingInit => Init
  BY DEF BindingInit
<1>2. BindingInv /\ [BindingNext]_allVars => [Next]_vars
  BY BindingKeeps
<1> QED BY <1>1, <1>2, AlwaysBinding, PTL DEF BindingSpec, Spec

\* However often and in whatever order the network delivers requests and
\* responses, and whoever is added to the server meanwhile, an outcome of the
\* client says what the server did: Ok that it accepted the request and still
\* would, UnknownAttributeReported that it did not know an attribute of a
\* request without a signature, and nothing else but Timeout.
THEOREM OutcomesAreTruthful == BindingSpec => []OutcomesTruthful
<1>1. BindingInv => OutcomesTruthful
  BY DEF BindingInv
<1> QED BY <1>1, AlwaysBinding, PTL

-----------------------------------------------------------------------------
(* What responses bring about when none carries a valid MESSAGE-INTEGRITY, *)
(* as the errors of the server do not, whoever the server is.              *)

NoneSigned == \A m \in Datagram : m.integrity # "valid"

\* The outcomes UnsignedNeverAccepted grants an authenticated transaction.
Granted(e) ==
    \/ e.reason = "Timeout"
    \/ /\ AllowUnauthAlternate
       /\ e.reason \in {"AlternateServer", "Error", "UnknownComprehensionRequired"}

UnsignedOutcome(e) ==
    IsOutcome(e) /\ e.hnd \in DOMAIN tmap /\ tmap[e.hnd].auth => Granted(e)

UnsignedKept ==
    /\ \A h \in DOMAIN tmap : tmap[h].auth => tmap[h].algo.n5xx = 0
    /\ \A i \in 1 .. Len(effects) : UnsignedOutcome(effects[i])

UnsignedInv == SafetyInv /\ UnsignedKept

\* check_response_auth() lets an unsigned response to an authenticated request
\* through to handle_error_response() only, and there it ends the transaction.
LEMMA UnsignedResponse ==
    ASSUME NoneSigned, SafetyInv, NEW m \in Datagram, Response(m)
    PROVE  \/ tmap' = tmap /\ effects' = effects
           \/ /\ tmap' = tmap
              /\ \E x : UnsignedOutcome(x) /\ effects' = Append(effects, x)
           \/ /\ effects' = effects
              /\ \E h \in DOMAIN tmap :
                    /\ ~tmap[h].auth
                    /\ tmap' = [tmap EXCEPT ![h].algo = Algo5xx(@, now)]
<1> DEFINE g == tid_to_handle[m.tid]
<1>1. CASE ~Handled(m)
  BY <1>1 DEF Response
<1>2. ASSUME Handled(m), ~tmap[g].auth
      PROVE  \/ tmap' = tmap /\ effects' = effects
             \/ /\ tmap' = tmap
                /\ \E x : UnsignedOutcome(x) /\ effects' = Append(effects, x)
             \/ /\ effects' = effects
                /\ \E h \in DOMAIN tmap :
                      /\ ~tmap[h].auth
                      /\ tmap' = [tmap EXCEPT ![h].algo = Algo5xx(@, now)]
  <2>1. g \in DOMAIN tmap
    BY <1>2 DEF Handled, Found
  <2>2. \A d, w : /\ UnsignedOutcome(TransactionOk(g, d))
                  /\ UnsignedOutcome(TransactionFailed(g, w))
    BY <1>2, ZenonT(100) DEF UnsignedOutcome, TransactionOk, TransactionFailed, Effect
  <2>3. CASE HandleSuccessResponse(g, m)
    <3>1. /\ tmap' = tmap
          /\ \/ effects' = Append(effects, TransactionFailed(g, "UnknownComprehensionRequired"))
             \/ effects' = Append(effects, TransactionFailed(g, "Error"))
             \/ effects' = Append(effects, TransactionOk(g, RoundTrip(tmap[g])))
      BY <2>3 DEF HandleSuccessResponse
    <3> QED BY <2>2, <3>1
  <2>4. CASE HandleErrorResponse(g, m)
    <3>1. \/ tmap' = tmap /\ effects' = effects
          \/ /\ effects' = effects
             /\ tmap' = [tmap EXCEPT ![g].algo = Algo5xx(@, now)]
          \/ /\ tmap' = tmap
             /\ effects' = Append(effects, TransactionFailed(g, ErrorReason(m)))
      BY <2>4 DEF HandleErrorResponse
    <3> QED BY <1>2, <2>1, <2>2, <3>1
  <2> QED BY <1>2, <2>3, <2>4 DEF Response
<1>3. ASSUME Handled(m), tmap[g].auth
      PROVE  /\ tmap' = tmap
             /\ \E x : UnsignedOutcome(x) /\ effects' = Append(effects, x)
  <2>1. AllowUnauthAlternate /\ m.cls = "error" /\ m.code = 300
    BY <1>3 DEF Handled, AuthAccepts, IsAlternateServer, NoneSigned
  <2>2. HandleErrorResponse(g, m)
    BY <1>3, <2>1 DEF Response
  <2>3. m.unknown \in BOOLEAN
    BY ClientAssumption DEF DatagramSet
  <2>4. m.code # None
    BY <2>1 DEF None
  <2>5. CodeClass(m) = IF m.unknown THEN 0 ELSE 3
    <3>1. 300 \div 100 = 3
      OBVIOUS
    <3> QED BY <2>1, <2>4, <3>1 DEF CodeClass
  <2>6. ~Unexpected(m) /\ CodeClass(m) # 5
    BY <2>3, <2>5 DEF Unexpected
  <2>7. /\ tmap' = tmap
        /\ effects' = Append(effects, TransactionFailed(g, ErrorReason(m)))
    BY <2>2, <2>6 DEF HandleErrorResponse
  <2>8. ErrorReason(m) \in {"AlternateServer", "Error", "UnknownComprehensionRequired"}
    <3>1. CASE m.unknown
      BY <3>1 DEF ErrorReason
    <3>2. CASE ~m.unknown
      <4>1. ErrorReason(m) = IF m.alternate THEN "AlternateServer" ELSE "Error"
        BY <2>1, <2>4, <3>2 DEF ErrorReason
      <4> QED BY <4>1
    <3> QED BY <2>3, <3>1, <3>2
  <2>9. UnsignedOutcome(TransactionFailed(g, ErrorReason(m)))
    BY <2>1, <2>8, ZenonT(100) DEF UnsignedOutcome, Granted, TransactionFailed, Effect
  <2> QED BY <2>7, <2>9
<1> QED BY <1>1, <1>2, <1>3

\* A step that keeps who is authenticated, and how many server errors were
\* accepted, and queues nothing or an outcome that is granted.
LEMMA UnsignedStays ==
    ASSUME UnsignedInv, DOMAIN tmap' = DOMAIN tmap,
           \A h \in DOMAIN tmap : /\ tmap'[h].auth = tmap[h].auth
                                  /\ tmap[h].auth => tmap'[h].algo.n5xx = tmap[h].algo.n5xx,
           \/ effects' = effects
           \/ \E x : UnsignedOutcome(x) /\ effects' = Append(effects, x)
    PROVE  UnsignedKept'
<1>1. effects \in Seq(EffectSet) /\ Len(effects) \in Nat
  BY DEF UnsignedInv, SafetyInv, TypeInv, TypeOK
<1>2. \A x : UnsignedOutcome(x) =>
          (IsOutcome(x) /\ x.hnd \in DOMAIN tmap' /\ tmap'[x.hnd].auth => Granted(x))
  BY DEF UnsignedOutcome
<1>3. \A h \in DOMAIN tmap' : tmap'[h].auth => tmap'[h].algo.n5xx = 0
  BY DEF UnsignedInv, UnsignedKept
<1>4. ASSUME NEW i \in 1 .. Len(effects') PROVE UnsignedOutcome(effects'[i])
  <2>1. CASE i \in 1 .. Len(effects)
    <3>1. effects'[i] = effects[i]
      BY <1>1, <2>1
    <3> QED BY <2>1, <3>1 DEF UnsignedInv, UnsignedKept
  <2>2. CASE i \notin 1 .. Len(effects)
    BY <1>1, <2>2
  <2> QED BY <2>1, <2>2
<1> QED BY <1>2, <1>3, <1>4, ZenonT(100) DEF UnsignedKept, UnsignedOutcome, Granted, IsOutcome

\* Every step keeps the invariant.
LEMMA NextUnsigned == NoneSigned /\ UnsignedInv /\ [Next]_vars => UnsignedInv'
<1> SUFFICES ASSUME NoneSigned, UnsignedInv, [Next]_vars PROVE UnsignedInv'
  OBVIOUS
<1>0. SafetyInv /\ SafetyInv'
  BY NextSafe DEF UnsignedInv
<1> SUFFICES UnsignedKept'
  BY <1>0 DEF UnsignedInv
<1>1. effects \in Seq(EffectSet) /\ Len(effects) \in Nat /\ next_handle \in Nat
  BY <1>0, HandleFacts DEF SafetyInv, TypeInv, TypeOK
<1>2. ASSUME NEW tid \in Tid, NEW p \in Path, NEW auth \in Authenticated,
             Create(tid, p, auth)
      PROVE  UnsignedKept'
  <2>0. PICK h \in Handle : h = next_handle
    BY <1>0, <1>2, AllocatesNext DEF Create, SafetyInv
  <2>1. AllocateHandle = h /\ h \notin DOMAIN tmap
    BY <1>0, <2>0, AllocatesNext DEF SafetyInv
  <2>2. /\ effects' = Append(effects, SendData(h))
        /\ DOMAIN tmap' = DOMAIN tmap \cup {h}
        /\ \A x \in DOMAIN tmap : tmap'[x] = tmap[x]
        /\ tmap'[h].algo = NewRtxAlgo(Rto(p), now)
    BY <1>2, <2>1, ZenonT(100) DEF Create, Assign, AllocateRtxAlgo
  <2>3. tmap'[h].algo.n5xx = 0
    <3>1. \A r, at : NewRtxAlgo(r, at).n5xx = 0
      BY DEF NewRtxAlgo
    <3> QED BY <2>2, <3>1
  <2>4. ASSUME NEW i \in 1 .. Len(effects'), IsOutcome(effects'[i]),
               effects'[i].hnd \in DOMAIN tmap', tmap'[effects'[i].hnd].auth
        PROVE  Granted(effects'[i])
    <3>1. CASE i \in 1 .. Len(effects)
      <4>1. effects'[i] = effects[i]
        BY <1>1, <2>2, <3>1
      <4>2. effects[i].hnd \in DOMAIN tmap
        <5>1. effects[i].hnd < next_handle
          BY <1>0, <3>1 DEF SafetyInv, Issued
        <5>2. effects[i].hnd # h
          BY <1>1, <2>0, <5>1
        <5> QED BY <2>2, <2>4, <4>1, <5>2
      <4> QED BY <2>2, <2>4, <3>1, <4>1, <4>2, ZenonT(100) DEF UnsignedInv, UnsignedKept, UnsignedOutcome
    <3>2. CASE i \notin 1 .. Len(effects)
      <4>1. effects'[i] = SendData(h)
        BY <1>1, <2>2, <3>2
      <4>2. ~IsOutcome(SendData(h))
        BY DEF SendData, Effect, IsOutcome
      <4> QED BY <2>4, <4>1, <4>2
    <3> QED BY <3>1, <3>2
  <2>5. \A x \in DOMAIN tmap' : tmap'[x].auth => tmap'[x].algo.n5xx = 0
    BY <2>2, <2>3 DEF UnsignedInv, UnsignedKept
  <2> QED BY <2>4, <2>5 DEF UnsignedKept, UnsignedOutcome, Granted, IsOutcome
<1>3. ASSUME NEW m \in Datagram, Response(m) PROVE UnsignedKept'
  <2>1. CASE /\ tmap' = tmap
             /\ \/ effects' = effects
                \/ \E x : UnsignedOutcome(x) /\ effects' = Append(effects, x)
    BY <2>1, UnsignedStays
  <2>2. ASSUME effects' = effects, NEW h \in DOMAIN tmap, ~tmap[h].auth,
               tmap' = [tmap EXCEPT ![h].algo = Algo5xx(@, now)]
        PROVE  UnsignedKept'
    <3>1. tmap[h] \in Transaction
      BY <1>0, ZenonT(100) DEF SafetyInv, TypeInv, TypeOK
    <3>2. /\ DOMAIN tmap' = DOMAIN tmap
          /\ \A x \in DOMAIN tmap : x # h => tmap'[x] = tmap[x]
          /\ tmap'[h].auth = tmap[h].auth
      BY <2>2, <3>1 DEF Transaction
    <3> QED BY <2>2, <3>2, UnsignedStays
  <2> QED BY <1>0, <1>3, <2>1, <2>2, UnsignedResponse
<1>4. ASSUME NEW e \in timeline, NextPop(e) PROVE UnsignedKept'
  <2>0. PICK h \in Handle : h = e[2]
    BY <1>0, <1>4, PopStep, ZenonT(100) DEF SafetyInv
  <2>1. /\ ~IsOutcome(SendData(h))
        /\ Granted(TransactionFailed(h, "Timeout"))
    BY DEF SendData, TransactionFailed, Effect, IsOutcome, Granted
  <2>2. /\ UnsignedOutcome(SendData(h))
        /\ UnsignedOutcome(TransactionFailed(h, "Timeout"))
    BY <2>1 DEF UnsignedOutcome
  <2>3. \/ effects' = effects
        \/ \E x : UnsignedOutcome(x) /\ effects' = Append(effects, x)
    BY <1>0, <1>4, <2>0, <2>2, PopStep, ZenonT(100) DEF SafetyInv
  <2>4. /\ DOMAIN tmap' = DOMAIN tmap
        /\ \A x \in DOMAIN tmap : /\ tmap'[x].auth = tmap[x].auth
                                  /\ tmap'[x].algo.n5xx = tmap[x].algo.n5xx
    <3>1. CASE tmap' = tmap
      BY <3>1
    <3>2. ASSUME h \in DOMAIN tmap, NEW b \in RetransmitAlgo,
                 b = AlgoNext(tmap[h].algo, now), NEW r,
                 \/ tmap' = [tmap EXCEPT ![h] = [tmap[h] EXCEPT !.algo = b, !.rtx_count = r]]
                 \/ tmap' = [tmap EXCEPT ![h].algo = b]
          PROVE  /\ DOMAIN tmap' = DOMAIN tmap
                 /\ \A x \in DOMAIN tmap : /\ tmap'[x].auth = tmap[x].auth
                                           /\ tmap'[x].algo.n5xx = tmap[x].algo.n5xx
      <4>1. tmap[h] \in Transaction /\ tmap[h].algo \in RetransmitAlgo /\ now \in Nat
        BY <1>0, <3>2 DEF SafetyInv, TypeInv, TypeOK, Transaction
      <4>2. b.n5xx = tmap[h].algo.n5xx
        BY <3>2, <4>1, AlgoNextType
      <4>3. /\ DOMAIN tmap' = DOMAIN tmap
            /\ \A x \in DOMAIN tmap : x # h => tmap'[x] = tmap[x]
            /\ tmap'[h].auth = tmap[h].auth /\ tmap'[h].algo = b
        BY <3>2, <4>1, ZenonT(100) DEF Transaction
      <4> QED BY <4>2, <4>3
    <3>3. \/ tmap' = tmap
          \/ /\ h \in DOMAIN tmap
             /\ \E b \in RetransmitAlgo, r \in {tmap[h].rtx_count + 1} :
                   /\ b = AlgoNext(tmap[h].algo, now)
                   /\ \/ tmap' = [tmap EXCEPT ![h] = [tmap[h] EXCEPT
                                                     !.algo = b, !.rtx_count = r]]
                      \/ tmap' = [tmap EXCEPT ![h].algo = b]
      BY <1>0, <1>4, <2>0, PopStep, ZenonT(100) DEF SafetyInv
    <3> QED BY <3>1, <3>2, <3>3, ZenonT(100)
  <2> QED BY <2>3, <2>4, UnsignedStays
<1>5. CASE NextEffect
  <2>1. /\ Len(effects') = Len(effects) - 1
        /\ \A i \in 1 .. Len(effects') : effects'[i] = effects[i + 1]
    BY <1>0, <1>5, EffectStep DEF SafetyInv
  <2>2. DOMAIN tmap' \subseteq DOMAIN tmap /\ \A x \in DOMAIN tmap' : tmap'[x] = tmap[x]
    BY <1>0, <1>5, EffectStep, CleanupStep, ZenonT(100) DEF SafetyInv
  <2>3. ASSUME NEW i \in 1 .. Len(effects'), IsOutcome(effects'[i]),
               effects'[i].hnd \in DOMAIN tmap', tmap'[effects'[i].hnd].auth
        PROVE  Granted(effects'[i])
    <3>1. i + 1 \in 1 .. Len(effects) /\ effects'[i] = effects[i + 1]
      BY <1>1, <2>1
    <3>2. UnsignedOutcome(effects[i + 1])
      BY <3>1 DEF UnsignedInv, UnsignedKept
    <3> QED BY <2>2, <2>3, <3>1, <3>2 DEF UnsignedOutcome
  <2>4. \A x \in DOMAIN tmap' : tmap'[x].auth => tmap'[x].algo.n5xx = 0
    BY <2>2 DEF UnsignedInv, UnsignedKept
  <2> QED BY <2>3, <2>4 DEF UnsignedKept, UnsignedOutcome, Granted, IsOutcome
<1>6. CASE NextWait \/ Tick \/ UNCHANGED vars
  <2>1. tmap' = tmap /\ effects' = effects
    BY <1>6 DEF NextWait, Tick, vars, clientVars
  <2> QED BY <2>1, UnsignedStays
<1> QED BY <1>2, <1>3, <1>4, <1>5, <1>6 DEF Next, NextCall

\* When no response carries a valid MESSAGE-INTEGRITY, check_response_auth()
\* leaves an authenticated transaction to its timeout, or to a redirection where
\* allow_unauthenticated_alternate is set, and its timer to its schedule.
THEOREM UnsignedIgnored == Spec => []UnsignedNeverAccepted
<1>1. CASE NoneSigned
  <2>1. Init => UnsignedInv
    <3>1. Init => DOMAIN tmap = {} /\ Len(effects) = 0
      BY DEF Init
    <3>2. (DOMAIN tmap = {} /\ Len(effects) = 0) => UnsignedKept
      BY DEF UnsignedKept
    <3> QED BY <3>1, <3>2, InitSafe DEF UnsignedInv
  <2>2. UnsignedInv /\ [Next]_vars => UnsignedInv'
    BY <1>1, NextUnsigned
  <2>3. UnsignedInv => UnsignedNeverAccepted
    BY ZenonT(100) DEF UnsignedInv, UnsignedKept, UnsignedOutcome, Granted, UnsignedNeverAccepted
  <2> QED BY <2>1, <2>2, <2>3, PTL DEF Spec
<1>2. CASE ~NoneSigned
  <2>1. UnsignedNeverAccepted
    BY <1>2 DEF NoneSigned, UnsignedNeverAccepted
  <2> QED BY <2>1, PTL
<1> QED BY <1>1, <1>2
=============================================================================
