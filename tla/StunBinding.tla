----------------------------- MODULE StunBinding -----------------------------
(***************************************************************************)
(* The UDP client and the stateless server with a network between them.    *)
(*                                                                         *)
(* A request enters the network when next() returns SendData, reaches the  *)
(* server, and the response of process() travels back to response().       *)
(* Handle, identifier and content of a request belong together: the        *)
(* identifiers are random and 96 bits long, so none is ever drawn twice,   *)
(* and that of a transaction is its handle here.                           *)
(*                                                                         *)
(* An unreliable network never forgets a message: it may deliver each any  *)
(* number of times, in any order, or not at all.  A reliable one delivers  *)
(* each once, 1 to MaxDelay ticks after it was sent.                       *)
(***************************************************************************)
EXTENDS StunClientUDP

CONSTANTS User, Password,   \* of the server
          Me, Secret,       \* the credentials the client signs with
          Signed,           \* handles whose request is signed
          Strange,          \* handles whose request has an unknown attribute
          Registered,       \* the users the server knows from the start
          Reliable,         \* which of the two networks
          MaxDelay

ASSUME BindingAssumption ==
    /\ Me \in User /\ Secret \in Password
    /\ None \notin User \cup Password
    /\ BOOLEAN \subseteq Authenticated
    /\ Signed \cup Strange \subseteq Handle
    /\ Handle \subseteq Tid
    /\ Reliable \in BOOLEAN
    /\ MaxDelay \in Nat

VARIABLES users,       \* m_users of the server
          requests,    \* datagrams on their way to the server
          responses    \* datagrams on their way to the client

allVars == <<vars, users, requests, responses>>

\* The request do_create() builds for transaction h.
RequestOf(h) ==
    [tid |-> h, cls |-> "request", method |-> "binding",
     unknown |-> h \in Strange,
     username |-> IF h \in Signed THEN Me ELSE None,
     key |-> IF h \in Signed THEN Secret ELSE None,
     rfc3489 |-> FALSE]

\* The last result of process() is not kept: it is sent, or dropped.
Server == INSTANCE StunServerStateless
    WITH Request <- {RequestOf(h) : h \in Handle}, use_fingerprint <- TRUE,
         Absent <- None, result <- None

\* What response() sees in the response r of the server.
AsReceived(r) ==
    [tid |-> r.tid, cls |-> r.cls,
     integrity |-> IF r.key = None THEN "absent"
                   ELSE IF r.key = Secret THEN "valid" ELSE "invalid",
     unknown |-> FALSE, address |-> r.address, code |-> r.code,
     alternate |-> FALSE, reported |-> r.reported]

\* The client may be sent whatever the server can say.
ASSUME ResponseAssumption == \A r \in Server!ResponseSet : AsReceived(r) \in Datagram

BindingInit ==
    /\ Init
    /\ users = Registered
    /\ requests = {}
    /\ responses = {}

-----------------------------------------------------------------------------
\* The network.

Packet(msg) == [msg |-> msg, at |-> IF Reliable THEN now ELSE 0]

Arrives(d) == Reliable => now > d.at

Rest(net, d) == IF Reliable THEN net \ {d} ELSE net

-----------------------------------------------------------------------------
\* The client's user.

CreateRequest(p) ==
    /\ Create(next_handle, p, next_handle \in Signed)
    /\ UNCHANGED <<users, requests, responses>>

\* A call of next(), or a step of its loop.  A SendData that is returned after
\* the outcome of its transaction refers to memory that was freed: the bytes may
\* still be there or not.
CallNext ==
    /\ NextCall
    /\ IF sent' = sent THEN UNCHANGED requests
       ELSE \/ requests' = requests \cup {Packet(RequestOf(returned'.hnd))}
            \/ returned'.hnd \notin DOMAIN tmap /\ UNCHANGED requests
    /\ UNCHANGED <<users, responses>>

ReceiveResponse(d) ==
    /\ Arrives(d)
    /\ Response(AsReceived(d.msg))
    /\ responses' = Rest(responses, d)
    /\ UNCHANGED <<users, requests>>

-----------------------------------------------------------------------------
\* The server's user: process() and, when it responds, send the response.  A
\* hash function that fails is one more way to lose a request.

ReceiveRequest(d) ==
    /\ Arrives(d)
    /\ requests' = Rest(requests, d)
    /\ \E hash_ok \in {TRUE, Reliable} :
          LET r == Server!process(d.msg, hash_ok)
          IN  responses' = IF r.type = "Respond"
                           THEN responses \cup {Packet(r.response)}
                           ELSE responses
    /\ UNCHANGED <<vars, users>>

AddUser(name, password) ==
    /\ Server!add_user(name, password)
    /\ UNCHANGED <<vars, requests, responses>>

-----------------------------------------------------------------------------
\* Time passes.  With a reliable network no message is overdue and the client's
\* user has asked next() until it said to sleep.
PassTime ==
    /\ Tick
    /\ Reliable => /\ effects = <<>>
                   /\ \A d \in requests \cup responses : now < d.at + MaxDelay
    /\ UNCHANGED <<users, requests, responses>>

BindingNext ==
    \/ \E p \in Path : CreateRequest(p)
    \/ CallNext
    \/ \E d \in responses : ReceiveResponse(d)
    \/ \E d \in requests : ReceiveRequest(d)
    \/ \E name \in User, password \in Password : AddUser(name, password)
    \/ PassTime

BindingSpec == BindingInit /\ [][BindingNext]_allVars

\* Both users keep calling, time passes, and a reliable network delivers.
BindingFairSpec ==
    /\ BindingSpec
    /\ WF_allVars(CallNext)
    /\ WF_allVars(PassTime)
    /\ WF_allVars(\E d \in responses : ReceiveResponse(d))
    /\ WF_allVars(\E d \in requests : ReceiveRequest(d))

-----------------------------------------------------------------------------
(* Properties.                                                             *)

Accepted(h) == h \in Signed => Me \in DOMAIN users /\ users[Me] = Secret

\* An outcome tells the user of the client what the server made of the request,
\* or that nothing was heard.  Ok means that the server knows the client's
\* credentials, if it signs.  The server's 401 and 420 are not signed: a client
\* that signs does not hear of them and times out, one that does not sign is
\* told of its unknown attribute.
OutcomesTruthful ==
    \A i \in 1 .. Len(effects) :
        LET e == effects[i]
        IN  IsOutcome(e) =>
              \/ e.reason = "Timeout"
              \/ /\ e.type = "TransactionOk"
                 /\ e.hnd \notin Strange /\ Accepted(e.hnd)
              \/ /\ e.reason = "UnknownAttributeReported"
                 /\ e.hnd \in Strange \ Signed

\* Over a reliable network whose round trip is shorter than the schedule of
\* requests, each request the server accepts ends with TransactionOk, whatever
\* round trips were measured before.
EveryRequestServed ==
    \A h \in Handle \ Strange :
        h \in DOMAIN tmap ~> returned.type = "TransactionOk" /\ returned.hnd = h
=============================================================================
