------------------------- MODULE StunServerStateless -------------------------
(***************************************************************************)
(* The stateless STUN server: stun::server::Stateless                      *)
(* (src/stun/stun_server_stateless.cpp).  It keeps no transactions, only   *)
(* the passwords of its users.  process() answers one datagram; what the   *)
(* caller does with the answer is the caller's affair.                     *)
(***************************************************************************)
EXTENDS Naturals

CONSTANTS User,            \* user names
          Password,        \* keys of MESSAGE-INTEGRITY
          Tid,             \* transaction identifiers
          Request,         \* datagrams that may arrive, see RequestSet
          use_fingerprint, \* Settings::use_fingerprint
          Absent           \* an absent Maybe

\* A datagram, as far as process() looks into it.  unknown tells whether it has
\* an unknown comprehension-required attribute; key is the password its
\* MESSAGE-INTEGRITY was computed with.  A message that was altered on the way
\* is one whose key nobody has.
RequestSet ==
    [tid      : Tid,
     cls      : {"malformed", "request", "other"},
     method   : {"binding", "other"},
     unknown  : BOOLEAN,
     username : User \cup {Absent},
     key      : Password \cup {Absent},
     rfc3489  : BOOLEAN]

\* A response; key is Absent unless Respond::maybe_integrity says to sign it.
ResponseSet ==
    [tid         : Tid,
     method      : {"binding", "other"},
     cls         : {"success", "error"},
     code        : {400, 401, 420, Absent},
     reported    : BOOLEAN,
     address     : {"xor_mapped", "mapped", "absent"},
     fingerprint : BOOLEAN,
     rfc3489     : BOOLEAN,
     key         : Password \cup {Absent}]

ASSUME ServerAssumption ==
    /\ Request \subseteq RequestSet
    /\ use_fingerprint \in BOOLEAN
    /\ Absent \notin User \cup Password

VARIABLES users,    \* m_users
          result    \* the ProcessResult of the last process(), or Absent

vars == <<users, result>>

Init == users = <<>> /\ result = Absent

-----------------------------------------------------------------------------
create_error(d, code) ==
    [tid |-> d.tid, method |-> d.method, cls |-> "error", code |-> code,
     reported |-> code = 420, address |-> "absent", fingerprint |-> FALSE,
     rfc3489 |-> d.rfc3489, key |-> Absent]

\* The success response, signed with key if there is one.
create_success(d, key) ==
    [tid |-> d.tid, method |-> d.method, cls |-> "success", code |-> Absent,
     reported |-> FALSE,
     address |-> IF d.rfc3489 THEN "mapped" ELSE "xor_mapped",
     fingerprint |-> ~d.rfc3489 /\ use_fingerprint,
     rfc3489 |-> d.rfc3489, key |-> key]

Respond(d, rsp) == [type |-> "Respond", request |-> d, response |-> rsp]

\* Ignore::message is absent when the datagram could not be parsed.
Ignore(d) == [type |-> "Ignore", response |-> Absent,
              request |-> IF d.cls = "malformed" THEN Absent ELSE d]

HashError(d) == [type |-> "Error", request |-> d, response |-> Absent]

\* A known user's password is compared with the key of the message.  (is_valid
\* can also find no MESSAGE-INTEGRITY, but not after the check for it.)
Authorised(d) == d.username \in DOMAIN users /\ users[d.username] = d.key

\* maybe_integrity_data: how the response to an authorised user is signed.
maybe_integrity(d) == IF d.username = Absent THEN Absent ELSE users[d.username]

\* Mutant of process_request: the signature is not compared with the password.
ProcessRequestUnverified(d, hash_ok) ==
    IF d.unknown THEN Respond(d, create_error(d, 420))
    ELSE IF (d.username = Absent) # (d.key = Absent)
         THEN Respond(d, create_error(d, 400))
    ELSE IF d.username # Absent /\ d.username \notin DOMAIN users
         THEN Respond(d, create_error(d, 401))
    ELSE Respond(d, create_success(d, maybe_integrity(d)))

\* hash_ok is FALSE when the hash function fails; it is called only for the
\* signature of a known user.
process_request(d, hash_ok) ==
    IF d.unknown THEN Respond(d, create_error(d, 420))
    ELSE IF (d.username = Absent) # (d.key = Absent)
         THEN Respond(d, create_error(d, 400))
    ELSE IF d.username \in DOMAIN users /\ ~hash_ok THEN HashError(d)
    ELSE IF d.username # Absent /\ ~Authorised(d)
         THEN Respond(d, create_error(d, 401))
    ELSE IF d.method # "binding" THEN Ignore(d)
    ELSE Respond(d, create_success(d, maybe_integrity(d)))

process(d, hash_ok) ==
    IF d.cls = "request" THEN process_request(d, hash_ok) ELSE Ignore(d)

Process(d, hash_ok) ==
    /\ result' = process(d, hash_ok)
    /\ UNCHANGED users

\* Mutant of emplace: operator[] in its place.
EmplaceReplaces(f, k, v) ==
    [x \in DOMAIN f \cup {k} |-> IF x = k THEN v ELSE f[x]]

\* std::unordered_map::emplace: a key that is there keeps its value.
emplace(f, k, v) ==
    [x \in DOMAIN f \cup {k} |-> IF x \in DOMAIN f THEN f[x] ELSE v]

add_user(name, password) == users' = emplace(users, name, password)

AddUser(name, password) == add_user(name, password) /\ UNCHANGED result

Next ==
    \/ \E d \in Request, hash_ok \in BOOLEAN : Process(d, hash_ok)
    \/ \E name \in User, password \in Password : AddUser(name, password)

Spec == Init /\ [][Next]_vars

-----------------------------------------------------------------------------
(* Properties.                                                             *)

ResultSet ==
         [type : {"Respond"}, request : Request, response : ResponseSet]
    \cup [type : {"Ignore", "Error"}, request : Request \cup {Absent},
          response : {Absent}]

\* Users have passwords and process() returned one of its three results.
TypeOK ==
    /\ DOMAIN users \subseteq User
    /\ \A name \in DOMAIN users : users[name] \in Password
    /\ result \in ResultSet \cup {Absent}

\* A response goes back to the transaction it answers, in the form of its
\* client (RFC 3489 or later).  Success is reported only for a binding request
\* that was anonymous or signed with the password of its user, and the response
\* is signed exactly when the request was, with that same password, so that the
\* client can check it.  Nothing add_user() does later changes that.
SuccessDeserved ==
    result # Absent /\ result.type = "Respond" =>
        LET q == result.request
            r == result.response
        IN  /\ q.cls = "request" /\ r.tid = q.tid /\ r.method = q.method
            /\ r.address = "mapped" => q.rfc3489
            /\ r.fingerprint => ~q.rfc3489
            /\ r.cls = "error" => r.key = Absent
            /\ r.cls = "success" =>
                  /\ q.method = "binding" /\ ~q.unknown
                  /\ r.key = q.key
                  /\ IF q.key = Absent THEN q.username = Absent
                     ELSE q.username \in DOMAIN users /\ users[q.username] = q.key

\* process() answers d with success as long as the hash function works.
Succeeds(d) ==
    LET r == process(d, TRUE)
    IN  r.type = "Respond" /\ r.response.cls = "success"

\* A request that was answered with success gets success whenever it comes
\* again: a retransmission is never refused because of users added meanwhile.
AcceptedStaysAccepted ==
    [][\A d \in Request : Succeeds(d) => Succeeds(d)']_vars
=============================================================================
