-------------------------- MODULE Components_proofs --------------------------
(***************************************************************************)
(* The parts that stand alone: the parsers, time points and priorities as  *)
(* Parsers states them, for every packet, every payload map, all           *)
(* preferences and every modulus of the clock; the stateless server, for   *)
(* any users, passwords, settings and datagrams; and the history of the    *)
(* RTO calculator, for any number of paths, any round trips and timeouts   *)
(* and any history_duration.                                               *)
(***************************************************************************)
EXTENDS Parsers, StunServerStateless, RtoHistory, WellFoundedInduction, TLAPS

USE SMTT(100), ZenonT(100)

-----------------------------------------------------------------------------
(* The parsers.                                                            *)

\* The inputs that are not sequences have their type.
Typed ==
    /\ kind = "packet" => input \in Packet
    /\ kind = "preferences" => input \in [a : Preferences, b : Preferences]
    /\ kind = "times" => input \in [t : Point, d : Point, e : Point]

\* Only packets are given to Packet::parse() and only points to the operations
\* of Timepoint.
LEMMA InputsTyped == ParserSpec => []Typed
<1>1. ParserInit => Typed
  BY DEF ParserInit, Typed
<1>2. Typed /\ [ParserNext]_parserVars => Typed'
  <2> SUFFICES ASSUME Typed, [ParserNext]_parserVars PROVE Typed'
    OBVIOUS
  <2>1. ASSUME NEW w \in Words, AddWord(w) PROVE Typed'
    BY <2>1 DEF AddWord, Typed
  <2>2. ASSUME NEW c \in CharClass, AddChar(c) PROVE Typed'
    BY <2>2 DEF AddChar, Typed
  <2>3. ASSUME NEW p \in Packets, Take("packet", p) PROVE Typed'
    BY <2>3, ParsersAssumption DEF Take, Typed
  <2>4. ASSUME NEW a \in Preferences, NEW b \in Preferences,
               Take("preferences", [a |-> a, b |-> b])
        PROVE  Typed'
    BY <2>4 DEF Take, Typed
  <2>5. ASSUME NEW t \in Point, NEW d \in Point, NEW e \in Point,
               Take("times", [t |-> t, d |-> d, e |-> e])
        PROVE  Typed'
    BY <2>5 DEF Take, Typed
  <2>6. CASE UNCHANGED parserVars
    BY <2>6 DEF parserVars, Typed
  <2> QED
    BY <2>1, <2>2, <2>3, <2>4, <2>5, <2>6, ZenonT(100) DEF ParserNext
<1> QED
  BY <1>1, <1>2, PTL DEF ParserSpec

-----------------------------------------------------------------------------
\* Whatever bytes arrive, Packet::parse() divides the packet into sources,
\* extension, payload and padding without gap or overlap, or refuses it; with
\* a padding count of 0 it at least stays within the packet.
LEMMA EveryPacketPartitioned == \A p \in Packet : Partitioned(p)
<1> SUFFICES ASSUME NEW p \in Packet PROVE Partitioned(p)
  OBVIOUS
<1> DEFINE header == IF p.extension THEN 4 ELSE 0
           pad == IF p.padding THEN p.last ELSE 0
           fixed == 12 + 4 * p.cc + (IF p.extension THEN 4 + 4 * p.ext_length ELSE 0)
           r == ParseRtp(p)
           taken == /\ p.size >= 12 /\ p.version = 2 /\ ExtOffset(p) <= p.size
                    /\ p.pt \in PayloadMap /\ ExtensionFits(p) /\ PaddingFits(p)
<1>1. p.size \in Nat /\ p.cc \in Nat /\ p.ext_length \in Nat /\ p.last \in Nat
  BY DEF Packet
<1>2. /\ ExtOffset(p) = 12 + 4 * p.cc
      /\ ExtSize(p) = IF p.extension THEN 4 + 4 * p.ext_length ELSE 0
      /\ PayloadOffset(p) = fixed
      /\ Remaining(p) = p.size - fixed
      /\ PaddingSize(p) = pad
  BY <1>1 DEF ExtOffset, ExtSize, PayloadOffset, Remaining, PaddingSize,
     RTP_FIXED_HEADER_LEN
<1>3. taken <=> /\ p.version = 2 /\ p.pt \in PayloadMap /\ fixed + pad <= p.size
                /\ p.padding => fixed < p.size
  <2>1. CASE p.extension
    BY <1>1, <1>2, <2>1 DEF ExtensionFits, PaddingFits
  <2>2. CASE ~p.extension
    BY <1>1, <1>2, <2>2 DEF ExtensionFits, PaddingFits
  <2> QED
    BY <2>1, <2>2
<1>4. taken => r = Divided(p)
  BY <1>1, <1>2 DEF ParseRtp, RTP_FIXED_HEADER_LEN, RTP_VERSION
<1>5. ~taken => r \in {RtpError("invalid_size"), RtpError("invalid_version"),
                       RtpError("invalid_csrc"), RtpError("unknown_rtp_clock"),
                       RtpError("invalid_extension"), RtpError("invalid_padding")}
  BY <1>1, <1>2 DEF ParseRtp, RTP_FIXED_HEADER_LEN, RTP_VERSION
<1> HIDE DEF taken, r
<1>6. r.error = "" <=> taken
  <2>1. Divided(p).error = ""
    BY DEF Divided
  <2>2. /\ RtpError("invalid_size").error # ""
        /\ RtpError("invalid_version").error # ""
        /\ RtpError("invalid_csrc").error # ""
        /\ RtpError("unknown_rtp_clock").error # ""
        /\ RtpError("invalid_extension").error # ""
        /\ RtpError("invalid_padding").error # ""
    BY DEF RtpError
  <2>3. ~taken => r.error # ""
    BY ONLY <1>5, <2>2, ZenonT(100)
  <2> QED
    BY <1>4, <2>1, <2>3, ZenonT(100)
<1>7. /\ Divided(p).csrcs.offset = 12 /\ Divided(p).csrcs.count = 4 * p.cc
      /\ Divided(p).payload.offset = fixed
      /\ Divided(p).payload.count = p.size - fixed - pad
  BY <1>2 DEF Divided, Interval, RTP_FIXED_HEADER_LEN
<1>8. /\ Divided(p).ext.offset = 12 + 4 * p.cc + header
      /\ Divided(p).ext.count = IF p.extension THEN 4 * p.ext_length ELSE 0
  <2>1. CASE p.extension
    <3>1. Divided(p).ext = Interval(ExtOffset(p) + 4, ExtSize(p) - 4)
      BY <2>1 DEF Divided
    <3> QED
      BY <1>1, <1>2, <2>1, <3>1 DEF Interval
  <2>2. CASE ~p.extension
    <3>1. Divided(p).ext = Interval(12 + 4 * p.cc, 0)
      BY <1>2, <2>2 DEF Divided
    <3> QED
      BY <1>1, <2>2, <3>1 DEF Interval
  <2> QED
    BY <2>1, <2>2
<1> HIDE DEF fixed, pad
<1>9. taken => /\ r.csrcs.offset = 12
               /\ r.csrcs.offset + r.csrcs.count + header = r.ext.offset
               /\ r.ext.offset + r.ext.count = r.payload.offset
               /\ r.payload.offset + r.payload.count <= p.size
               /\ r.payload.offset + r.payload.count + pad = p.size
               /\ r.csrcs.count >= 0 /\ r.ext.count >= 0 /\ r.payload.count >= 0
  <2>1. fixed = 12 + 4 * p.cc + header + Divided(p).ext.count /\ fixed \in Nat
    BY <1>1, <1>8 DEF fixed
  <2>2. pad \in Nat
    BY <1>1 DEF pad
  <2> QED
    BY <1>1, <1>3, <1>4, <1>7, <1>8, <2>1, <2>2
<1>10. CountsItself(p) /\ p.padding /\ fixed + pad <= p.size => fixed < p.size
  <2>1. fixed \in Nat
    BY <1>1 DEF fixed
  <2> QED
    BY <1>1, <2>1 DEF CountsItself, pad
<1> QED
  BY <1>3, <1>6, <1>9, <1>10, ZenonT(100) DEF Partitioned, r, pad, fixed

\* The same of the packets the specification takes.
THEOREM PacketsSafe == ParserSpec => []PacketPartitioned
<1>1. Typed => PacketPartitioned
  BY EveryPacketPartitioned DEF Typed, PacketPartitioned
<1> QED
  BY <1>1, InputsTyped, PTL

-----------------------------------------------------------------------------
\* Time points less than half of the range apart compare and subtract as the
\* times they stand for, wherever the counter wraps and however wide it is.
THEOREM TimesSafe == ParserSpec => []TimesOrdered
<1>1. ASSUME Typed PROVE TimesOrdered
  <2> SUFFICES ASSUME kind = "times", input.d - input.e < Half,
                      input.e - input.d < Half
               PROVE  LET p == advance(input.t, input.d)
                          q == advance(input.t, input.e)
                      IN  /\ is_after(p, q) = (input.d > input.e)
                          /\ is_before(p, q) = (input.d < input.e)
                          /\ Difference(p, q) = input.d - input.e
    BY DEF TimesOrdered
  <2> DEFINE t == input.t  d == input.d  e == input.e
             p == advance(t, d)  q == advance(t, e)
  <2>1. /\ t \in 0 .. Modulus - 1 /\ d \in 0 .. Modulus - 1 /\ e \in 0 .. Modulus - 1
    BY <1>1 DEF Typed, Point
  <2>2. PICK h \in Nat : Modulus = 2 * h /\ Half = h
    <3>1. Modulus \in Nat /\ Modulus % 2 = 0
      BY ModulusAssumption
    <3>2. Modulus = 2 * (Modulus \div 2) /\ Modulus \div 2 \in Nat
      BY <3>1
    <3> QED
      BY <3>2 DEF Half
  <2> HIDE DEF t, d, e
  <2>3. /\ p = IF t + d < 2 * h THEN t + d ELSE t + d - 2 * h
        /\ q = IF t + e < 2 * h THEN t + e ELSE t + e - 2 * h
        /\ p \in 0 .. 2 * h - 1 /\ q \in 0 .. 2 * h - 1
        /\ d - e < h /\ e - d < h
    BY <2>1, <2>2 DEF advance, Plus, t, d, e
  <2>4. Minus(p, q) = IF d >= e THEN d - e ELSE d - e + 2 * h
    BY <2>1, <2>2, <2>3 DEF Minus
  <2>5. Minus(q, p) = IF e >= d THEN e - d ELSE e - d + 2 * h
    BY <2>1, <2>2, <2>3 DEF Minus
  <2> HIDE DEF p, q
  <2>6. is_after(p, q) = (d > e) /\ is_before(p, q) = (d < e)
    BY <2>1, <2>2, <2>3, <2>4, <2>5 DEF is_after, is_before
  <2>7. Difference(p, q) = d - e
    <3>1. CASE d > e
      <4>1. Difference(p, q) = Signed(Minus(p, q))
        BY <2>6, <3>1, ZenonT(100) DEF Difference
      <4> QED
        BY <2>1, <2>2, <2>3, <2>4, <3>1, <4>1 DEF Signed
    <3>2. CASE ~(d > e)
      <4>1. Difference(p, q) = -Minus(q, p)
        BY <2>6, <3>2, ZenonT(100) DEF Difference
      <4> QED
        BY <2>1, <2>5, <3>2, <4>1
    <3> QED
      BY <3>1, <3>2
  <2> QED
    BY <2>6, <2>7 DEF p, q, t, d, e
<1> QED
  BY <1>1, InputsTyped, PTL

-----------------------------------------------------------------------------
(* Priorities.                                                             *)

\* The parts of a priority joined, before Priority::from_uint32 looks at them.
Joined(type, local, id) == type * 16777216 + local * 256 + (256 - id)

\* What a type, a local preference and a component may be, the one choice that
\* joins to 0, and the order of two choices.
Fits(x, l, i) == x \in 0 .. 126 /\ l \in Nat /\ l <= MaxLocal /\ i \in 1 .. 256

Nothing(x, l, i) == x = 0 /\ l = 0 /\ i = 256

Below(x, l, i, y, m, j) ==
    \/ x < y
    \/ x = y /\ l < m
    \/ x = y /\ l = m /\ i > j

\* Each part stays below the bits of the next.
LEMMA JoinedBound ==
    ASSUME NEW x, NEW l, NEW i, Fits(x, l, i)
    PROVE  /\ Joined(x, l, i) \in Nat /\ Joined(x, l, i) <= MaxPriority
           /\ Joined(x, l, i) = 0 <=> Nothing(x, l, i)
<1>1. x \in 0 .. 126 /\ l \in Nat /\ l <= 65535 /\ i \in 1 .. 256
  BY SMTT(100) DEF Fits, MaxLocal
<1>2. Joined(x, l, i) >= 0
  BY <1>1, SMTT(100) DEF Joined
<1>3. Joined(x, l, i) \in Int
  BY <1>1, SMTT(100) DEF Joined
<1>4. Joined(x, l, i) <= MaxPriority
  BY <1>1, SMTT(100) DEF Joined, MaxPriority
<1>5. Joined(x, l, i) = 0 <=> Nothing(x, l, i)
  BY <1>1, SMTT(100) DEF Joined, Nothing
<1> QED BY <1>2, <1>3, <1>4, <1>5

\* So two joined values compare as their parts do, one after the other.
LEMMA JoinedOrder ==
    ASSUME NEW x, NEW l, NEW i, NEW y, NEW m, NEW j, Fits(x, l, i), Fits(y, m, j)
    PROVE  Joined(x, l, i) < Joined(y, m, j) <=> Below(x, l, i, y, m, j)
<1>1. /\ x \in 0 .. 126 /\ l \in Nat /\ l <= 65535 /\ i \in 1 .. 256
      /\ y \in 0 .. 126 /\ m \in Nat /\ m <= 65535 /\ j \in 1 .. 256
  BY SMTT(100) DEF Fits, MaxLocal
<1> QED BY <1>1, SMTT(100) DEF Joined, Below

\* The preferences the parsers' inputs hold are ones the types of the code allow.
LEMMA PreferenceFacts ==
    ASSUME NEW c \in Preferences
    PROVE  /\ Fits(TypePreference[c.type], c.local, c.id)
           /\ TypePreference[c.type] = 0 <=> c.type = "relay"
           /\ c.id \in 1 .. 256
<1>1. c.type \in {"host", "srflx", "prflx", "relay"} /\ c.local \in Locals
      /\ c.id \in ComponentIds
  BY DEF Preferences
<1>2. c.local \in Nat /\ c.local <= MaxLocal /\ c.id \in 1 .. 256
  BY <1>1, ParsersAssumption, ZenonT(100)
<1>3. /\ TypePreference[c.type] \in 0 .. 126
      /\ TypePreference[c.type] = 0 <=> c.type = "relay"
  BY <1>1 DEF TypePreference
<1> QED BY <1>2, <1>3 DEF Fits

\* to_priority() is the joined value, refused when it is 0.
LEMMA PriorityValue ==
    ASSUME NEW c \in Preferences, NEW v, v = Joined(TypePreference[c.type], c.local, c.id)
    PROVE  LET p == ToPriority(TypePreference[c.type], c.local,
                               ComponentPreference(ComponentIdFromUnsigned(c.id).value))
           IN  /\ p.error # "" <=> v = 0
               /\ v # 0 => p.value = v
<1>1. ComponentIdFromUnsigned(c.id).value = c.id
  BY PreferenceFacts DEF ComponentIdFromUnsigned, Ok
<1>2. ComponentPreference(c.id) = 256 - c.id
  BY DEF ComponentPreference
<1>3. ASSUME NEW x, NEW l, NEW i
      PROVE  ToPriority(x, l, 256 - i) =
                 IF Joined(x, l, i) = 0 THEN Err("invalid_priority_value")
                                        ELSE Ok(Joined(x, l, i))
  BY SMTT(100) DEF ToPriority, Joined
<1>4. Err("invalid_priority_value").error # ""
  BY DEF Err
<1>5. Ok(v).error = "" /\ Ok(v).value = v
  BY DEF Ok
<1>6. ToPriority(TypePreference[c.type], c.local, 256 - c.id) =
          IF v = 0 THEN Err("invalid_priority_value") ELSE Ok(v)
  BY <1>3, ZenonT(100)
<1>7. ToPriority(TypePreference[c.type], c.local,
                 ComponentPreference(ComponentIdFromUnsigned(c.id).value)) =
          IF v = 0 THEN Err("invalid_priority_value") ELSE Ok(v)
  BY <1>1, <1>2, <1>6, ZenonT(100)
<1>8. CASE v = 0
  BY <1>4, <1>7, <1>8, ZenonT(100)
<1>9. CASE v # 0
  BY <1>5, <1>7, <1>9, ZenonT(100)
<1> QED BY <1>8, <1>9, ZenonT(100)

\* The property for a pair of preferences, whatever the state.
LEMMA EveryPairOrdered == \A a, b \in Preferences : Lexicographic(a, b)
<1> SUFFICES ASSUME NEW a \in Preferences, NEW b \in Preferences
             PROVE  Lexicographic(a, b)
  OBVIOUS
<1> DEFINE p(c) == ToPriority(TypePreference[c.type], c.local,
                       ComponentPreference(ComponentIdFromUnsigned(c.id).value))
           none(c) == c.type = "relay" /\ c.local = 0 /\ c.id = 256
           rank(c) == TypePreference[c.type]
           v(c) == Joined(rank(c), c.local, c.id)
<1>1. ASSUME NEW c \in Preferences
      PROVE  /\ p(c).error # "" <=> v(c) = 0
             /\ v(c) # 0 => p(c).value = v(c)
  <2> PICK w : w = v(c)
    OBVIOUS
  <2>1. w = Joined(TypePreference[c.type], c.local, c.id)
    OBVIOUS
  <2>2. (p(c).error # "" <=> w = 0) /\ (w # 0 => p(c).value = w)
    BY <2>1, PriorityValue, ZenonT(100)
  <2> QED BY <2>2, ZenonT(100)
<1>2. ASSUME NEW c \in Preferences
      PROVE  /\ v(c) \in Nat /\ v(c) <= MaxPriority
             /\ v(c) = 0 <=> none(c)
  <2>1. Fits(rank(c), c.local, c.id) /\ (rank(c) = 0 <=> c.type = "relay")
    BY PreferenceFacts
  <2>2. /\ v(c) \in Nat /\ v(c) <= MaxPriority
        /\ v(c) = 0 <=> Nothing(rank(c), c.local, c.id)
    BY <2>1, JoinedBound, ZenonT(100)
  <2>3. Nothing(rank(c), c.local, c.id) <=> none(c)
    BY <2>1 DEF Nothing
  <2> QED BY <2>2, <2>3, ZenonT(100)
<1>3. v(a) < v(b) <=> Below(rank(a), a.local, a.id, rank(b), b.local, b.id)
  <2>1. Fits(rank(a), a.local, a.id) /\ Fits(rank(b), b.local, b.id)
    BY PreferenceFacts
  <2> QED BY <2>1, JoinedOrder, ZenonT(100)
<1> HIDE DEF p, none, v
<1>4. /\ p(a).error # "" <=> none(a)
      /\ ~none(a) => p(a).value = v(a) /\ v(a) \in Nat /\ v(a) # 0 /\ v(a) <= MaxPriority
      /\ ~none(b) => p(b).value = v(b)
  BY <1>1, <1>2, ZenonT(100)
<1>5. ~none(a) => 0 < p(a).value /\ p(a).value <= MaxPriority
  <2>1. \A n \in Nat : n # 0 => 0 < n
    OBVIOUS
  <2> QED BY <1>4, <2>1, ZenonT(100)
<1>6. ~none(a) /\ ~none(b) =>
         (p(a).value < p(b).value <=>
            \/ rank(a) < rank(b)
            \/ rank(a) = rank(b) /\ a.local < b.local
            \/ rank(a) = rank(b) /\ a.local = b.local /\ a.id > b.id)
  BY <1>3, <1>4, ZenonT(100) DEF Below
<1> QED BY <1>4, <1>5, <1>6, ZenonT(100) DEF Lexicographic, p, none

\* Whatever the preferences, to_priority() orders candidates by type, then local
\* preference, then component, and refuses the one that would have priority 0.
THEOREM PrioritiesSafe == ParserSpec => []PriorityIsLexicographic
<1>1. Typed => PriorityIsLexicographic
  BY EveryPairOrdered DEF Typed, PriorityIsLexicographic
<1> QED BY <1>1, InputsTyped, PTL

-----------------------------------------------------------------------------
(* The server.                                                             *)

\* The response process() gives to d is of its type, whatever users there are.
LEMMA ProcessType ==
    ASSUME TypeOK, NEW d \in Request, NEW hash_ok \in BOOLEAN
    PROVE  process(d, hash_ok) \in ResultSet
<1>1. d \in RequestSet BY ServerAssumption
<1>2. d.tid \in Tid /\ d.method \in {"binding", "other"} /\ d.rfc3489 \in BOOLEAN
  BY <1>1 DEF RequestSet
<1>3. \A code \in {400, 401, 420} : create_error(d, code) \in ResponseSet
  BY <1>2 DEF create_error, ResponseSet
<1>4. \A k \in Password \cup {Absent} : create_success(d, k) \in ResponseSet
  BY <1>2, ServerAssumption DEF create_success, ResponseSet
<1>5. Authorised(d) \/ d.username = Absent
        => maybe_integrity(d) \in Password \cup {Absent}
  BY DEF Authorised, maybe_integrity, TypeOK
<1>6. \A r \in ResponseSet : Respond(d, r) \in ResultSet
  BY DEF Respond, ResultSet
<1>7. Ignore(d) \in ResultSet /\ HashError(d) \in ResultSet
  BY DEF Ignore, HashError, ResultSet
<1>8. QED
  BY <1>3, <1>4, <1>5, <1>6, <1>7 DEF process, process_request

\* A user that is there keeps its password and a new one gets one.
LEMMA EmplaceKeeps ==
    ASSUME TypeOK, NEW name \in User, NEW password \in Password,
           add_user(name, password)
    PROVE  /\ DOMAIN users \subseteq DOMAIN users'
           /\ \A n \in DOMAIN users : users'[n] = users[n]
           /\ DOMAIN users' \subseteq User
           /\ \A n \in DOMAIN users' : users'[n] \in Password
  BY DEF TypeOK, add_user, emplace

\* The server's state keeps its type: process() returns one of its results for
\* every datagram, and add_user() stores passwords.
THEOREM ServerTypeCorrect == Spec => []TypeOK
<1>1. Init => TypeOK BY DEF Init, TypeOK
<1>2. TypeOK /\ [Next]_vars => TypeOK'
  <2> SUFFICES ASSUME TypeOK, [Next]_vars PROVE TypeOK' OBVIOUS
  <2>1. ASSUME NEW d \in Request, NEW hash_ok \in BOOLEAN, Process(d, hash_ok)
        PROVE  TypeOK'
    BY <2>1, ProcessType DEF Process, TypeOK
  <2>2. ASSUME NEW name \in User, NEW password \in Password,
               AddUser(name, password)
        PROVE  TypeOK'
    BY <2>2, EmplaceKeeps DEF AddUser, TypeOK
  <2>3. CASE UNCHANGED vars BY <2>3 DEF vars, TypeOK
  <2>4. QED BY <2>1, <2>2, <2>3 DEF Next
<1>3. QED BY <1>1, <1>2, PTL DEF Spec

\* process() gives success only to those who deserve it, see SuccessDeserved.
LEMMA ProcessDeserved ==
    ASSUME TypeOK, NEW d \in Request, NEW hash_ok \in BOOLEAN,
           Process(d, hash_ok)
    PROVE  SuccessDeserved'
<1>1. d \in RequestSet BY ServerAssumption
<1>2. d.key \in Password \cup {Absent} /\ d.username \in User \cup {Absent}
  BY <1>1 DEF RequestSet
<1>3. result' = process(d, hash_ok) /\ users' = users BY DEF Process
<1>4. CASE d.cls # "request"
  BY <1>3, <1>4 DEF process, Ignore, SuccessDeserved
<1>5. CASE d.cls = "request"
  <2>1. result' = process_request(d, hash_ok) BY <1>3, <1>5 DEF process
  <2>2. ASSUME NEW code \in {400, 401, 420},
               result' = Respond(d, create_error(d, code))
        PROVE  SuccessDeserved'
    BY <1>5, <2>2 DEF Respond, create_error, SuccessDeserved
  <2>3. ASSUME result' = Ignore(d) \/ result' = HashError(d)
        PROVE  SuccessDeserved'
    BY <2>3 DEF Ignore, HashError, SuccessDeserved
  <2>4. ASSUME ~d.unknown, (d.username = Absent) = (d.key = Absent),
               d.username # Absent => Authorised(d), d.method = "binding",
               result' = Respond(d, create_success(d, maybe_integrity(d)))
        PROVE  SuccessDeserved'
    <3>1. maybe_integrity(d) = d.key
      BY <2>4 DEF maybe_integrity, Authorised
    <3>2. d.key # Absent => d.username \in DOMAIN users' /\ users'[d.username] = d.key
      BY <1>3, <2>4 DEF Authorised
    <3>3. QED
      BY <1>5, <2>4, <3>1, <3>2, ZenonT(100) DEF Respond, create_success, SuccessDeserved
  <2>5. QED BY <2>1, <2>2, <2>3, <2>4 DEF process_request
<1>6. QED BY <1>4, <1>5

\* Success is reported only for an anonymous binding request or one signed with
\* the password of its user, and stays justified when users are added.
THEOREM ServerSuccessDeserved == Spec => []SuccessDeserved
<1>1. Init => SuccessDeserved BY DEF Init, SuccessDeserved
<1>2. TypeOK /\ SuccessDeserved /\ [Next]_vars => SuccessDeserved'
  <2> SUFFICES ASSUME TypeOK, SuccessDeserved, [Next]_vars
               PROVE  SuccessDeserved'
    OBVIOUS
  <2>1. ASSUME NEW d \in Request, NEW hash_ok \in BOOLEAN, Process(d, hash_ok)
        PROVE  SuccessDeserved'
    BY <2>1, ProcessDeserved
  <2>2. ASSUME NEW name \in User, NEW password \in Password,
               AddUser(name, password)
        PROVE  SuccessDeserved'
    BY <2>2, EmplaceKeeps DEF AddUser, SuccessDeserved
  <2>3. CASE UNCHANGED vars BY <2>3 DEF vars, SuccessDeserved
  <2>4. QED BY <2>1, <2>2, <2>3 DEF Next
<1>3. QED BY <1>1, <1>2, ServerTypeCorrect, PTL DEF Spec

\* A request once answered with success is answered so whenever it comes again:
\* add_user() does not replace the password of a user that is known.
THEOREM ServerKeepsAccepting == Spec => AcceptedStaysAccepted
<1>1. TypeOK /\ [Next]_vars => [\A d \in Request : Succeeds(d) => Succeeds(d)']_vars
  <2> SUFFICES ASSUME TypeOK, Next, NEW d \in Request, Succeeds(d)
               PROVE  Succeeds(d)'
    OBVIOUS
  <2>1. /\ d.cls = "request" /\ ~d.unknown /\ d.method = "binding"
        /\ (d.username = Absent) = (d.key = Absent)
        /\ d.username # Absent => Authorised(d)
    BY DEF Succeeds, process, process_request, Respond, Ignore, HashError,
           create_error
  <2>2. d.username # Absent => Authorised(d)'
    <3>1. ASSUME NEW e \in Request, NEW hash_ok \in BOOLEAN, Process(e, hash_ok)
          PROVE  users' = users
      BY <3>1 DEF Process
    <3>2. ASSUME NEW name \in User, NEW password \in Password,
                 AddUser(name, password)
          PROVE  d.username # Absent => Authorised(d)'
      BY <2>1, <3>2, EmplaceKeeps DEF AddUser, Authorised
    <3>3. QED BY <2>1, <3>1, <3>2 DEF Next, Authorised
  <2>3. QED
    BY <2>1, <2>2 DEF Succeeds, process, process_request, Respond, create_success
<1>2. QED BY <1>1, ServerTypeCorrect, PTL DEF Spec, AcceptedStaysAccepted

-----------------------------------------------------------------------------
(* m_timeline and m_by_path while an update is under way: h links every    *)
(* key of bp exactly once, in the order of the last updates.               *)

Once(h) == \A i, j \in 1 .. Len(h) : h[i] = h[j] => i = j

Links(bp, h) == \A p : p \in DOMAIN bp <=> \E i \in 1 .. Len(h) : h[i] = p

Sorted(bp, h) ==
    \A i, j \in 1 .. Len(h) : i <= j => bp[h[i]].last_update <= bp[h[j]].last_update

Consistent(bp, h) ==
    /\ DOMAIN bp \subseteq Path
    /\ \A p \in DOMAIN bp : bp[p] \in Data
    /\ h \in Seq(Path)
    /\ Once(h)
    /\ Links(bp, h)
    /\ Sorted(bp, h)

\* A nonempty set of natural numbers has a least element.
LEMMA LeastNat ==
    ASSUME NEW S, S \subseteq Nat, S # {}
    PROVE  \E n \in S : \A m \in S : n <= m
<1>1. PICK n \in S : \A m \in S : ~(<<m, n>> \in OpToRel(<, Nat))
  BY NatLessThanWellFounded, WFMin, ZenonT(100)
<1>2. \A m \in S : ~(m < n)
  BY <1>1, ZenonT(100) DEF OpToRel
<1> QED BY <1>2

\* clear_outdated() stops: at the first path that is recent enough or, when
\* there is none, behind the last one.
LEMMA FirstKeptExists ==
    ASSUME NEW bp, NEW h \in Seq(Path), NEW at
    PROVE  LET i == FirstKept(bp, h, at)
           IN  /\ i \in 1 .. (Len(h) + 1)
               /\ \A j \in 1 .. (i - 1) : Outdated(bp, h[j], at)
               /\ i <= Len(h) => ~Outdated(bp, h[i], at)
<1> DEFINE Stops(i) == i <= Len(h) => ~Outdated(bp, h[i], at)
           S == {i \in 1 .. (Len(h) + 1) : Stops(i)}
           First(i) == /\ \A j \in 1 .. (i - 1) : Outdated(bp, h[j], at)
                       /\ i <= Len(h) => ~Outdated(bp, h[i], at)
<1>1. Len(h) \in Nat
  OBVIOUS
<1>2. S \subseteq Nat
  OBVIOUS
<1>3. Len(h) + 1 \in S
  BY <1>1
<1>4. PICK i \in S : \A m \in S : i <= m
  <2> HIDE DEF S
  <2> QED BY <1>2, <1>3, LeastNat, ZenonT(100)
<1>5. First(i)
  BY <1>1, <1>4
<1>6. i \in 1 .. (Len(h) + 1)
  BY <1>4
<1>7. FirstKept(bp, h, at) = CHOOSE n \in 1 .. (Len(h) + 1) : First(n)
  BY DEF FirstKept
<1> HIDE DEF First
<1>8. /\ FirstKept(bp, h, at) \in 1 .. (Len(h) + 1)
      /\ First(FirstKept(bp, h, at))
  BY <1>5, <1>6, <1>7
<1> QED BY <1>8 DEF First

-----------------------------------------------------------------------------
(* The three operations of an update on the list.                          *)

\* g is h with p as its last element, linked once; the others keep their order.
MovedLast(h, p, g) ==
    /\ g \in Seq(Path)
    /\ Len(g) > 0 /\ g[Len(g)] = p
    /\ Once(g)
    /\ \A q : (\E i \in 1 .. Len(g) : g[i] = q) <=>
                  q = p \/ \E i \in 1 .. Len(h) : h[i] = q
    /\ \A i, j \in 1 .. (Len(g) - 1) : i <= j =>
          \E k, l \in 1 .. Len(h) : k <= l /\ g[i] = h[k] /\ g[j] = h[l]

\* push_back() moves an element to the end, whether it was linked before or not.
LEMMA PushBackOrder ==
    ASSUME NEW h \in Seq(Path), NEW p \in Path, Once(h)
    PROVE  MovedLast(h, p, PushBack(h, p))
<1> DEFINE g == PushBack(h, p)
<1>1. Len(h) \in Nat
  OBVIOUS
<1>2. CASE ~\E i \in 1 .. Len(h) : h[i] = p
  <2>1. g = Append(h, p)
    BY <1>2 DEF PushBack, Unlinked, Range
  <2> HIDE DEF g
  <2>2. /\ Len(g) = Len(h) + 1 /\ g[Len(h) + 1] = p /\ g \in Seq(Path)
        /\ \A i \in 1 .. Len(h) : g[i] = h[i]
    BY <2>1
  <2>3. Once(g)
    BY <1>1, <1>2, <2>2 DEF Once
  <2>4. \A q : (\E i \in 1 .. Len(g) : g[i] = q) <=>
                   q = p \/ \E i \in 1 .. Len(h) : h[i] = q
    BY <1>1, <2>2
  <2>5. \A i, j \in 1 .. (Len(g) - 1) : i <= j =>
            \E k, l \in 1 .. Len(h) : k <= l /\ g[i] = h[k] /\ g[j] = h[l]
    BY <1>1, <2>2
  <2> QED BY <1>1, <2>2, <2>3, <2>4, <2>5 DEF g, MovedLast
<1>3. CASE \E i \in 1 .. Len(h) : h[i] = p
  <2>1. PICK m \in 1 .. Len(h) : h[m] = p
    BY <1>3
  <2>2. {i \in 1 .. Len(h) : h[i] = p} = {m}
    BY <2>1 DEF Once
  <2>3. p \in Range(h) /\ (CHOOSE i \in 1 .. Len(h) : h[i] = p) = m
    BY <2>1, <2>2 DEF Range
  <2>4. g = Append(SubSeq(h, 1, m - 1) \o SubSeq(h, m + 1, Len(h)), p)
    BY <2>3, ZenonT(100) DEF PushBack, Unlinked
  <2> DEFINE f == SubSeq(h, 1, m - 1) \o SubSeq(h, m + 1, Len(h))
             Old(i) == IF i < m THEN i ELSE i + 1
  <2>5. /\ f \in Seq(Path) /\ Len(f) = Len(h) - 1
        /\ \A i \in 1 .. (Len(h) - 1) : f[i] = h[Old(i)]
    <3>1. /\ SubSeq(h, 1, m - 1) \in Seq(Path) /\ Len(SubSeq(h, 1, m - 1)) = m - 1
          /\ \A i \in 1 .. (m - 1) : SubSeq(h, 1, m - 1)[i] = h[i]
      BY <1>1, <2>1
    <3>2. /\ SubSeq(h, m + 1, Len(h)) \in Seq(Path)
          /\ Len(SubSeq(h, m + 1, Len(h))) = Len(h) - m
          /\ \A i \in 1 .. (Len(h) - m) : SubSeq(h, m + 1, Len(h))[i] = h[i + m]
      BY <1>1, <2>1
    <3> DEFINE a == SubSeq(h, 1, m - 1)
               b == SubSeq(h, m + 1, Len(h))
    <3> HIDE DEF a, b
    <3>3. /\ a \in Seq(Path) /\ b \in Seq(Path) /\ f = a \o b
          /\ Len(a) = m - 1 /\ Len(b) = Len(h) - m
      BY <3>1, <3>2 DEF a, b
    <3> HIDE DEF f
    <3>4. f \in Seq(Path) /\ Len(f) = Len(h) - 1
      BY <1>1, <2>1, <3>3
    <3>5. ASSUME NEW i \in 1 .. (Len(h) - 1) PROVE f[i] = h[Old(i)]
      <4>1. CASE i < m
        <5>1. f[i] = a[i]
          BY <1>1, <2>1, <3>3, <4>1
        <5> QED BY <2>1, <3>1, <4>1, <5>1 DEF a
      <4>2. CASE i >= m
        <5>0. i - (m - 1) \in 1 .. (Len(h) - m) /\ i \in 1 .. (Len(a) + Len(b))
          BY <1>1, <2>1, <3>3, <4>2
        <5>1. f[i] = b[i - Len(a)]
          BY <2>1, <3>3, <4>2, <5>0
        <5>2. b[i - (m - 1)] = h[i - (m - 1) + m]
          BY <3>2, <5>0 DEF b
        <5>3. i - (m - 1) + m = i + 1 /\ Old(i) = i + 1
          BY <2>1, <4>2
        <5> QED BY <3>3, <5>1, <5>2, <5>3
      <4> QED BY <1>1, <2>1, <4>1, <4>2
    <3> QED BY <3>4, <3>5
  <2>6. g = Append(f, p)
    BY <2>4
  <2> HIDE DEF f, g
  <2>7. /\ Len(g) = Len(h) /\ g[Len(h)] = p /\ g \in Seq(Path)
        /\ \A i \in 1 .. (Len(h) - 1) : g[i] = h[Old(i)]
    BY <1>1, <2>1, <2>5, <2>6
  <2>8. \A i \in 1 .. (Len(h) - 1) : Old(i) \in 1 .. Len(h) /\ Old(i) # m
    BY <1>1, <2>1
  <2>9. \A i, j \in 1 .. (Len(h) - 1) : /\ i <= j => Old(i) <= Old(j)
                                        /\ Old(i) = Old(j) => i = j
    BY <1>1, <2>1
  <2>10. \A k \in 1 .. Len(h) : k # m => \E i \in 1 .. (Len(h) - 1) : Old(i) = k
    <3> SUFFICES ASSUME NEW k \in 1 .. Len(h), k # m
                 PROVE  \E i \in 1 .. (Len(h) - 1) : Old(i) = k
      OBVIOUS
    <3>1. CASE k < m
      <4>1. k \in 1 .. (Len(h) - 1) /\ Old(k) = k
        BY <1>1, <2>1, <3>1
      <4> QED BY <4>1
    <3>2. CASE k > m
      <4>1. k - 1 \in 1 .. (Len(h) - 1) /\ Old(k - 1) = k
        BY <1>1, <2>1, <3>2
      <4> QED BY <4>1
    <3> QED BY <2>1, <3>1, <3>2
  <2> HIDE DEF Old
  <2>11. Once(g)
    <3> SUFFICES ASSUME NEW i \in 1 .. Len(g), NEW j \in 1 .. Len(g), g[i] = g[j]
                 PROVE  i = j
      BY DEF Once
    <3>1. CASE i < Len(h) /\ j < Len(h)
      BY <1>1, <2>7, <2>8, <2>9, <3>1 DEF Once
    <3>2. ASSUME NEW k \in 1 .. (Len(h) - 1) PROVE g[k] # p
      BY <2>1, <2>7, <2>8 DEF Once
    <3> QED BY <1>1, <2>7, <3>1, <3>2
  <2>12. ASSUME NEW q
         PROVE  (\E i \in 1 .. Len(g) : g[i] = q) <=>
                    q = p \/ \E i \in 1 .. Len(h) : h[i] = q
    <3>1. ASSUME NEW i \in 1 .. Len(g), g[i] = q
          PROVE  q = p \/ \E k \in 1 .. Len(h) : h[k] = q
      BY <1>1, <2>7, <2>8, <3>1
    <3>2. ASSUME NEW k \in 1 .. Len(h), h[k] = q
          PROVE  \E i \in 1 .. Len(g) : g[i] = q
      <4>1. CASE k = m
        <5>1. Len(h) \in 1 .. Len(g) /\ g[Len(h)] = q
          BY <1>1, <2>1, <2>7, <3>2, <4>1
        <5> QED BY <5>1
      <4>2. CASE k # m
        <5>1. PICK i \in 1 .. (Len(h) - 1) : Old(i) = k
          BY <2>10, <4>2
        <5>2. i \in 1 .. Len(g) /\ g[i] = q
          BY <1>1, <2>7, <3>2, <5>1
        <5> QED BY <5>2
      <4> QED BY <4>1, <4>2
    <3> QED BY <2>1, <3>1, <3>2
  <2>13. \A i, j \in 1 .. (Len(g) - 1) : i <= j =>
             \E k, l \in 1 .. Len(h) : k <= l /\ g[i] = h[k] /\ g[j] = h[l]
    BY <2>7, <2>8, <2>9
  <2> QED BY <1>1, <2>1, <2>7, <2>11, <2>12, <2>13 DEF g, MovedLast
<1> QED BY <1>2, <1>3

\* An update stamps its path with the present time and moves it to the end of
\* the list, which stays linked and in order because no stamp is in the future.
LEMMA UpdateConsistent ==
    ASSUME NEW bp, NEW h, NEW p \in Path, NEW at \in Nat, NEW new,
           Consistent(bp, h),
           \A q \in DOMAIN bp : bp[q].last_update <= at,
           DOMAIN new = DOMAIN bp \cup {p},
           \A q \in DOMAIN bp : q # p => new[q] = bp[q],
           new[p] \in Data, new[p].last_update = at
    PROVE  Consistent(new, PushBack(h, p))
<1> DEFINE g == PushBack(h, p)
<1>0. MovedLast(h, p, g)
  BY PushBackOrder DEF Consistent
<1> HIDE DEF g
<1>1. /\ g \in Seq(Path)
      /\ Len(g) > 0 /\ g[Len(g)] = p
      /\ Once(g)
      /\ \A q : (\E i \in 1 .. Len(g) : g[i] = q) <=>
                    q = p \/ \E i \in 1 .. Len(h) : h[i] = q
      /\ \A i, j \in 1 .. (Len(g) - 1) : i <= j =>
            \E k, l \in 1 .. Len(h) : k <= l /\ g[i] = h[k] /\ g[j] = h[l]
  BY <1>0 DEF MovedLast
<1>2. DOMAIN new \subseteq Path /\ \A q \in DOMAIN new : new[q] \in Data
  BY DEF Consistent
<1>3. Links(new, g)
  BY <1>1, ZenonT(100) DEF Consistent, Links
<1>4. Len(g) \in Nat
  BY <1>1
<1>5. Sorted(new, g)
  <2> SUFFICES ASSUME NEW i \in 1 .. Len(g), NEW j \in 1 .. Len(g), i <= j
               PROVE  new[g[i]].last_update <= new[g[j]].last_update
    BY DEF Sorted
  <2>1. new[g[i]] \in Data /\ new[g[i]].last_update <= at
    <3>1. g[i] \in DOMAIN new
      BY <1>3 DEF Links
    <3> QED BY <1>2, <3>1 DEF Data
  <2>2. CASE j = Len(g)
    BY <1>1, <2>1, <2>2
  <2>3. CASE j < Len(g)
    <3>1. i \in 1 .. (Len(g) - 1) /\ j \in 1 .. (Len(g) - 1)
      BY <1>4, <2>3
    <3>2. PICK k \in 1 .. Len(h), l \in 1 .. Len(h) :
              k <= l /\ g[i] = h[k] /\ g[j] = h[l]
      BY <1>0, <3>1 DEF MovedLast
    <3>3. g[i] # p /\ g[j] # p
      <4>1. Len(g) \in 1 .. Len(g) /\ i # Len(g) /\ j # Len(g)
        BY <1>4, <3>1
      <4> QED BY <1>0, <4>1 DEF MovedLast, Once
    <3>4. g[i] \in DOMAIN bp /\ g[j] \in DOMAIN bp
      BY <3>2 DEF Consistent, Links
    <3>5. bp[g[i]].last_update <= bp[g[j]].last_update
      BY <3>2 DEF Consistent, Sorted
    <3> QED BY <3>3, <3>4, <3>5
  <2> QED BY <1>4, <2>2, <2>3
<1> QED BY <1>1, <1>2, <1>3, <1>5 DEF Consistent, g

\* clear_outdated() erases from both the list and the map what it passes, and
\* because the list is in order nothing outdated is left behind.
LEMMA ClearConsistent ==
    ASSUME NEW bp, NEW h, NEW at \in Nat, Consistent(bp, h), ClearOutdated(bp, h, at)
    PROVE  /\ Consistent(by_path, history)'
           /\ DOMAIN by_path' \subseteq DOMAIN bp
           /\ \A q \in DOMAIN by_path' : by_path'[q] = bp[q]
           /\ \A q \in DOMAIN by_path' : ~Outdated(bp, q, at)
<1> DEFINE n == FirstKept(bp, h, at)
           gone == Range(SubSeq(h, 1, n - 1))
<1>1. /\ n \in 1 .. (Len(h) + 1)
      /\ \A j \in 1 .. (n - 1) : Outdated(bp, h[j], at)
      /\ n <= Len(h) => ~Outdated(bp, h[n], at)
  BY FirstKeptExists DEF Consistent
<1>2. h \in Seq(Path) /\ Len(h) \in Nat
  BY DEF Consistent
<1>3. history' = SubSeq(h, n, Len(h)) /\ by_path' = Restrict(bp, DOMAIN bp \ gone)
  BY DEF ClearOutdated
<1>4. DOMAIN by_path' = DOMAIN bp \ gone /\ \A q \in DOMAIN by_path' : by_path'[q] = bp[q]
  BY <1>3 DEF Restrict
<1> HIDE DEF n
<1>5. \A q : q \in gone <=> \E j \in 1 .. (n - 1) : h[j] = q
  <2>1. /\ DOMAIN SubSeq(h, 1, n - 1) = 1 .. (n - 1)
        /\ \A j \in 1 .. (n - 1) : SubSeq(h, 1, n - 1)[j] = h[j]
    BY <1>1, <1>2
  <2> QED BY <2>1, ZenonT(100) DEF Range
<1> HIDE DEF gone
<1>6. /\ history' \in Seq(Path) /\ Len(history') = Len(h) - n + 1
      /\ \A i \in 1 .. (Len(h) - n + 1) : history'[i] = h[i + n - 1]
  BY <1>1, <1>2, <1>3
<1>7. Once(history')
  BY <1>1, <1>2, <1>6 DEF Once, Consistent
<1>8. Links(by_path', history')
  <2> SUFFICES ASSUME NEW q
               PROVE  q \in DOMAIN by_path' <=> \E i \in 1 .. Len(history') : history'[i] = q
    BY DEF Links
  <2>1. ASSUME q \in DOMAIN by_path' PROVE \E i \in 1 .. Len(history') : history'[i] = q
    <3>1. PICK k \in 1 .. Len(h) : h[k] = q
      BY <1>4, <2>1 DEF Consistent, Links
    <3>2. ~(k \in 1 .. (n - 1))
      BY <1>4, <1>5, <2>1, <3>1
    <3>3. k - n + 1 \in 1 .. Len(history') /\ (k - n + 1) + n - 1 = k
      BY <1>1, <1>2, <1>6, <3>2
    <3>4. history'[k - n + 1] = q
      BY <1>6, <3>1, <3>3
    <3> QED BY <3>3, <3>4
  <2>2. ASSUME NEW i \in 1 .. Len(history'), history'[i] = q PROVE q \in DOMAIN by_path'
    <3>1. i + n - 1 \in 1 .. Len(h) /\ ~(i + n - 1 \in 1 .. (n - 1))
      BY <1>1, <1>2, <1>6
    <3>2. h[i + n - 1] = q
      BY <1>6, <2>2
    <3>3. q \in DOMAIN bp
      BY <3>1, <3>2 DEF Consistent, Links
    <3>4. ~\E j \in 1 .. (n - 1) : h[j] = q
      BY <1>1, <1>2, <3>1, <3>2 DEF Consistent, Once
    <3> QED BY <1>4, <1>5, <3>3, <3>4
  <2> QED BY <2>1, <2>2
<1>9. ASSUME NEW i \in 1 .. Len(history')
      PROVE  /\ history'[i] = h[i + n - 1] /\ i + n - 1 \in 1 .. Len(h)
             /\ by_path'[history'[i]] = bp[history'[i]]
  BY <1>1, <1>2, <1>4, <1>6, <1>8 DEF Links
<1>10. Sorted(by_path', history')
  <2> SUFFICES ASSUME NEW i \in 1 .. Len(history'), NEW j \in 1 .. Len(history'), i <= j
               PROVE  by_path'[history'[i]].last_update <= by_path'[history'[j]].last_update
    BY DEF Sorted
  <2>1. i + n - 1 <= j + n - 1
    BY <1>1
  <2> QED BY <1>9, <2>1 DEF Consistent, Sorted
<1>11. ASSUME NEW q \in DOMAIN by_path' PROVE ~Outdated(bp, q, at)
  <2>1. PICK i \in 1 .. Len(history') : history'[i] = q
    BY <1>8 DEF Links
  <2>2. h[i + n - 1] = q /\ i + n - 1 \in 1 .. Len(h) /\ n \in 1 .. Len(h) /\ n <= i + n - 1
    BY <1>1, <1>2, <1>6, <1>9, <2>1
  <2>3. bp[h[n]].last_update <= bp[q].last_update
    BY <2>2 DEF Consistent, Sorted
  <2>4. bp[q] \in Data /\ bp[h[n]] \in Data
    BY <2>2 DEF Consistent, Links
  <2>5. ~(at - bp[h[n]].last_update > HistoryDuration)
    BY <1>1, <2>2 DEF Outdated
  <2>6. bp[q].last_update \in Nat /\ bp[h[n]].last_update \in Nat
    BY <2>4 DEF Data
  <2> QED BY <2>3, <2>5, <2>6, RtoAssumption DEF Outdated
<1> QED BY <1>4, <1>6, <1>7, <1>8, <1>10, <1>11 DEF Consistent

-----------------------------------------------------------------------------
(* The inductive invariant.  Sortedness needs that no update lies in the   *)
(* future, and RtoPositive that a smoothed round trip stays above zero.    *)

Positive(d) == /\ d.srtt # None => d.srtt > 0
               /\ d.backoff # None => d.backoff > 0

HistoryInv ==
    /\ now \in Nat
    /\ Consistent(by_path, history)
    /\ \A p \in DOMAIN by_path : by_path[p].last_update <= now
    /\ 0 \notin Rtt => \A p \in DOMAIN by_path : Positive(by_path[p])

\* Smoothing yields durations, and a positive average of positive round trips:
\* 7 * srtt + rtt is at least 8.
LEMMA SmoothFacts ==
    ASSUME NEW d \in Data, NEW rtt \in Nat
    PROVE  /\ Smooth(d, rtt) \in [srtt : Nat, rttvar : Nat]
           /\ rtt > 0 /\ (d.srtt # None => d.srtt > 0) => Smooth(d, rtt).srtt > 0
<1>1. CASE d.srtt = None
  BY <1>1 DEF Smooth
<1>2. CASE d.srtt # None
  <2>1. d.srtt \in Nat /\ d.rttvar \in Nat
    BY <1>2 DEF Data
  <2>2. Abs(d.srtt - rtt) \in Nat
    BY <2>1 DEF Abs
  <2>3. /\ (7 * d.srtt + rtt) \div 8 \in Nat
        /\ (3 * d.rttvar + Abs(d.srtt - rtt)) \div 4 \in Nat
        /\ d.srtt > 0 /\ rtt > 0 => (7 * d.srtt + rtt) \div 8 > 0
    BY <2>1, <2>2
  <2> QED BY <1>2, <2>1, <2>3 DEF Smooth
<1> QED BY <1>1, <1>2

\* What a call that stamps path p with data d and clears the list leaves.
LEMMA UpdateStep ==
    ASSUME HistoryInv, NEW p \in Path, NEW new,
           DOMAIN new = DOMAIN by_path \cup {p},
           \A q \in DOMAIN by_path : q # p => new[q] = by_path[q],
           new[p] \in Data, new[p].last_update = now,
           0 \notin Rtt => Positive(new[p]),
           ClearOutdated(new, PushBack(history, p), now), now' = now
    PROVE  /\ HistoryInv'
           /\ \A q \in DOMAIN by_path' : ~Outdated(by_path', q, now)
<1>1. Consistent(new, PushBack(history, p))
  BY UpdateConsistent, ZenonT(100) DEF HistoryInv
<1>2. /\ Consistent(by_path, history)'
      /\ DOMAIN by_path' \subseteq DOMAIN new
      /\ \A q \in DOMAIN by_path' : by_path'[q] = new[q]
      /\ \A q \in DOMAIN by_path' : ~Outdated(new, q, now)
  BY <1>1, ClearConsistent DEF HistoryInv
<1>3. \A q \in DOMAIN new : new[q].last_update <= now
  BY DEF HistoryInv
<1>4. 0 \notin Rtt => \A q \in DOMAIN new : Positive(new[q])
  BY DEF HistoryInv
<1>5. HistoryInv'
  BY <1>2, <1>3, <1>4 DEF HistoryInv
<1>6. \A q \in DOMAIN by_path' : ~Outdated(by_path', q, now)
  BY <1>2 DEF Outdated
<1> QED BY <1>5, <1>6

\* new_rtt() keeps the invariant and leaves no outdated path.
LEMMA NewRttStep ==
    ASSUME HistoryInv, NEW p \in Path, NEW rtt \in Rtt, NewRtt(now, p, rtt), now' = now
    PROVE  /\ HistoryInv'
           /\ \A q \in DOMAIN by_path' : ~Outdated(by_path', q, now)
<1> DEFINE old == IF p \in DOMAIN by_path THEN by_path[p] ELSE NewData(now)
           smooth == Smooth(old, rtt)
           data == [last_update |-> now, srtt |-> smooth.srtt,
                    rttvar |-> smooth.rttvar, backoff |-> None]
           new == Assign(by_path, p, data)
<1>0. rtt \in Nat
  BY HistoryAssumption
<1>1. old \in Data /\ (0 \notin Rtt => Positive(old))
  BY DEF HistoryInv, Consistent, NewData, Data, Positive
<1> HIDE DEF old
<1>2. /\ smooth \in [srtt : Nat, rttvar : Nat]
      /\ rtt > 0 /\ (old.srtt # None => old.srtt > 0) => smooth.srtt > 0
  BY <1>0, <1>1, SmoothFacts
<1>3. 0 \notin Rtt => smooth.srtt > 0
  BY <1>0, <1>1, <1>2 DEF Positive
<1> HIDE DEF smooth
<1>4. data \in Data /\ data.last_update = now /\ (0 \notin Rtt => Positive(data))
  BY <1>2, <1>3 DEF HistoryInv, Data, Positive
<1>5. ClearOutdated(new, PushBack(history, p), now)
  BY DEF NewRtt, smooth, old
<1> HIDE DEF data
<1>6. /\ DOMAIN new = DOMAIN by_path \cup {p} /\ new[p] = data
      /\ \A q \in DOMAIN by_path : q # p => new[q] = by_path[q]
  BY DEF Assign
<1> HIDE DEF new
<1> QED BY <1>4, <1>5, <1>6, UpdateStep

\* The branch of backoff() for a new path clears nothing, and changes the data
\* of no other path.
LEMMA BackoffStep ==
    ASSUME HistoryInv, NEW p \in Path, NEW t \in Timeout, Backoff(now, p, t), now' = now
    PROVE  /\ HistoryInv'
           /\ \/ \A q \in DOMAIN by_path : by_path'[q] = by_path[q]
              \/ \A q \in DOMAIN by_path' : ~Outdated(by_path', q, now)
<1>0. t \in Nat /\ t > 0
  BY HistoryAssumption
<1>1. CASE p \notin DOMAIN by_path
  <2> DEFINE d == [NewData(now) EXCEPT !.backoff = t]
  <2>1. by_path' = Assign(by_path, p, d) /\ history' = Append(history, p)
    BY <1>1 DEF Backoff
  <2>2. d \in Data /\ d.last_update = now /\ Positive(d)
    BY <1>0 DEF HistoryInv, NewData, Data, Positive
  <2> HIDE DEF d
  <2>3. /\ DOMAIN by_path' = DOMAIN by_path \cup {p} /\ by_path'[p] = d
        /\ \A q \in DOMAIN by_path : by_path'[q] = by_path[q]
    BY <1>1, <2>1 DEF Assign
  <2>4. history' = PushBack(history, p)
    BY <1>1, <2>1 DEF PushBack, Unlinked, Range, HistoryInv, Consistent, Links
  <2>5. Consistent(by_path', history')
    BY <2>2, <2>3, <2>4, UpdateConsistent, ZenonT(100) DEF HistoryInv
  <2>6. \A q \in DOMAIN by_path' : by_path'[q].last_update <= now
    BY <2>2, <2>3 DEF HistoryInv
  <2>7. 0 \notin Rtt => \A q \in DOMAIN by_path' : Positive(by_path'[q])
    BY <2>2, <2>3 DEF HistoryInv
  <2>8. HistoryInv'
    BY <2>5, <2>6, <2>7 DEF HistoryInv
  <2> QED BY <2>3, <2>8
<1>2. CASE p \in DOMAIN by_path
  <2> DEFINE new == [by_path EXCEPT ![p].last_update = now, ![p].backoff = t]
             d == [by_path[p] EXCEPT !.last_update = now, !.backoff = t]
  <2>1. ClearOutdated(new, PushBack(history, p), now)
    BY <1>2 DEF Backoff
  <2>2. by_path[p] \in Data /\ (0 \notin Rtt => Positive(by_path[p]))
    BY <1>2 DEF HistoryInv, Consistent
  <2>3. d \in Data /\ d.last_update = now /\ (0 \notin Rtt => Positive(d))
    BY <1>0, <2>2, ZenonT(100) DEF HistoryInv, Data, Positive
  <2>4. /\ DOMAIN new = DOMAIN by_path \cup {p} /\ new[p] = d
        /\ \A q \in DOMAIN by_path : q # p => new[q] = by_path[q]
    BY <1>2
  <2> HIDE DEF new, d
  <2> QED BY <2>1, <2>3, <2>4, UpdateStep
<1> QED BY <1>1, <1>2

\* The invariant holds of an empty calculator ...
LEMMA InitHistory == HistoryInit => HistoryInv
<1> SUFFICES ASSUME HistoryInit PROVE HistoryInv
  OBVIOUS
<1>1. now = 0 /\ DOMAIN by_path = {} /\ history = <<>> /\ Len(history) = 0
  BY DEF HistoryInit, RtoInit
<1>2. history \in Seq(Path)
  BY <1>1
<1> QED BY <1>1, <1>2 DEF HistoryInv, Consistent, Once, Links, Sorted

\* ... every step keeps it ...
LEMMA NextHistory == HistoryInv /\ [HistoryNext]_historyVars => HistoryInv'
<1> SUFFICES ASSUME HistoryInv, [HistoryNext]_historyVars PROVE HistoryInv'
  OBVIOUS
<1>1. ASSUME NEW p \in Path, NEW rtt \in Rtt, NewRtt(now, p, rtt), UNCHANGED now
      PROVE  HistoryInv'
  BY <1>1, NewRttStep
<1>2. ASSUME NEW p \in Path, NEW t \in Timeout, Backoff(now, p, t), UNCHANGED now
      PROVE  HistoryInv'
  BY <1>2, BackoffStep
<1>3. CASE now' = now + 1 /\ UNCHANGED rtoVars
  <2>1. by_path' = by_path /\ history' = history
    BY <1>3 DEF rtoVars
  <2>2. \A p \in DOMAIN by_path : by_path[p].last_update \in Nat
    BY DEF HistoryInv, Consistent, Data
  <2> QED BY <1>3, <2>1, <2>2 DEF HistoryInv
<1>4. CASE UNCHANGED historyVars
  BY <1>4 DEF historyVars, rtoVars, HistoryInv
<1> QED BY <1>1, <1>2, <1>3, <1>4 DEF HistoryNext

\* ... so it always holds.
LEMMA AlwaysHistory == HistorySpec => []HistoryInv
BY InitHistory, NextHistory, PTL DEF HistorySpec

-----------------------------------------------------------------------------
INSTANCE FiniteSetTheorems

\* m_timeline links every path of m_by_path exactly once and nothing else,
\* through any sequence of new_rtt() and backoff() calls and the
\* clear_outdated() inside them.
THEOREM HistoryComplete == HistorySpec => []HistoryLinked
<1>1. HistoryInv => HistoryLinked
  <2> SUFFICES ASSUME HistoryInv PROVE HistoryLinked
    OBVIOUS
  <2>1. history \in Seq(Path) /\ Len(history) \in Nat /\ DOMAIN history = 1 .. Len(history)
    BY DEF HistoryInv, Consistent
  <2>2. Range(history) = DOMAIN by_path
    BY <2>1, ZenonT(100) DEF HistoryInv, Consistent, Links, Range
  <2>3. history \in Bijection(1 .. Len(history), DOMAIN by_path)
    <3>1. history \in [1 .. Len(history) -> DOMAIN by_path]
      BY <2>1 DEF HistoryInv, Consistent, Links
    <3> QED BY <3>1 DEF HistoryInv, Consistent, Links, Once,
                        Bijection, Injection, Surjection, IsInjective
  <2>4. ExistsBijection(1 .. Len(history), DOMAIN by_path)
    BY <2>3 DEF ExistsBijection
  <2>5. Cardinality(DOMAIN by_path) = Len(history)
    BY <2>1, <2>4, FS_CountingElements
  <2> QED BY <2>2, <2>5 DEF HistoryLinked
<1> QED BY <1>1, AlwaysHistory, PTL

\* m_timeline is in the order of last_update, which clear_outdated() relies on.
THEOREM HistoryOrdered == HistorySpec => []HistorySorted
<1>1. HistoryInv => HistorySorted
  BY DEF HistoryInv, Consistent, Sorted, HistorySorted
<1> QED BY <1>1, AlwaysHistory, PTL

\* rto() is above zero when every measured round trip is, although new_rtt()
\* divides without rounding.
THEOREM RtoStaysPositive == HistorySpec => []RtoPositive
<1>1. HistoryInv => RtoPositive
  <2> SUFFICES ASSUME HistoryInv, 0 \notin Rtt, NEW p \in Path PROVE Rto(p) > 0
    BY DEF RtoPositive
  <2>1. CASE p \notin DOMAIN by_path
    BY <2>1, RtoAssumption DEF Rto
  <2>2. CASE p \in DOMAIN by_path
    <3>1. by_path[p] \in Data /\ Positive(by_path[p])
      BY <2>2 DEF HistoryInv, Consistent
    <3> QED BY <2>2, <3>1, RtoAssumption DEF Rto, Data, Positive
  <2> QED BY <2>1, <2>2
<1> QED BY <1>1, AlwaysHistory, PTL

\* An update of a path that has a history leaves no outdated path in m_by_path:
\* only backoff() of a new path returns before clear_outdated().
THEOREM UpdatesClear == HistorySpec => KnownUpdateClears
<1> DEFINE Clears == \A p \in DOMAIN by_path :
                        p \in DOMAIN by_path' /\ by_path'[p] # by_path[p] =>
                            \A q \in DOMAIN by_path' : ~Outdated(by_path', q, now)
<1>1. ASSUME HistoryInv, HistoryNext PROVE Clears
  <2>1. ASSUME NEW p \in Path, NEW rtt \in Rtt, NewRtt(now, p, rtt), UNCHANGED now
        PROVE  Clears
    BY <1>1, <2>1, NewRttStep
  <2>2. ASSUME NEW p \in Path, NEW t \in Timeout, Backoff(now, p, t), UNCHANGED now
        PROVE  Clears
    BY <1>1, <2>2, BackoffStep
  <2>3. CASE UNCHANGED rtoVars
    BY <2>3 DEF rtoVars
  <2> QED BY <1>1, <2>1, <2>2, <2>3 DEF HistoryNext
<1>2. HistoryInv /\ [HistoryNext]_historyVars => [Clears]_historyVars
  BY <1>1
<1> QED BY <1>2, AlwaysHistory, PTL DEF HistorySpec, KnownUpdateClears

=============================================================================
