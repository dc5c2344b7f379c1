---------------------------- MODULE StunMessage ----------------------------
(***************************************************************************)
(* A STUN message on its way: composed with AttributeSet::emplace, built   *)
(* (AttributeSet::build), carried by a network that may change it, parsed  *)
(* (Message::parse) and checked against a password (Message::is_valid).    *)
(*                                                                         *)
(* A datagram is [mtype, length, words, attrs, size]: the message type and *)
(* length fields, the four words after them (cookie and transaction        *)
(* identifier), the attributes as the walk over their lengths meets them   *)
(* (see StunAttribute), and the bytes that really arrived.  Any datagram   *)
(* has this form: only the last attribute can claim more than there is.    *)
(***************************************************************************)
EXTENDS StunAttribute, SequencesExt

CONSTANTS Headers,       \* headers to build: [cls, method, tid]
          KnownAttrs,    \* attributes to emplace: [type, attr]
          UnknownAttrs,  \* unknown attributes to emplace: [type, len, val]
          Passwords,     \* passwords a message may be signed with
          Foreign,       \* attributes the network may put into a datagram
          \* bounds of the model
          MaxAttrs,      \* attributes emplaced
          MaxEdits       \* changes made by the network

VARIABLES header,        \* the header of the message to be built
          m_map,         \* AttributeSet::m_map: type -> attribute
          m_unknown,     \* AttributeSet::m_unknown
          key,           \* the password it was signed with, or NoKey
          wire,          \* the datagram, or <<>> before it is built
          edits,         \* number of changes the network made
          parsed         \* the result of Message::parse, or <<>>

vars == <<header, m_map, m_unknown, key, wire, edits, parsed>>

NoKey == "none"

HeaderSize == 20

-----------------------------------------------------------------------------
\* AttributeSet

\* The accessors: whether the set has an attribute of this type.
Has(map, type) == type \in DOMAIN map

\* emplace(Attribute&&): an attribute of a type that is already there is dropped.
Emplaced(map, type, attr) ==
    [t \in DOMAIN map \cup {type} |-> IF t \in DOMAIN map THEN map[t] ELSE attr]

\* RawAttr::aligned_length
AlignedLength(len) == (len \div 4 + (IF len % 4 = 0 THEN 0 ELSE 1)) * 4 + 4

\* Where the i-th attribute ends (0: where the first one begins).
Ends(attrs) ==
    LET end[i \in 0 .. Len(attrs)] ==
            IF i = 0 THEN HeaderSize ELSE end[i - 1] + AlignedLength(attrs[i].len)
    IN  end

\* The bytes add_attr() appends: header, value and padding.
AddedLength(len) == 4 + len + (IF len % 4 # 0 THEN 4 - (len % 4) ELSE 0)

SizeOf(attrs) == FoldLeft(LAMBDA n, a : n + AddedLength(a.len), HeaderSize, attrs)

\* What a digest or a checksum is computed from: a header with this length and
\* the first n attributes.
Input(w, length, n) == [mtype |-> w.mtype, length |-> length, words |-> w.words,
                        attrs |-> SubSeq(w.attrs, 1, n)]

\* crypto::hmac::digest and crc32 (details/stun_fingerprint.cpp).
Digest(k, input) == [key |-> k, of |-> input]

Crc32(input) == [of |-> input, xored |-> FALSE]

-----------------------------------------------------------------------------
\* AttributeSet::build

\* Header::build: a 12-byte identifier follows the cookie, a 16-byte one does not.
HeaderWords(tid) == IF Len(tid) = 3 THEN <<MagicCookie>> \o tid ELSE tid

\* Mutant of NumAttrs: no room for MESSAGE-INTEGRITY.
NumAttrsUnsigned(k) == Cardinality(DOMAIN m_map) + Len(m_unknown)

\* The size of attr_headers, which add_attr() fills without looking.
NumAttrs(k) ==
    Cardinality(DOMAIN m_map) + Len(m_unknown) + (IF k = NoKey THEN 0 ELSE 1)

\* The datagram of these attributes.
Laid(h, attrs) ==
    [mtype |-> ClassToMsgType(h.cls) + MethodToMsgType(h.method),
     length |-> SizeOf(attrs) - HeaderSize, words |-> HeaderWords(h.tid),
     attrs |-> attrs, size |-> SizeOf(attrs)]

\* Mutant of AddIntegrity: the digest covers the length without itself.
AddIntegrityShort(h, attrs, k) ==
    LET w == Laid(h, attrs)
    IN  Append(attrs, [type |-> MESSAGE_INTEGRITY, len |-> 20,
                       val |-> Digest(k, Input(w, w.length, Len(attrs)))])

\* add_integrity: under a header that counts the attribute itself.
AddIntegrity(h, attrs, k) ==
    LET w == Laid(h, attrs)
    IN  Append(attrs, [type |-> MESSAGE_INTEGRITY, len |-> 20,
                       val |-> Digest(k, Input(w, w.length + 24, Len(attrs)))])

\* add_fingerprint
AddFingerprint(h, attrs) ==
    LET w == Laid(h, attrs)
    IN  Append(attrs, [type |-> FINGERPRINT, len |-> 4,
            val |-> FingerprintXor(Crc32(Input(w, w.length + 8, Len(attrs))))])

\* The known attributes in the order the unordered map happens to give them,
\* MESSAGE-INTEGRITY and FINGERPRINT left out, then the unknown ones.
Body(order) ==
    [i \in 1 .. Len(order) |->
        LET b == BuildValue(order[i], m_map[order[i]])
        IN  [type |-> order[i], len |-> b.len, val |-> b.val]] \o m_unknown

Built(order, k) ==
    LET signed == IF k = NoKey THEN Body(order)
                               ELSE AddIntegrity(header, Body(order), k)
    IN  Laid(header, IF Has(m_map, FINGERPRINT) THEN AddFingerprint(header, signed)
                                                ELSE signed)

-----------------------------------------------------------------------------
\* Message::parse: the message, or the error as the ParseStat counter it has.

ParseError(counter) == [error |-> counter]

\* Mutant of Kept: whatever follows MESSAGE-INTEGRITY counts as well.
KeptAll(attrs, i) == TRUE

\* Attributes that follow MESSAGE-INTEGRITY are ignored, except FINGERPRINT
\* and MESSAGE-INTEGRITY itself.
Kept(attrs, i) ==
    \/ attrs[i].type \in {FINGERPRINT, MESSAGE_INTEGRITY}
    \/ \A j \in 1 .. i - 1 : attrs[j].type # MESSAGE_INTEGRITY

\* The loop of parse_attrs: the attributes that begin within the datagram, and
\* the first one where the loop gives up, or 0.
Reached(w) == {i \in DOMAIN w.attrs : Ends(w.attrs)[i - 1] < w.size}

Overruns(w, i) == Ends(w.attrs)[i - 1] + 4 + w.attrs[i].len > w.size

NotLast(w, i) == w.attrs[i].type = FINGERPRINT /\ Ends(w.attrs)[i] < w.size

GivesUp(w) ==
    LET bad == {i \in Reached(w) : Overruns(w, i) \/ NotLast(w, i)}
    IN  IF bad = {} THEN 0 ELSE Min(bad)

\* Mutant of FingerprintValid: the checksum is read and not compared.
FingerprintIgnored(w, i) == TRUE

FingerprintValid(w, i) ==
    ParseValue(w.attrs[i]).attr = Crc32(Input(w, w.length, i - 1))

\* The attributes of w at the increasing indices idx, parsed and emplaced.
Message(w, rfc3489, idx) ==
    LET raw   == [n \in DOMAIN idx |-> w.attrs[idx[n]]]
        known == {raw[n].type : n \in DOMAIN raw} \cap KnownTypes
        first(t) == SelectInSeq(raw, LAMBDA a : a.type = t)
        mis   == {i \in ToSet(idx) : w.attrs[i].type = MESSAGE_INTEGRITY}
    IN  [error   |-> "",
         header  |-> [cls    |-> ClassFromMsgType(w.mtype),
                      method |-> MethodFromMsgType(w.mtype),
                      tid    |-> IF rfc3489 THEN w.words ELSE Tail(w.words)],
         map     |-> [t \in known |-> ParseValue(raw[first(t)]).attr],
         unknown |-> SelectSeq(raw, LAMBDA a : a.type \notin KnownTypes),
         rfc3489 |-> rfc3489,
         \* integrity_interval: the attributes before the last MESSAGE-INTEGRITY
         before_integrity |-> IF mis = {} THEN -1 ELSE Max(mis) - 1]

ParseAttrs(w, rfc3489) ==
    LET giveup == GivesUp(w)
        idx    == SetToSortSeq({i \in Reached(w) : Kept(w.attrs, i)}, <)
        failed == SelectInSeq(idx, LAMBDA i : ParseValue(w.attrs[i]).error # "")
        fps    == {i \in ToSet(idx) : w.attrs[i].type = FINGERPRINT}
    IN  IF giveup # 0
        THEN ParseError(IF Overruns(w, giveup) THEN "invalid_attr_size"
                                               ELSE "fingerprint_not_last")
        ELSE IF failed # 0 THEN ParseError(ParseValue(w.attrs[idx[failed]]).error)
        ELSE IF \E i \in fps : ~FingerprintValid(w, i)
             THEN ParseError("invalid_fingerprint")
             ELSE Message(w, rfc3489, idx)

\* Message::parse
ParseMessage(w) ==
    LET cookie  == w.words[1] = MagicCookie
        request == ClassFromMsgType(w.mtype) = 0
    IN  IF w.size < HeaderSize THEN ParseError("invalid_size")
        ELSE IF w.length % 4 # 0 THEN ParseError("not_padded")
        ELSE IF w.length # w.size - HeaderSize
             THEN ParseError("message_length_error")
        ELSE IF ~cookie /\ ~request THEN ParseError("magic_cookie_error")
        ELSE ParseAttrs(w, ~cookie)

\* Message::is_valid: "none" when there is nothing to check.
IsValid(m, w, k) ==
    IF m.before_integrity = -1 \/ ~Has(m.map, MESSAGE_INTEGRITY) THEN "none"
    ELSE LET n      == m.before_integrity
             length == Ends(w.attrs)[n] + 4 + 20 - HeaderSize
         IN  IF m.map[MESSAGE_INTEGRITY] = Digest(k, Input(w, length, n))
             THEN "valid" ELSE "invalid"

-----------------------------------------------------------------------------
Init ==
    /\ header \in Headers
    /\ m_map = <<>>
    /\ m_unknown = <<>>
    /\ key = NoKey
    /\ wire = <<>>
    /\ edits = 0
    /\ parsed = <<>>

\* Attribute::create; an XOR-MAPPED-ADDRESS is made from the address and the
\* identifier of the message (XoredAddress::from_address).
Created(a) ==
    IF a.type = XOR_MAPPED_ADDRESS
    THEN [a.attr EXCEPT !.addr = FromAddress(@, header.tid)]
    ELSE a.attr

Composing == wire = <<>> /\ Cardinality(DOMAIN m_map) + Len(m_unknown) < MaxAttrs

Emplace(a) ==
    /\ Composing
    /\ m_map' = Emplaced(m_map, a.type, Created(a))
    /\ UNCHANGED <<header, m_unknown, key, wire, edits, parsed>>

EmplaceUnknown(u) ==
    /\ Composing
    /\ m_unknown' = Append(m_unknown, u)
    /\ UNCHANGED <<header, m_map, key, wire, edits, parsed>>

Build(k) ==
    /\ wire = <<>>
    /\ \E order \in SetToSeqs(DOMAIN m_map \ {MESSAGE_INTEGRITY, FINGERPRINT}) :
          wire' = Built(order, k)
    /\ key' = k
    /\ UNCHANGED <<header, m_map, m_unknown, edits, parsed>>

\* The network: the datagram arrives as built, or changed.
InTransit == wire # <<>> /\ parsed = <<>> /\ edits < MaxEdits

Edited(w) == /\ w # wire
             /\ wire' = w
             /\ edits' = edits + 1
             /\ UNCHANGED <<header, m_map, m_unknown, key, parsed>>

\* Other attributes, with the lengths put right.
ChangeAttrs ==
    /\ InTransit
    /\ \E attrs \in
            {RemoveAt(wire.attrs, i) : i \in DOMAIN wire.attrs}
            \cup {InsertAt(wire.attrs, i, f) :
                    i \in 1 .. Len(wire.attrs) + 1, f \in Foreign}
       : Edited([wire EXCEPT !.attrs = attrs, !.size = SizeOf(attrs),
                             !.length = SizeOf(attrs) - HeaderSize])

\* Another class, cookie or transaction identifier.
ChangeHeader ==
    /\ InTransit
    /\ \/ \E i \in 1 .. 4 : Edited([wire EXCEPT !.words[i] = 1 - @])
       \/ \E c \in 0 .. 3 : Edited([wire EXCEPT !.mtype = ClassToMsgType(c)
                                        + MethodToMsgType(MethodFromMsgType(@))])

\* The end is cut off, with or without the length put right.
Cut ==
    /\ InTransit
    /\ \E n \in {wire.size - 4, wire.size - 1, HeaderSize - 1} :
          \/ Edited([wire EXCEPT !.size = n])
          \/ n >= HeaderSize /\ Edited([wire EXCEPT !.size = n,
                                                    !.length = n - HeaderSize])

Parse ==
    /\ wire # <<>>
    /\ parsed = <<>>
    /\ parsed' = ParseMessage(wire)
    /\ UNCHANGED <<header, m_map, m_unknown, key, wire, edits>>

Next ==
    \/ \E a \in KnownAttrs : Emplace(a)
    \/ \E u \in UnknownAttrs : EmplaceUnknown(u)
    \/ \E k \in Passwords \cup {NoKey} : Build(k)
    \/ ChangeAttrs
    \/ ChangeHeader
    \/ Cut
    \/ Parse

Spec == Init /\ [][Next]_vars

-----------------------------------------------------------------------------
(* Properties.                                                             *)

Computed == {MESSAGE_INTEGRITY, FINGERPRINT}

\* operator== of the attributes: an error code is compared without its phrase.
SameAttr(type, a, b) == IF type = ERROR_CODE THEN a.code = b.code ELSE a = b

\* to_address() of the parsed attribute and header gives the address that the
\* attribute was made from.
SameMapped ==
    \A a \in KnownAttrs :
        a.type = XOR_MAPPED_ADDRESS /\ m_map[XOR_MAPPED_ADDRESS] = Created(a) =>
            ToAddress(parsed.map[XOR_MAPPED_ADDRESS].addr, parsed.header.tid)
                = a.attr.addr

\* The parsed message is the one that was composed, apart from the two
\* attributes build() computes itself.
SameMessage ==
    /\ parsed.header = header
    /\ DOMAIN parsed.map \ Computed = DOMAIN m_map \ Computed
    /\ \A t \in DOMAIN m_map \ Computed : SameAttr(t, parsed.map[t], m_map[t])
    /\ Has(m_map, XOR_MAPPED_ADDRESS) => SameMapped
    /\ parsed.unknown = m_unknown

\* Messages build() can express: a 16-byte identifier only in a request, where
\* it does not begin with the cookie, and no plain address (see MappedFamily).
Expressible ==
    /\ Len(header.tid) = 4 => header.cls = 0 /\ header.tid[1] # MagicCookie
    /\ ~Has(m_map, MAPPED_ADDRESS) /\ ~Has(m_map, ALTERNATE_SERVER)

Arrived == parsed # <<>> /\ edits = 0

\* What build() writes parse() reads back, whatever order the map yields the
\* attributes in and however long they are: the lengths, the padding and the
\* two computed attributes agree on both sides, and the address in an
\* XOR-MAPPED-ADDRESS is the one it was made from.
RoundTrip ==
    Arrived /\ Expressible =>
        /\ parsed.error = ""
        /\ SameMessage
        /\ parsed.rfc3489 = (Len(header.tid) = 4)
        /\ Has(parsed.map, FINGERPRINT) = Has(m_map, FINGERPRINT)

\* A message signed with a password is valid under it and under no other, with
\* or without a FINGERPRINT behind the digest; one that was not signed has
\* nothing to check, even when its set held a MESSAGE-INTEGRITY.
IntegrityRecognised ==
    Arrived /\ Expressible =>
        \A k \in Passwords :
            IsValid(parsed, wire, k) = IF key = NoKey THEN "none"
                                       ELSE IF k = key THEN "valid" ELSE "invalid"

\* However the datagram was changed under way, a message that is valid under a
\* password has exactly the header and the attributes that were signed with
\* it: none is lost, changed or, behind the digest or before it, added.
OnlySignedContent ==
    parsed # <<>> /\ parsed.error = "" =>
        \A k \in Passwords :
            IsValid(parsed, wire, k) = "valid" => k = key /\ SameMessage

\* A message that carries a FINGERPRINT is accepted only as it was built.
FingerprintGuards ==
    parsed # <<>> /\ parsed.error = "" /\ Has(parsed.map, FINGERPRINT) =>
        edits = 0

\* add_attr() never writes past the headers that build() set aside.
SlotsSuffice == wire # <<>> /\ edits = 0 => Len(wire.attrs) <= NumAttrs(key)

-----------------------------------------------------------------------------
\* What the documentation says and the code does not do.  stun_attribute.cpp on
\* MAPPED-ADDRESS: the byte before the port is the "Family".
MappedFamily ==
    wire # <<>> /\ edits = 0 =>
        \A i \in DOMAIN wire.attrs :
            wire.attrs[i].type = MAPPED_ADDRESS =>
                FamilyFromUint8(wire.attrs[i].val.family)
                    = m_map[MAPPED_ADDRESS].addr.family
=============================================================================
