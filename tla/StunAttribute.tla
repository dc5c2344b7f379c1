--------------------------- MODULE StunAttribute ---------------------------
(***************************************************************************)
(* The STUN attributes and their encoding: stun_attribute.cpp,             *)
(* stun_address.cpp, stun_class.hpp and stun_method.hpp.                   *)
(*                                                                         *)
(* An attribute on the wire is a record [type, len, val]: the two fields   *)
(* of its header and what the len bytes of its value hold.  Exclusive or   *)
(* acts on every bit alike, so a 32-bit word of an address, of the cookie  *)
(* or of a transaction identifier, and a port, is one bit.  A text is the  *)
(* sequence of its bytes.  A digest or a checksum is the term of what it   *)
(* was computed from: two of them are equal when their inputs are.         *)
(***************************************************************************)
EXTENDS Integers, Sequences

\* details/stun_attr_registry.hpp
MAPPED_ADDRESS     == 1
USERNAME           == 6
MESSAGE_INTEGRITY  == 8
ERROR_CODE         == 9
UNKNOWN_ATTRIBUTES == 10
XOR_MAPPED_ADDRESS == 32
PRIORITY           == 36
USE_CANDIDATE      == 37
SOFTWARE           == 32802
ALTERNATE_SERVER   == 32803
FINGERPRINT        == 32808
ICE_CONTROLLED     == 32809
ICE_CONTROLLING    == 32810

\* The types Attribute::parse() has a case for.
KnownTypes == {MAPPED_ADDRESS, USERNAME, MESSAGE_INTEGRITY, ERROR_CODE,
               UNKNOWN_ATTRIBUTES, XOR_MAPPED_ADDRESS, PRIORITY, USE_CANDIDATE,
               SOFTWARE, ALTERNATE_SERVER, FINGERPRINT, ICE_CONTROLLED,
               ICE_CONTROLLING}

-----------------------------------------------------------------------------
\* The message type: two bits of the class, at 4 and 8, among those of the
\* method.  REQUEST, INDICATION, SUCCESS_RESPONSE and ERROR_RESPONSE are 0 .. 3.

ClassFromMsgType(v) == ((v \div 16) % 2) + 2 * ((v \div 256) % 2)

ClassToMsgType(c) == (c % 2) * 16 + (c \div 2) * 256

MethodFromMsgType(v) ==
    (v % 16) + ((v \div 32) % 8) * 16 + (v \div 512) * 128

MethodToMsgType(m) ==
    (m % 16) + ((m \div 16) % 8) * 32 + (m \div 128) * 512

-----------------------------------------------------------------------------
\* Addresses: [family, words] with one word for IPv4 and four for IPv6.

Word == {0, 1}

Xor(a, b) == (a + b) % 2

MagicCookie == 1

FamilySize == [IPv4 |-> 4, IPv6 |-> 16]

\* Family::from_uint8, or "" for the error; and to_uint8.
FamilyFromUint8(v) == CASE v = 1 -> "IPv4" [] v = 2 -> "IPv6" [] OTHER -> ""

FamilyToUint8(f) == IF f = "IPv4" THEN 1 ELSE 2

\* XoredAddress::from_address: the first word with the cookie, the others of an
\* IPv6 address with the transaction identifier, as far as it reaches.
FromAddress(addr, tid) ==
    [addr EXCEPT !.words = [i \in DOMAIN @ |->
        IF i = 1 THEN Xor(@[1], MagicCookie)
        ELSE IF i - 1 <= Len(tid) THEN Xor(@[i], tid[i - 1]) ELSE @[i]]]

\* Mutant of ToAddress: the rest of an IPv6 address stays combined.
ToAddressCookieOnly(xored, tid) ==
    [xored EXCEPT !.words[1] = Xor(@, MagicCookie)]

\* XoredAddress::to_address, which reads it back with the identifier of the
\* message it came in.
ToAddress(xored, tid) ==
    LET mask == <<MagicCookie>> \o tid
    IN  [xored EXCEPT !.words = [i \in DOMAIN @ |->
            IF i <= Len(mask) THEN Xor(@[i], mask[i]) ELSE @[i]]]

-----------------------------------------------------------------------------
\* The value an attribute of the set has on the wire: [len, val].

\* MappedAddressAttribute::build.  The first word is port | (family >> 16): an
\* eight-bit family shifted right is 0, and the family byte of the word stays 0.
MappedBuild(a) ==
    [len |-> 4 + FamilySize[a.addr.family],
     val |-> [family |-> FamilyToUint8(a.addr.family) \div 2^16,
              port |-> a.port, words |-> a.addr.words]]

AlternateServerBuild(a) == MappedBuild(a)

XorMappedBuild(a) ==
    [len |-> 4 + FamilySize[a.addr.family],
     val |-> [family |-> FamilyToUint8(a.addr.family),
              port |-> Xor(a.port, MagicCookie), words |-> a.addr.words]]

\* ErrorCodeAttribute::build; a phrase that is absent and an empty one look alike.
ErrorCodeBuild(a) ==
    [len |-> 4 + Len(a.reason),
     val |-> [class |-> a.code \div 100, number |-> a.code % 100,
              reason |-> a.reason]]

UnknownAttributesBuild(a) == [len |-> 2 * Len(a.types), val |-> a]

\* The visitor of AttributeSet::build.
BuildValue(type, a) ==
    CASE type = MAPPED_ADDRESS -> MappedBuild(a)
      [] type = ALTERNATE_SERVER -> AlternateServerBuild(a)
      [] type = XOR_MAPPED_ADDRESS -> XorMappedBuild(a)
      [] type \in {USERNAME, SOFTWARE} -> [len |-> Len(a.text), val |-> a]
      [] type = PRIORITY -> [len |-> 4, val |-> a]
      [] type \in {ICE_CONTROLLING, ICE_CONTROLLED} -> [len |-> 8, val |-> a]
      [] type = USE_CANDIDATE -> [len |-> 0, val |-> a]
      [] type = ERROR_CODE -> ErrorCodeBuild(a)
      [] type = UNKNOWN_ATTRIBUTES -> UnknownAttributesBuild(a)

-----------------------------------------------------------------------------
\* Attribute::parse: [attr] or the counter of ParseStat that counts the error,
\* Uncounted when none does.

Uncounted == "uncounted"

Parsed(attr) == [error |-> "", attr |-> attr]

Failed(counter) == [error |-> counter, attr |-> [none |-> TRUE]]

\* A value of len bytes, when the test on its size holds.
Sized(test, counter, attr) == IF test THEN Parsed(attr) ELSE Failed(counter)

\* A family the parser knows and the size of the address that goes with it.
AddressFits(w) ==
    LET f == FamilyFromUint8(w.val.family)
    IN  f # "" /\ w.len - 4 = FamilySize[f]

AddressOf(w) == [family |-> FamilyFromUint8(w.val.family), words |-> w.val.words]

\* A value too short for its first word fails before anything is counted.
MappedParse(w) ==
    IF w.len < 4 THEN Failed(Uncounted)
    ELSE IF AddressFits(w)
         THEN Parsed([addr |-> AddressOf(w), port |-> w.val.port])
         ELSE Failed("invalid_ip_address")

XorMappedParse(w) ==
    IF w.len < 4 THEN Failed("invalid_xor_mapped_address")
    ELSE IF AddressFits(w)
         THEN Parsed([addr |-> AddressOf(w),
                      port |-> Xor(w.val.port, MagicCookie)])
         ELSE Failed("invalid_ip_address")

AlternateServerParse(w) == MappedParse(w)

\* Any text will do.
TextParse(w) == Parsed(w.val)

MessageIntegrityParse(w) == Sized(w.len = 20, "invalid_message_integrity", w.val)

\* The checksum on the wire is combined with FINGERPRINT_XOR.
FingerprintXor(v) == [v EXCEPT !.xored = ~@]

FingerprintParse(w) ==
    Sized(w.len >= 4, "invalid_fingerprint_size", FingerprintXor(w.val))

PriorityParse(w) == Sized(w.len >= 4, "invalid_priority_size", w.val)

IceControllingParse(w) == Sized(w.len >= 8, "invalid_ice_controlling_size", w.val)

IceControlledParse(w) == Sized(w.len >= 8, "invalid_ice_controlled_size", w.val)

UseCandidateParse(w) == Sized(w.len = 0, "invalid_use_candidate_size", w.val)

UnknownAttributesParse(w) ==
    Sized(w.len % 2 = 0, "invalid_unknown_attributes_attr_size", w.val)

ErrorCodeParse(w) ==
    Sized(w.len >= 4, "invalid_error_code_size",
          [code |-> w.val.class * 100 + w.val.number, reason |-> w.val.reason])

\* Attribute::parse; a type it does not know is kept as it is.
ParseValue(w) ==
    CASE w.type = MAPPED_ADDRESS -> MappedParse(w)
      [] w.type = XOR_MAPPED_ADDRESS -> XorMappedParse(w)
      [] w.type \in {USERNAME, SOFTWARE} -> TextParse(w)
      [] w.type = MESSAGE_INTEGRITY -> MessageIntegrityParse(w)
      [] w.type = FINGERPRINT -> FingerprintParse(w)
      [] w.type = PRIORITY -> PriorityParse(w)
      [] w.type = ICE_CONTROLLING -> IceControllingParse(w)
      [] w.type = ICE_CONTROLLED -> IceControlledParse(w)
      [] w.type = USE_CANDIDATE -> UseCandidateParse(w)
      [] w.type = ERROR_CODE -> ErrorCodeParse(w)
      [] w.type = ALTERNATE_SERVER -> AlternateServerParse(w)
      [] w.type = UNKNOWN_ATTRIBUTES -> UnknownAttributesParse(w)
      [] OTHER -> Parsed(w.val)
=============================================================================
