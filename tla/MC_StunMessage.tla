-------------------------- MODULE MC_StunMessage --------------------------
(* Instances of StunMessage for TLC: headers, attributes and what the      *)
(* network may put into a datagram.                                        *)
EXTENDS StunMessage

Tid12 == <<0, 1, 0>>

\* A request with a method that has bits on all sides of the class bits, an
\* error response, and a request of an RFC 3489 client.
MC_Headers == {[cls |-> 0, method |-> 1 + 16 + 128, tid |-> Tid12],
               [cls |-> 3, method |-> 1, tid |-> Tid12],
               [cls |-> 0, method |-> 1, tid |-> <<0, 1, 1, 0>>]}

MC_V4 == [family |-> "IPv4", words |-> <<0>>]
MC_V6 == [family |-> "IPv6", words |-> <<1, 1, 0, 0>>]

Known(type, attr) == [type |-> type, attr |-> attr]
Text(n) == [text |-> [i \in 1 .. n |-> i]]

\* Every known attribute; texts that need no padding, one byte and three.
MC_KnownAttrs ==
    {Known(XOR_MAPPED_ADDRESS, [addr |-> MC_V4, port |-> 1]),
     Known(XOR_MAPPED_ADDRESS, [addr |-> MC_V6, port |-> 0]),
     Known(MAPPED_ADDRESS, [addr |-> MC_V6, port |-> 1]),
     Known(ALTERNATE_SERVER, [addr |-> MC_V4, port |-> 0]),
     Known(USERNAME, Text(3)),
     Known(SOFTWARE, Text(4)),
     Known(PRIORITY, [number |-> 7]),
     Known(ICE_CONTROLLING, [number |-> 8]),
     Known(ICE_CONTROLLED, [number |-> 9]),
     Known(USE_CANDIDATE, Text(0)),
     Known(ERROR_CODE, [code |-> 420, reason |-> <<1>>]),
     Known(UNKNOWN_ATTRIBUTES, [types |-> <<20>>]),
     Known(MESSAGE_INTEGRITY, [stale |-> TRUE]),
     Known(FINGERPRINT, [stale |-> TRUE])}

Raw(type, len, val) == [type |-> type, len |-> len, val |-> val]

MC_UnknownAttrs == {Raw(20, 5, Text(5)), Raw(32788, 0, Text(0))}

MC_Passwords == {"k1", "k2"}

NoInput == [mtype |-> 0, length |-> 0, words |-> <<>>, attrs |-> <<>>]

\* What may appear in a datagram: attributes of the sizes the parser refuses
\* and of sizes it accepts, and digests and checksums of something else.
MC_Foreign ==
    {Raw(XOR_MAPPED_ADDRESS, 3, Text(3)),
     Raw(XOR_MAPPED_ADDRESS, 8, [family |-> 2, port |-> 0, words |-> <<0>>]),
     Raw(MAPPED_ADDRESS, 2, Text(2)),
     Raw(MAPPED_ADDRESS, 8, [family |-> 1, port |-> 0, words |-> <<1>>]),
     Raw(ALTERNATE_SERVER, 8, [family |-> 0, port |-> 0, words |-> <<1>>]),
     Raw(USERNAME, 6, Text(6)),
     Raw(PRIORITY, 3, [number |-> 0]),
     Raw(ICE_CONTROLLING, 4, [number |-> 0]),
     Raw(ICE_CONTROLLED, 7, [number |-> 0]),
     Raw(USE_CANDIDATE, 4, Text(4)),
     Raw(ERROR_CODE, 3, [class |-> 4, number |-> 0, reason |-> <<>>]),
     Raw(UNKNOWN_ATTRIBUTES, 1, [types |-> <<>>]),
     Raw(MESSAGE_INTEGRITY, 19, Digest("k1", NoInput)),
     Raw(MESSAGE_INTEGRITY, 20, Digest("k1", NoInput)),
     Raw(FINGERPRINT, 2, Crc32(NoInput)),
     Raw(FINGERPRINT, 4, Crc32(NoInput)),
     Raw(21, 1, Text(1))}
===========================================================================
