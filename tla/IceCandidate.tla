---------------------------- MODULE IceCandidate ----------------------------
(***************************************************************************)
(* The candidate line of an SDP description: ice/candidate, the token      *)
(* stream it is read with, host names and ports (net_fqdn.cpp,             *)
(* net_port.cpp), and the priority of a candidate.                         *)
(*                                                                         *)
(* A word is a record [text, lower, chars, num, ip]: its exact and its     *)
(* lower-case spelling, the class of each character, the number its digits *)
(* form, in two parts of 16 bits, and whether inet_pton reads an address   *)
(* of version 4 or 6 in it.                                                *)
(***************************************************************************)
EXTENDS Integers, Sequences, FiniteSetsExt

\* Classes of characters: a letter, "_", a digit, "+" and "/", "-", "." and any
\* other.
Letter == {"a", "_"}
LetDig == Letter \cup {"1"}
IceChar == {"a", "1", "+"}

CharClass == {"a", "_", "1", "+", "-", ".", "?"}

Ok(v) == [error |-> "", value |-> v]
Err(e) == [error |-> e, value |-> "none"]

AllIn(w, class) == Range(w.chars) \subseteq class

-----------------------------------------------------------------------------
\* net_fqdn.cpp.  A position is that of the last character consumed.

\* parse_label at position i + 1, or i when there is no label.
LabelEnd(v, i) ==
    LET run == {j \in i + 1 .. Len(v) :
                   \A k \in i + 1 .. j : v[k] \in LetDig \cup {"-"}}
    IN  IF i = Len(v) \/ v[i + 1] \notin LetDig THEN i
        ELSE Max({j \in run : v[j] \in LetDig})

\* Mutant of SubdomainEnd: the label behind a dot is not looked at.
SubdomainEndShort(v) == LET e == LabelEnd(v, 0)
                        IN  IF e < Len(v) /\ v[e + 1] = "." THEN Len(v) ELSE e

\* parse_subdomain: labels joined by dots; a dot without a label ends it.
SubdomainEnd(v) ==
    LET end[i \in 0 .. Len(v)] ==
            LET e == LabelEnd(v, i)
            IN  IF e = i \/ e = Len(v) \/ v[e + 1] # "." THEN e ELSE end[e + 1]
    IN  end[0]

\* Fqdn::from_string
FqdnFromString(v) == v # <<>> /\ SubdomainEnd(v) = Len(v)

-----------------------------------------------------------------------------
\* The fields.

FoundationFromString(w) ==
    IF Len(w.chars) \notin 1 .. 32 THEN Err("invalid_foundation_length")
    ELSE IF AllIn(w, IceChar) THEN Ok(w.text) ELSE Err("invalid_foundation_char")

\* The value is not compared with the range of from_unsigned.
ComponentIdFromString(w) ==
    IF Len(w.chars) \notin 1 .. 3 THEN Err("invalid_component_id_length")
    ELSE IF AllIn(w, {"1"}) THEN Ok(w.num[2]) ELSE Err("invalid_component_id_char")

ComponentIdFromUnsigned(v) ==
    IF v \in 1 .. 256 THEN Ok(v) ELSE Err("invalid_component_id_value")

TransportFromString(w) ==
    IF w.lower = "udp" THEN Ok("udp") ELSE Err("unknown_transport_type")

PriorityFromString(w) ==
    IF Len(w.chars) \notin 1 .. 10 THEN Err("invalid_priority_length")
    ELSE IF AllIn(w, {"1"}) /\ w.num # <<0, 0>> /\ w.num[1] < 2^16
         THEN Ok(w.num) ELSE Err("invalid_priority_value")

\* The error of a word that is neither is that of the IP address.
AddressFromString(w) ==
    IF w.ip THEN Ok(<<"ip", w.text>>)
    ELSE IF FqdnFromString(w.chars) THEN Ok(<<"fqdn", w.text>>)
    ELSE Err("invalid_ip_address")

PortFromString(w) ==
    IF Len(w.chars) \in 1 .. 5 /\ AllIn(w, {"1"}) /\ w.num[1] = 0
    THEN Ok(w.num[2]) ELSE Err("invalid_port_value")

TypeFromString(w) ==
    IF w.lower \in {"host", "srflx", "prflx", "relay"} THEN Ok(w.lower)
    ELSE Err("unknown_candidate_type")

-----------------------------------------------------------------------------
\* parse_sdp_attr

Blank == [text |-> "", lower |-> "", chars |-> <<>>, num |-> <<0, 0>>, ip |-> FALSE]

\* Mutant of SplitAll: several separators count as one.
SplitAllMerging(words) == SelectSeq(words, LAMBDA w : w # Blank)

\* split_all of the words of a line: an empty word at the end is not seen, one
\* between two separators is.
SplitAll(words) ==
    LET n == Len(words)
    IN  IF n > 0 /\ words[n] = Blank THEN SubSeq(words, 1, n - 1) ELSE words

\* TokenStream::required_bind, at position i of the tokens.
RequiredBind(t, i, from_string(_)) ==
    IF i > Len(t) THEN Err("no_required_token") ELSE from_string(t[i])

\* required("typ") and, only when that is there, the type.
TypeField(t) ==
    LET typ(w) == IF w.text = "typ" THEN Ok("typ") ELSE Err("expected_token_missed")
        is_typ == RequiredBind(t, 7, typ)
    IN  IF is_typ.error # "" THEN is_typ ELSE RequiredBind(t, 8, TypeFromString)

\* Names and values after the type, two by two; a "typ" that is missing was
\* consumed and the word behind it begins the first pair.
FirstPair(t) == IF Len(t) >= 7 /\ t[7].text = "typ" THEN 9 ELSE 8

PairNames(t) == {i \in FirstPair(t) .. Len(t) : (i - FirstPair(t)) % 2 = 0}

Related == {"raddr", "rport"}

\* maybe_raddr and maybe_rport: the last of that name counts.
RelatedField(t, name, from_string(_)) ==
    LET at == {i \in PairNames(t) : t[i].text = name}
    IN  IF at = {} THEN Ok("absent") ELSE RequiredBind(t, Max(at) + 1, from_string)

Extensions(t) ==
    LET at(n) == FirstPair(t) + 2 * (n - 1)
        pairs == [n \in 1 .. Cardinality(PairNames(t)) |->
                     <<t[at(n)].text, t[at(n) + 1].text>>]
    IN  SelectSeq(pairs, LAMBDA pair : pair[1] \notin Related)

\* Mutant of IsUnsupported: only what is wrong with the address counts.
IsUnsupportedAddressOnly(addr, type, transport) == addr.error # ""

\* The first error of the address, the type and the transport decides.
IsUnsupported(addr, type, transport) ==
    \/ addr.error # ""
    \/ type.error = "unknown_candidate_type"
    \/ type.error = "" /\ transport.error = "unknown_transport_type"

FieldOrder == <<"foundation", "component", "transport", "priority", "address",
                "port", "type", "raddr", "rport">>

Fields(t) ==
    [foundation |-> RequiredBind(t, 1, FoundationFromString),
     component  |-> RequiredBind(t, 2, ComponentIdFromString),
     transport  |-> RequiredBind(t, 3, TransportFromString),
     priority   |-> RequiredBind(t, 4, PriorityFromString),
     address    |-> RequiredBind(t, 5, AddressFromString),
     port       |-> RequiredBind(t, 6, PortFromString),
     type       |-> TypeField(t),
     raddr      |-> RelatedField(t, "raddr", AddressFromString),
     rport      |-> RelatedField(t, "rport", PortFromString)]

\* An extension whose value is missing ends the parse at once; all the other
\* errors wait until the line was read, and combine() takes the first.
ParseSdpAttr(prefix, words) ==
    LET t == SplitAll(words)
        f == Fields(t)
        failed == SelectSeq(FieldOrder, LAMBDA n : f[n].error # "")
    IN  IF ~prefix THEN [kind |-> "Error", error |-> "invalid_attr_prefix"]
        ELSE IF Len(t) \in PairNames(t) /\ t[Len(t)].text \notin Related
        THEN [kind |-> "Error", error |-> "no_required_token"]
        ELSE IF IsUnsupported(f.address, f.type, f.transport)
        THEN [kind |-> "Unsupported"]
        ELSE IF failed # <<>> THEN [kind |-> "Error", error |-> f[failed[1]].error]
        ELSE [kind |-> "Supported",
              candidate |-> [n \in Range(FieldOrder) |-> f[n].value],
              extensions |-> Extensions(t)]

\* ice_candidate_parse of the Node.js binding: an object without the priority,
\* or one with an error for a line that must be ignored, or an exception.
NodeParse(prefix, words) ==
    LET r == ParseSdpAttr(prefix, words)
        shown == Range(FieldOrder) \ {"priority"}
    IN  CASE r.kind = "Supported" ->
                [result |-> [n \in shown |-> r.candidate[n]],
                 extensions |-> r.extensions, error |-> FALSE, thrown |-> FALSE]
          [] r.kind = "Unsupported" ->
                [result |-> <<>>, extensions |-> <<>>, error |-> TRUE, thrown |-> FALSE]
          [] r.kind = "Error" ->
                [result |-> <<>>, extensions |-> <<>>, error |-> TRUE, thrown |-> TRUE]

-----------------------------------------------------------------------------
\* Preferences and the priority (ice_candidate_preference.cpp).

\* TypePreference::recommended_for
TypePreference == [host |-> 126, srflx |-> 100, prflx |-> 110, relay |-> 0]

\* ComponentPreference::recommended_for
ComponentPreference(id) == 256 - id

\* The largest local preference.
MaxLocal == 65535

\* Mutant of ToPriority: the local preference one bit too high.
ToPriorityShifted(type, local, component) ==
    Ok(type * 16777216 + local * 512 + component)

\* Preference::to_priority: type << 24 | local << 8 | component, the parts each
\* below the bits of the next; Priority::from_uint32 refuses 0.
ToPriority(type, local, component) ==
    LET p == type * 16777216 + local * 256 + component
    IN  IF p = 0 THEN Err("invalid_priority_value") ELSE Ok(p)
=============================================================================
