------------------------------- MODULE Parsers -------------------------------
(***************************************************************************)
(* The inputs of the pure functions of the library: a candidate line that  *)
(* grows word by word, a host name that grows character by character, an   *)
(* RTP packet, the preferences of two candidates, two time points.  Each   *)
(* property compares what the functions make of the input with a           *)
(* definition that does not follow their steps.                            *)
(***************************************************************************)
EXTENDS IceCandidate, RtpPacket, Timepoint

CONSTANTS Words,         \* words of a candidate line
          \* the words that are a foundation, a component identifier, ...
          FoundationWords, ComponentWords, TransportWords, PriorityWords,
          AddressWords, PortWords, TypeWords,
          Usual,         \* a usual line: a sequence of words
          Packets,       \* RTP packets
          Locals,        \* local preferences
          ComponentIds,  \* component identifiers, as unsigned numbers
          \* bounds of the model
          MaxUnusual,    \* words of a line that differ from Usual
          MaxName        \* characters of a host name

ASSUME ParsersAssumption ==
    /\ Packets \subseteq Packet
    \* LocalPreference::from_unsigned and ComponentId::from_unsigned
    /\ \A v \in Locals : v \in Nat /\ v <= MaxLocal
    /\ ComponentIds \subseteq 1 .. 256

VARIABLES kind,          \* what is being read, or "none"
          input,
          unusual        \* number of words that differ from Usual

parserVars == <<kind, input, unusual>>

ParserInit == kind = "none" /\ input = <<>> /\ unusual = 0

AddWord(w) ==
    /\ kind \in {"none", "line"}
    /\ Len(input) < Len(Usual)
    /\ kind' = "line"
    /\ input' = Append(input, w)
    /\ unusual' = unusual + (IF w = Usual[Len(input) + 1] THEN 0 ELSE 1)
    /\ unusual' <= MaxUnusual

AddChar(c) ==
    /\ kind \in {"none", "name"}
    /\ Len(input) < MaxName
    /\ kind' = "name"
    /\ input' = Append(input, c)
    /\ UNCHANGED unusual

Take(k, value) ==
    /\ kind = "none"
    /\ kind' = k
    /\ input' = value
    /\ UNCHANGED unusual

Preferences == [type : {"host", "srflx", "prflx", "relay"},
                local : Locals, id : ComponentIds]

ParserNext ==
    \/ \E w \in Words : AddWord(w)
    \/ \E c \in CharClass : AddChar(c)
    \/ \E p \in Packets : Take("packet", p)
    \/ \E a, b \in Preferences : Take("preferences", [a |-> a, b |-> b])
    \/ \E t, d, e \in Point : Take("times", [t |-> t, d |-> d, e |-> e])

ParserSpec == ParserInit /\ [][ParserNext]_parserVars

-----------------------------------------------------------------------------
(* Properties.                                                             *)

\* Fqdn::from_string accepts labels of letters, digits and hyphens that begin
\* and end with a letter or a digit, with one dot between two of them and
\* perhaps one at the end, and nothing else.
FqdnIsLabels ==
    kind = "name" =>
        (FqdnFromString(input) <=>
            /\ Range(input) \subseteq LetDig \cup {"-", "."}
            /\ input[1] \in LetDig /\ input[Len(input)] # "-"
            /\ \A i \in DOMAIN input : input[i] = "." =>
                  /\ input[i - 1] \in LetDig
                  /\ i < Len(input) => input[i + 1] \in LetDig)

\* The grammar above parse_sdp_attr, for given transports, addresses and types.
\* A separator at the end is allowed, and rel-addr and rel-port may stand
\* anywhere among the extensions and more than once: the last one counts.
Matches(line, transports, addresses, types) ==
    LET t == IF line[Len(line)] = Blank THEN SubSeq(line, 1, Len(line) - 1) ELSE line
        relates(name, values) ==
            \A i \in 9 .. Len(t) :
                /\ i % 2 = 1 /\ t[i].text = name
                /\ \A j \in i + 1 .. Len(t) : j % 2 = 1 => t[j].text # name
                => t[i + 1] \in values
    IN  /\ Len(t) >= 8 /\ Len(t) % 2 = 0
        /\ t[1] \in FoundationWords /\ t[2] \in ComponentWords
        /\ t[3] \in transports /\ t[4] \in PriorityWords
        /\ t[5] \in addresses /\ t[6] \in PortWords
        /\ t[7].text = "typ" /\ t[8] \in types
        /\ relates("raddr", AddressWords) /\ relates("rport", PortWords)

\* The binding returns a candidate for the lines of the grammar and for no
\* other, however the tokens of a damaged line shift into each other's places,
\* and every pair of words behind the type is kept.
CandidateIsGrammar ==
    kind = "line" =>
        LET r == NodeParse(TRUE, input)
        IN  /\ NodeParse(FALSE, input).thrown
            /\ (r.result # <<>>) =
                    Matches(input, TransportWords, AddressWords, TypeWords)
            /\ r.result # <<>> =>
                  Len(r.extensions) = Cardinality({i \in 9 .. Len(SplitAll(input)) :
                      i % 2 = 1 /\ input[i].text \notin {"raddr", "rport"}})

\* As the comment in parse_sdp_attr asks, a line that is well formed but has a
\* transport, an address or a type that is not known is ignored: the binding
\* neither returns a candidate nor throws.
UnknownIsIgnored ==
    kind = "line" /\ Matches(input, Words, Words, Words) =>
        LET r == NodeParse(TRUE, input)
        IN  ~r.thrown /\ (r.error =
                ~Matches(input, TransportWords, AddressWords, TypeWords))

\* What the comment on the padding count asks of it: the padding is one or more
\* octets, and the count includes itself.
CountsItself(p) == p.padding => p.last > 0

\* A packet is accepted exactly when its sources, its extension, the payload and
\* the padding it announces fill it, and then what parse() returns lies in that
\* order without gap or overlap: nothing is read past the end, the assertion
\* on payload_offset holds and no size is negative.  Of a padding count of 0,
\* against the comment there, it says only that nothing is out of bounds.
Partitioned(p) ==
    LET r == ParseRtp(p)
        header == IF p.extension THEN 4 ELSE 0
        pad == IF p.padding THEN p.last ELSE 0
        fixed == 12 + 4 * p.cc + (IF p.extension THEN 4 + 4 * p.ext_length ELSE 0)
    IN  /\ CountsItself(p) =>
              (r.error = "" <=> /\ p.version = 2 /\ p.pt \in PayloadMap
                                /\ fixed + pad <= p.size)
        /\ r.error = "" =>
              /\ r.csrcs.offset = 12
              /\ r.csrcs.offset + r.csrcs.count + header = r.ext.offset
              /\ r.ext.offset + r.ext.count = r.payload.offset
              /\ r.payload.offset + r.payload.count <= p.size
              /\ CountsItself(p) => r.payload.offset + r.payload.count + pad = p.size
              /\ r.csrcs.count >= 0 /\ r.ext.count >= 0 /\ r.payload.count >= 0

PacketPartitioned == kind = "packet" => Partitioned(input)

MaxPriority == 2147483647

\* Candidates are ordered by type, then by local preference, then by component,
\* the first component first; the priority is positive and below 2^31 as the
\* comment in Priority asks.  The one exception is refused: the last component
\* of a relayed candidate of no local preference has no priority.
Lexicographic(a, b) ==
    LET p(c) == ToPriority(TypePreference[c.type], c.local,
                           ComponentPreference(ComponentIdFromUnsigned(c.id).value))
        none(c) == c.type = "relay" /\ c.local = 0 /\ c.id = 256
        rank(c) == TypePreference[c.type]
    IN  /\ p(a).error # "" <=> none(a)
        /\ ~none(a) => 0 < p(a).value /\ p(a).value <= MaxPriority
        /\ ~none(a) /\ ~none(b) =>
              (p(a).value < p(b).value <=>
                 \/ rank(a) < rank(b)
                 \/ rank(a) = rank(b) /\ a.local < b.local
                 \/ rank(a) = rank(b) /\ a.local = b.local /\ a.id > b.id)

PriorityIsLexicographic == kind = "preferences" => Lexicographic(input.a, input.b)

\* Two points that lie less than half of the range apart are ordered, and
\* differ, as the times do that they stand for, wherever the counter wraps.
TimesOrdered ==
    kind = "times" /\ input.d - input.e < Half /\ input.e - input.d < Half =>
        LET p == advance(input.t, input.d)
            q == advance(input.t, input.e)
        IN  /\ is_after(p, q) = (input.d > input.e)
            /\ is_before(p, q) = (input.d < input.e)
            /\ Difference(p, q) = input.d - input.e
==============================================================================
