----------------------------- MODULE MC_Parsers -----------------------------
(* Instances of Parsers for TLC. *)
EXTENDS Parsers

Word(text, lower, chars, num, ip) ==
    [text |-> text, lower |-> lower, chars |-> chars, num |-> num, ip |-> ip]

Digits(text, n, num) == Word(text, text, [i \in 1 .. n |-> "1"], num, FALSE)
Name(text, n, lower) == Word(text, lower, [i \in 1 .. n |-> "a"], <<0, 0>>, FALSE)

Zero == Digits("0", 1, <<0, 0>>)
One == Digits("1", 1, <<0, 1>>)
Big == Digits("99999", 5, <<1, 34463>>)           \* no port
Huge == Digits("4294967296", 10, <<65536, 0>>)    \* no priority
UDP == Name("UDP", 3, "udp")
Tcp == Name("tcp", 3, "tcp")
Typ == Name("typ", 3, "typ")
Host == Name("host", 4, "host")
RAddr == Name("raddr", 5, "raddr")
RPort == Name("rport", 5, "rport")
V4 == Word("9.0.0.1", "9.0.0.1", <<"1", ".", "1", ".", "1", ".", "1">>, <<0, 0>>, TRUE)
V6 == Word("::1", "::1", <<"?", "?", "1">>, <<0, 0>>, TRUE)
Dash == Word("-", "-", <<"-">>, <<0, 0>>, FALSE)

MC_Numbers == {Zero, One, Big, Huge}
MC_Names == {UDP, Tcp, Typ, Host, RAddr, RPort}
MC_Words == MC_Numbers \cup MC_Names \cup {V4, V6, Dash, Blank}

\* Every name and number is a host name, too.
MC_Foundations == MC_Numbers \cup MC_Names
MC_Components == {Zero, One}
MC_Transports == {UDP}
MC_Priorities == {One, Big}
MC_Addresses == MC_Numbers \cup MC_Names \cup {V4, V6}
MC_Ports == {Zero, One}
MC_Types == {Host}

MC_Usual == <<One, One, UDP, One, V4, One, Typ, Host, RAddr, V4, RPort, One>>

MC_Packets == [size : 8 .. 26, version : {1, 2}, padding : BOOLEAN,
               extension : BOOLEAN, cc : 0 .. 2, pt : {0, 1},
               ext_length : 0 .. 2, last : {0, 1, 2, 5, 255}]
=============================================================================
