------------------------------ MODULE RtpPacket ------------------------------
(***************************************************************************)
(* Packet::parse of rtp_packet.cpp.                                        *)
(*                                                                         *)
(* A packet is [size, version, padding, extension, cc, pt, ext_length,     *)
(* last]: how many bytes arrived and the fields that decide how they are   *)
(* read: the bits of the first byte, the payload type, the 16-bit length   *)
(* of the extension and the last byte.  A field the packet is too short    *)
(* for is not read.  Sequence number, timestamp and sources are copied.    *)
(***************************************************************************)
EXTENDS Integers

RTP_FIXED_HEADER_LEN == 12
RTP_VERSION == 2

CONSTANT PayloadMap      \* the payload types that have a clock rate

Packet == [size : Nat, version : 0 .. 3, padding : BOOLEAN, extension : BOOLEAN,
           cc : 0 .. 15, pt : 0 .. 127, ext_length : Nat, last : 0 .. 255]

RtpError(counter) == [error |-> counter]

ExtOffset(p) == RTP_FIXED_HEADER_LEN + 4 * p.cc

\* ext_size; the length does not count the four bytes it stands in.
ExtSize(p) == IF p.extension THEN (p.ext_length + 1) * 4 ELSE 0

\* The two fields of the extension header and the interval behind them.
ExtensionFits(p) ==
    p.extension => /\ ExtOffset(p) + 4 <= p.size
                   /\ ExtOffset(p) + ExtSize(p) <= p.size

PayloadOffset(p) == ExtOffset(p) + ExtSize(p)

\* payload_with_padding_size
Remaining(p) == p.size - PayloadOffset(p)

PaddingSize(p) == IF p.padding THEN p.last ELSE 0

\* Mutant of PaddingFits: a packet of nothing but padding is not looked at.
PaddingFitsUnchecked(p) == p.padding => Remaining(p) # 0

PaddingFits(p) == p.padding => Remaining(p) # 0 /\ p.last <= Remaining(p)

Interval(offset, count) == [offset |-> offset, count |-> count]

\* Where the parts of a packet lie that passed all the tests.
Divided(p) ==
    [error   |-> "",
     csrcs   |-> Interval(RTP_FIXED_HEADER_LEN, 4 * p.cc),
     ext     |-> IF p.extension THEN Interval(ExtOffset(p) + 4, ExtSize(p) - 4)
                                ELSE Interval(ExtOffset(p), 0),
     payload |-> Interval(PayloadOffset(p), Remaining(p) - PaddingSize(p))]

\* The packet, or the error under the name of the counter that counts it.
ParseRtp(p) ==
    IF p.size < RTP_FIXED_HEADER_LEN THEN RtpError("invalid_size")
    ELSE IF p.version # RTP_VERSION THEN RtpError("invalid_version")
    ELSE IF ExtOffset(p) > p.size THEN RtpError("invalid_csrc")
    ELSE IF p.pt \notin PayloadMap THEN RtpError("unknown_rtp_clock")
    ELSE IF ~ExtensionFits(p) THEN RtpError("invalid_extension")
    ELSE IF ~PaddingFits(p) THEN RtpError("invalid_padding")
    ELSE Divided(p)
==============================================================================
