------------------------------ MODULE TSPacket ------------------------------
(***************************************************************************)
(* TSPacket and TSAdaptationField: how a payload is cut into transport     *)
(* packets, and what a receiver reads of one.  Constant-level.             *)
(*                                                                         *)
(* Of the bytes of a packet only their places are told apart: a packet has *)
(*   cc, pusi   of its header                                              *)
(*   payload    its adaptation mode has a payload                          *)
(*   field      <<adaptation field>>, or <<>>                              *)
(*   from       the place in the payload being cut of its first byte here  *)
(*   bytes      how many bytes of it were written                          *)
(* What is received of it is read at the places that the length field of   *)
(* the adaptation field tells.                                             *)
(***************************************************************************)
EXTENDS Integers, Sequences

TS_PACKET_SIZE_188 == 188
TS_PACKET_HEADER_SIZE == 4

\* What the header leaves.
PacketSpace == TS_PACKET_SIZE_188 - TS_PACKET_HEADER_SIZE

Smaller(a, b) == IF a < b THEN a ELSE b

PcrBytes(hasPcr) == IF hasPcr THEN 6 ELSE 0

\* Mutant: the length field does not count the PCR.
FieldNotCountingPcr(hasPcr, disc, rai, remaining) ==
    LET space   == PacketSpace - 2 - PcrBytes(hasPcr)
        stuffed == space - Smaller(space, remaining)
    IN  [length |-> 1 + stuffed, disc |-> disc, rai |-> rai, pcr |-> hasPcr, stuffed |-> stuffed]

\* The adaptation field of a packet for the remaining bytes of a payload, which fills the
\* packet.  A field that stuffs a single byte is its own length, without flags.
AdaptationField(hasPcr, disc, rai, remaining) ==
    LET hasFlags == hasPcr \/ disc \/ rai
        space    == PacketSpace - 2 - PcrBytes(hasPcr)
        stuffed  == space - Smaller(space, remaining)
        single   == ~hasFlags /\ remaining = 183
    IN  [length  |-> IF single THEN 0 ELSE 1 + PcrBytes(hasPcr) + stuffed,
         disc    |-> disc, rai |-> rai, pcr |-> hasPcr,
         stuffed |-> IF single THEN 0 ELSE stuffed]

\* The bytes that getBytes writes of it.
FieldBytes(field) ==
    IF field = <<>> THEN 0
    ELSE IF field[1].length = 0 THEN 1 ELSE 2 + PcrBytes(field[1].pcr) + field[1].stuffed

PacketBytes(p) == TS_PACKET_HEADER_SIZE + FieldBytes(p.field) + p.bytes

\* One packet of packetizePayload: the remaining bytes of length, in the flags of the first.
PacketOf(length, remaining, isFirstPacket, flags, cc) ==
    LET pcr   == flags.pcr /\ isFirstPacket
        disc  == flags.disc /\ isFirstPacket
        rai   == flags.rai /\ isFirstPacket
        needsStuffing == remaining < PacketSpace
        field == IF pcr \/ disc \/ rai \/ needsStuffing
                 THEN <<AdaptationField(pcr, disc, rai, remaining)>> ELSE <<>>
    IN  [cc |-> cc, pusi |-> isFirstPacket, payload |-> TRUE, field |-> field,
         from |-> length - remaining, bytes |-> Smaller(PacketSpace - FieldBytes(field), remaining)]

\* pcrPacketDataWithPid: an adaptation field fills the packet.
PcrPacketOf(cc) ==
    [cc |-> cc, pusi |-> FALSE, payload |-> FALSE,
     field |-> <<AdaptationField(TRUE, FALSE, FALSE, 0)>>, from |-> 0, bytes |-> 0]

-----------------------------------------------------------------------------
(* The receiver *)

\* Mutant: a field of length zero is taken for none.
PayloadOffsetBehindFlags(p) ==
    TS_PACKET_HEADER_SIZE
        + (IF p.field = <<>> \/ p.field[1].length = 0 THEN 0 ELSE 1 + p.field[1].length)

PayloadOffset(p) ==
    TS_PACKET_HEADER_SIZE + (IF p.field = <<>> THEN 0 ELSE 1 + p.field[1].length)

\* A packet without a byte of payload where there should be some is skipped; one that is not
\* full is nil, and the array of packets cannot hold that.
IsReceived(p) ==
    IF p.payload THEN PayloadOffset(p) < TS_PACKET_SIZE_188
                 ELSE PayloadOffset(p) = TS_PACKET_SIZE_188

\* What getBytes wrote of a header; the counter has four bits.
HeaderRead(p) == [cc |-> p.cc % 16, pusi |-> p.pusi, payload |-> p.payload]

\* What of p is read: its flags, and its payload from PayloadOffset to the end.
Received(p) ==
    LET hasFlags == p.field # <<>> /\ p.field[1].length > 0
        written  == TS_PACKET_HEADER_SIZE + FieldBytes(p.field)
        header   == HeaderRead(p)
    IN  [cc |-> header.cc, pusi |-> header.pusi, payload |-> header.payload,
         disc  |-> hasFlags /\ p.field[1].disc,
         rai   |-> hasFlags /\ p.field[1].rai,
         from  |-> p.from + PayloadOffset(p) - written,
         bytes |-> TS_PACKET_SIZE_188 - PayloadOffset(p)]

=============================================================================
