--------------------------- MODULE ChunkReception ---------------------------
(***************************************************************************)
(* TSDemuxer demux: on the bytes of a transport stream, up to the packets  *)
(* and PES headers that routing starts from.  The stream has packets of    *)
(* 188 bytes, or of 204 with 16 bytes of parity that a receiver added, and *)
(* comes in chunks; the demuxer takes the size of its packets from the     *)
(* length of the first chunk.  A chunk may be cut short, and a byte of it  *)
(* may have been damaged.                                                  *)
(***************************************************************************)
EXTENDS TSPacketBytes, TSPesHeader

CONSTANTS
    Packets,    \* packets that may be sent: [bytes, reads], by name
    Chunks      \* [packets: their names, missing: how many bytes are cut off the end,
                \*  damage: at most one [packet, byte, value]]

\* What is to be read of a packet is at most one [packet, pesHeader].
ASSUME PacketsAssumption ==
    \A name \in DOMAIN Packets :
        /\ Packets[name].bytes \in Seq(Byte) /\ Len(Packets[name].bytes) = TS_PACKET_SIZE_188
        /\ \A i \in DOMAIN Packets[name].reads :
              /\ Packets[name].reads[i].packet \in TSPackets
              /\ Packets[name].reads[i].pesHeader \in Seq(TSPesHeaders)

ASSUME ChunksAssumption ==
    \A c \in Chunks :
        /\ c.packets \in Seq(DOMAIN Packets) /\ c.missing \in Nat
        /\ c.damage \in Seq([packet : DOMAIN c.packets, byte : 1 .. TS_PACKET_SIZE_188,
                             value : Byte])
        /\ Len(c.damage) <= 1

VARIABLES
    streamSize,     \* the size of the packets of the stream
    packetSize,     \* what the demuxer takes for it, 0 for unknown
    isSizeTold,     \* the first chunk was one that tells
    pc,             \* "idle", "returned", or "exception"
    chunk,          \* <<the chunk of the last call>>
    received        \* the packets of it that routing gets, with their PES headers

vars == <<streamSize, packetSize, isSizeTold, pc, chunk, received>>

\* The packets of a stream, with parity behind every packet of 204 bytes.
Stream(names) ==
    LET parity == [i \in 1 .. streamSize - TS_PACKET_SIZE_188 |-> 170]
    IN  FlattenSeq([i \in DOMAIN names |-> Packets[names[i]].bytes \o parity])

\* What is left of them in a chunk.
BytesOf(c) ==
    LET sent    == Stream(c.packets)
        damaged == IF c.damage = <<>> THEN sent
                   ELSE LET d == c.damage[1]
                        IN  [sent EXCEPT ![(d.packet - 1) * streamSize + d.byte] = d.value]
    IN  SubSeq(damaged, 1, Len(damaged) - c.missing)

-----------------------------------------------------------------------------
(* The call *)

\* Mutant: a whole number of 204-byte packets is taken for such.
DetectBtsFirst(length) ==
    IF length % TS_PACKET_SIZE_204 = 0 THEN TS_PACKET_SIZE_204 ELSE TS_PACKET_SIZE_188

detectPacketSizeFromLength(length) ==
    IF length % TS_PACKET_SIZE_204 = 0 /\ length % TS_PACKET_SIZE_188 # 0
    THEN TS_PACKET_SIZE_204 ELSE TS_PACKET_SIZE_188

\* The bytes that are read of packet i.
PacketAt(bytes, size, i) == SubSeq(bytes, (i - 1) * size + 1, (i - 1) * size + TS_PACKET_SIZE_188)

\* Mutant: a packet that is skipped ends the loop.
TurnsUpToTheFirstSkipped(bytes, size) ==
    LET all     == [i \in 1 .. Len(bytes) \div size |-> PacketTurn(PacketAt(bytes, size, i))]
        skipped == {i \in DOMAIN all : all[i].outcome = "skipped"}
    IN  IF Len(bytes) % size # 0 THEN <<>>
        ELSE SubSeq(all, 1, IF skipped = {} THEN Len(all) ELSE Min(skipped) - 1)

Kept(turn) == IF turn.outcome = "skipped" THEN <<>> ELSE <<turn>>

\* packetsFromChunkedTsData: no packets of a chunk that is not a whole number of them.
Turns(bytes, size) ==
    IF Len(bytes) % size # 0 THEN <<>>
    ELSE FlattenSeq([i \in 1 .. Len(bytes) \div size |->
                         Kept(PacketTurn(PacketAt(bytes, size, i)))])

\* The header that a stream builder finds in a packet that begins a PES packet.
PesHeaderOf(packet) ==
    IF ~packet.header.payloadUnitStartIndicator THEN <<>>
    ELSE ParseFromPayload(FlattenSeq(packet.payload),
                          \E i \in DOMAIN packet.adaptationField :
                              "discontinuity" \in packet.adaptationField[i].flags)

Reading(packet) == [packet |-> packet, pesHeader |-> PesHeaderOf(packet)]

\* A first chunk tells the size if it is a whole number of packets, at least one; 47 packets of
\* 204 bytes are as long as 51 of 188.
Tells(c) ==
    /\ c.missing = 0
    /\ streamSize = TS_PACKET_SIZE_204 => Len(c.packets) % 47 # 0

Init ==
    /\ streamSize \in {TS_PACKET_SIZE_188, TS_PACKET_SIZE_204}
    /\ packetSize = 0 /\ isSizeTold = FALSE
    /\ pc = "idle" /\ chunk = <<>> /\ received = <<>>

\* The size is kept for ever.  An array that is to hold a packet that is nil raises an
\* exception, and the packets before it are lost too.
Demux(c) ==
    /\ pc = "idle"
    /\ chunk' = <<c>>
    /\ packetSize' = IF packetSize = 0 THEN detectPacketSizeFromLength(Len(BytesOf(c)))
                     ELSE packetSize
    /\ isSizeTold' = IF packetSize = 0 THEN Tells(c) ELSE isSizeTold
    /\ LET turns == Turns(BytesOf(c), packetSize')
       IN  IF \E i \in DOMAIN turns : turns[i].outcome = "nil"
           THEN pc' = "exception" /\ received' = <<>>
           ELSE /\ pc' = "returned"
                /\ received' = [i \in DOMAIN turns |-> Reading(turns[i].packet)]
    /\ UNCHANGED streamSize

\* A caller that catches the exception goes on.
Return ==
    /\ pc # "idle" /\ pc' = "idle" /\ chunk' = <<>> /\ received' = <<>>
    /\ UNCHANGED <<streamSize, packetSize, isSizeTold>>

Next == (\E c \in Chunks : Demux(c)) \/ Return

Spec == Init /\ [][Next]_vars

-----------------------------------------------------------------------------
(* Properties *)

\* What is to be read of a packet is what the demuxer reads of it alone.
IsReadAlone(name) ==
    LET turn == PacketTurn(Packets[name].bytes)
    IN  /\ turn.outcome # "nil"
        /\ Packets[name].reads = [i \in DOMAIN Kept(turn) |-> Reading(Kept(turn)[i].packet)]

\* What is to be read of the packets of a chunk.
ReadsOf(names) == FlattenSeq([i \in DOMAIN names |-> Packets[names[i]].reads])

\* Once a first chunk has told the size, every chunk of whole packets is read as it was sent,
\* however many packets it has: the headers, the fields with all that other senders put into
\* them, every byte of the payloads, and the times of the access units; only packets with a
\* transport error are left out.
ChunksAreReadAsSent ==
    \A i \in DOMAIN chunk :
        isSizeTold /\ chunk[i].missing = 0 /\ chunk[i].damage = <<>> =>
            pc = "returned" /\ received = ReadsOf(chunk[i].packets)

\* A byte damaged in the header or the field of a packet costs that packet at most: those around
\* it are read as they were sent.  A chunk is lost only when the damage makes a packet that is
\* not full: a reserved adaptation mode, a field that is alone in its packet and ends early, or a
\* packet that its sender marked as erroneous.
DamageCostsOnePacket ==
    \A i \in DOMAIN chunk : \A k \in DOMAIN chunk[i].damage :
        isSizeTold /\ chunk[i].missing = 0 =>
            LET names  == chunk[i].packets
                j      == chunk[i].damage[k].packet
                before == ReadsOf(SubSeq(names, 1, j - 1))
                behind == ReadsOf(SubSeq(names, j + 1, Len(names)))
                rest   == Len(received) - Len(before) - Len(behind)
            IN  IF pc = "returned"
                THEN /\ rest \in 0 .. 1
                     /\ SubSeq(received, 1, Len(before)) = before
                     /\ SubSeq(received, Len(before) + rest + 1, Len(received)) = behind
                ELSE \/ chunk[i].damage[k].byte = TS_PACKET_HEADER_SIZE
                     \/ Packets[names[j]].reads = <<>>
                     \/ /\ chunk[i].damage[k].byte > TS_PACKET_HEADER_SIZE
                        /\ Packets[names[j]].reads[1].packet.payload = <<>>
=============================================================================
