--------------------------- MODULE TSPacketBytes ---------------------------
(***************************************************************************)
(* TSPacketHeader, TSAdaptationField and TSPacket as bytes: what getBytes  *)
(* writes, what initWithTsPacketData reads, and one turn of the loop of    *)
(* packetsFromChunkedTsData.  Constant-level.                              *)
(*                                                                         *)
(* What may be nil is a sequence of at most one.                           *)
(***************************************************************************)
EXTENDS TSPacket, TSBitReader, SequencesExt

TS_PACKET_SIZE_204 == 204
TS_PACKET_HEADER_SYNC_BYTE == 71

Bit(condition) == IF condition THEN 1 ELSE 0

-----------------------------------------------------------------------------
(* The header *)

TSAdaptationModeReserved == 0
TSAdaptationModePayloadOnly == 1
TSAdaptationModeAdaptationOnly == 2
TSAdaptationModeAdaptationAndPayload == 3
TSAdaptationMode == 0 .. 3

TSPacketHeaders ==
    [syncByte : Byte, transportErrorIndicator : BOOLEAN, payloadUnitStartIndicator : BOOLEAN,
     transportPriority : BOOLEAN, pid : Bits(13), isScrambled : BOOLEAN,
     adaptationMode : TSAdaptationMode, continuityCounter : 0 .. 15]

HeaderBytes(h) ==
    <<h.syncByte,
      128 * Bit(h.transportErrorIndicator) + 64 * Bit(h.payloadUnitStartIndicator)
          + 32 * Bit(h.transportPriority) + ((h.pid \div 256) % 32),
      h.pid % 256,
      64 * Bit(h.isScrambled) + 16 * h.adaptationMode + (h.continuityCounter % 16)>>

ReadHeader(bytes) ==
    LET sync     == ReadUInt8(Make(bytes))
        tei      == ReadBits(sync, 1)
        pusi     == ReadBits(tei, 1)
        priority == ReadBits(pusi, 1)
        pid      == ReadBits(priority, 13)
        scramble == ReadBits(pid, 2)
        mode     == ReadBits(scramble, 2)
        cc       == ReadBits(mode, 4)
    IN  [syncByte |-> sync.value, transportErrorIndicator |-> tei.value # 0,
         payloadUnitStartIndicator |-> pusi.value # 0, transportPriority |-> priority.value # 0,
         pid |-> pid.value, isScrambled |-> scramble.value # 0,
         adaptationMode |-> mode.value, continuityCounter |-> cc.value]

-----------------------------------------------------------------------------
(* The adaptation field *)

\* The flags, from the first bit of their byte to the last.
FlagNames == <<"discontinuity", "randomAccess", "esPriority", "pcr", "oPcr", "splicingPoint",
               "transportPrivateData", "adaptationFieldExtension">>

\* A clock reference: of the 33 bits of its base four bytes and a bit, and the extension.
Pcrs == [base : [1 .. 4 -> Byte], lastBit : 0 .. 1, ext : Bits(9)]

NoPcrValue == [base |-> <<0, 0, 0, 0>>, lastBit |-> 0, ext |-> 0]

TSAdaptationFields ==
    [adaptationFieldLength : Byte, flags : SUBSET Range(FlagNames), pcr : Pcrs,
     numberOfStuffedBytes : Nat]

FlagsByte(flags) ==
    LET bit(i) == 2 ^ (8 - i) * Bit(FlagNames[i] \in flags)
    IN  bit(1) + bit(2) + bit(3) + bit(4) + bit(5) + bit(6) + bit(7) + bit(8)

FlagsOf(byte) == {FlagNames[i] : i \in {j \in DOMAIN FlagNames : (byte \div 2 ^ (8 - j)) % 2 = 1}}

\* Base and extension with six reserved bits between them.
PcrBytesOf(pcr) ==
    pcr.base \o <<128 * pcr.lastBit + 126 + pcr.ext \div 256, pcr.ext % 256>>

\* getBytes; the muxer sets no flag whose bytes would be missing here.
AdaptationFieldBytes(f) ==
    <<f.adaptationFieldLength>> \o
    (IF f.adaptationFieldLength = 0 THEN <<>>
     ELSE <<FlagsByte(f.flags)>> \o (IF "pcr" \in f.flags THEN PcrBytesOf(f.pcr) ELSE <<>>)
              \o [i \in 1 .. f.numberOfStuffedBytes |-> 255])

ReadPcr(r) == ReadBits(SkipBits(ReadBits(ReadBits32(r), 1), 6), 9)

PcrRead(r) ==
    [base    |-> ReadBits32(r).data, lastBit |-> ReadBits(ReadBits32(r), 1).value,
     ext     |-> ReadPcr(r).value]

\* r behind what a flag announces: n bits, or a length and as many bytes.
SkipBitsIf(announced, n, r) == IF announced THEN SkipBits(r, n) ELSE r

SkipCounted(length) == Skip(length, length.value)
SkipCountedIf(announced, r) == IF announced THEN SkipCounted(ReadUInt8(r)) ELSE r

\* r, behind the PCR, moved behind the rest of the options.
BehindOptions(flags, r) ==
    SkipCountedIf("adaptationFieldExtension" \in flags,
        SkipCountedIf("transportPrivateData" \in flags,
            SkipBitsIf("splicingPoint" \in flags, 8, SkipBitsIf("oPcr" \in flags, 48, r))))

\* The field whose length was read, and then its flags; <<>> if it does not end in its packet.
FieldOf(length, byte, flags) ==
    LET last    == BehindOptions(flags, IF "pcr" \in flags THEN ReadPcr(byte) ELSE byte)
        stuffed == length - (last.byteOffset - 1)
    IN  IF last.error THEN <<>>
        ELSE <<[adaptationFieldLength |-> length, flags |-> flags,
                pcr |-> IF "pcr" \in flags THEN PcrRead(byte) ELSE NoPcrValue,
                numberOfStuffedBytes |-> IF stuffed > 0 THEN stuffed ELSE 0]>>

\* initWithTsPacketData
ReadAdaptationField(bytes) ==
    LET length == ReadUInt8(MakeWithBytes(SubSeq(bytes, TS_PACKET_HEADER_SIZE + 1, Len(bytes)),
                                          Len(bytes) - TS_PACKET_HEADER_SIZE))
        byte   == IF length.value > 0 THEN ReadBits(length, 8) ELSE length
    IN  FieldOf(length.value, byte, IF length.value > 0 THEN FlagsOf(byte.value) ELSE {})

-----------------------------------------------------------------------------
(* A packet *)

TSPackets ==
    [header : TSPacketHeaders, adaptationField : Seq(TSAdaptationFields),
     payload : Seq(Seq(Byte))]

HasField(header) ==
    header.adaptationMode \in {TSAdaptationModeAdaptationOnly, TSAdaptationModeAdaptationAndPayload}

\* One packet of a chunk, its header and its field read.  Those with a transport error, and
\* those whose field leaves no byte for the payload that they announce, are skipped.
\* initWithHeader makes nil of a packet that is not full: the field of a packet without
\* payload, or a reserved adaptation mode.
TurnWith(bytes, header, field) ==
    LET length   == IF field = <<>> THEN 0 ELSE field[1].adaptationFieldLength
        offset   == TS_PACKET_HEADER_SIZE + Bit(HasField(header)) + length
        payload  == IF header.adaptationMode = TSAdaptationModeAdaptationOnly THEN <<>>
                    ELSE <<SubSeq(bytes, offset + 1, TS_PACKET_SIZE_188)>>
        size     == TS_PACKET_HEADER_SIZE
                        + Bit(header.adaptationMode # TSAdaptationModePayloadOnly) + length
                        + (IF payload = <<>> THEN 0 ELSE Len(payload[1]))
        isSkipped == \/ header.transportErrorIndicator
                     \/ payload # <<>> /\ offset >= TS_PACKET_SIZE_188
    IN  [outcome |-> IF isSkipped THEN "skipped"
                     ELSE IF size # TS_PACKET_SIZE_188 THEN "nil" ELSE "read",
         packet  |-> [header |-> header, adaptationField |-> field, payload |-> payload]]

PacketTurn(bytes) ==
    LET header == ReadHeader(bytes)
    IN  TurnWith(bytes, header, IF HasField(header) THEN ReadAdaptationField(bytes) ELSE <<>>)

-----------------------------------------------------------------------------
(* The packets that the muxer sends *)

\* A packet of packetizePayload or of pcrPacketDataWithPid, as TSPacket has it: p, cut from a
\* payload, on a PID and with a clock reference if its field says so.
MuxedPacket(p, pid, pcr, payload) ==
    [header |->
        [syncByte |-> TS_PACKET_HEADER_SYNC_BYTE, transportErrorIndicator |-> FALSE,
         payloadUnitStartIndicator |-> p.pusi, transportPriority |-> FALSE, pid |-> pid,
         isScrambled |-> FALSE, continuityCounter |-> p.cc,
         adaptationMode |-> IF ~p.payload THEN TSAdaptationModeAdaptationOnly
                            ELSE IF p.field = <<>> THEN TSAdaptationModePayloadOnly
                            ELSE TSAdaptationModeAdaptationAndPayload],
     adaptationField |->
        [i \in DOMAIN p.field |->
            LET f == p.field[i]
            IN  [adaptationFieldLength |-> f.length,
                 flags |-> {flag \in Range(FlagNames) : \/ flag = "discontinuity" /\ f.disc
                                                        \/ flag = "randomAccess" /\ f.rai
                                                        \/ flag = "pcr" /\ f.pcr},
                 pcr |-> IF f.pcr THEN pcr ELSE NoPcrValue,
                 numberOfStuffedBytes |-> f.stuffed]],
     payload |-> IF p.payload THEN <<SubSeq(payload, p.from + 1, p.from + p.bytes)>> ELSE <<>>]

BytesOfPacket(packet) ==
    HeaderBytes(packet.header)
        \o FlattenSeq([i \in DOMAIN packet.adaptationField |->
                           AdaptationFieldBytes(packet.adaptationField[i])])
        \o FlattenSeq(packet.payload)

nullPacketData ==
    <<TS_PACKET_HEADER_SYNC_BYTE, 31, 255, 16>> \o [i \in 1 .. PacketSpace |-> 255]

=============================================================================
