-------------------------- MODULE MCChunkReception --------------------------
(* Packets for ChunkReception: those the muxer sends, and those of other senders. *)
EXTENDS ChunkReception

Time(high, middle, low) == <<[bits32_30 |-> high, bits29_15 |-> middle, bits14_0 |-> low]>>

AccessUnit(pid, type, pts, dts, size) ==
    [pid |-> pid, pts |-> pts, dts |-> dts, isDiscontinuous |-> FALSE,
     isRandomAccessPoint |-> FALSE, streamType |-> type,
     compressedData |-> [i \in 1 .. size |-> i % 256]]

\* The largest and the smallest times; an audio unit whose PES packet leaves one byte to stuff;
\* a unit without a presentation time; PES packets as long as the length can tell, and longer.
Video == [AccessUnit(257, 27, Time(7, 32767, 32767), Time(7, 32767, 16384), 400)
             EXCEPT !.isRandomAccessPoint = TRUE]
Audio == AccessUnit(258, 15, Time(0, 0, 129), <<>>, 169)
Private == AccessUnit(8190, 6, <<>>, Time(1, 1, 1), 5)
Splice == [AccessUnit(259, 36, Time(4, 16385, 128), Time(4, 127, 127), 90)
              EXCEPT !.isDiscontinuous = TRUE]
Longest == AccessUnit(257, 27, Time(2, 255, 256), <<>>, 65527)
TooLong == AccessUnit(257, 27, Time(2, 255, 257), <<>>, 65528)

SomePcr == [base |-> <<255, 0, 128, 1>>, lastBit |-> 1, ext |-> 299]

\* The header that is meant to be read of a unit.
HeaderFor(au, length) ==
    [pts |-> au.pts, dts |-> IF au.pts = <<>> THEN <<>> ELSE au.dts,
     isDiscontinuous |-> au.isDiscontinuous,
     payloadOffset |-> 9 + (IF au.pts = <<>> THEN 0 ELSE IF au.dts = <<>> THEN 5 ELSE 10),
     pesPacketLength |-> length]

Sent(packet, pesHeader) ==
    [bytes |-> BytesOfPacket(packet), reads |-> <<[packet |-> packet, pesHeader |-> pesHeader]>>]

\* The packet of a unit that begins behind the first `from` bytes of its PES packet.
PacketFrom(au, length, pcr, cc, from) ==
    LET payload == PesPacket(au)
        flags   == [pcr |-> pcr, disc |-> au.isDiscontinuous, rai |-> au.isRandomAccessPoint]
        p       == PacketOf(Len(payload), Len(payload) - from, from = 0, flags, cc)
    IN  Sent(MuxedPacket(p, au.pid, SomePcr, payload),
             IF from = 0 THEN <<HeaderFor(au, length)>> ELSE <<>>)

\* Packets that the muxer does not send.
Header(pid, pusi, mode) ==
    [syncByte |-> TS_PACKET_HEADER_SYNC_BYTE, transportErrorIndicator |-> FALSE,
     payloadUnitStartIndicator |-> pusi, transportPriority |-> TRUE, pid |-> pid,
     isScrambled |-> TRUE, adaptationMode |-> mode, continuityCounter |-> 9]

Foreign(header, field, fieldBytes, payload, pesHeader) ==
    [bytes |-> HeaderBytes(header) \o fieldBytes \o payload,
     reads |-> <<[packet |-> [header |-> header, adaptationField |-> field,
                              payload |-> <<payload>>],
                  pesHeader |-> pesHeader]>>]

Filler(n) == [i \in 1 .. n |-> 90]

NoTimes(offset, length) ==
    [pts |-> <<>>, dts |-> <<>>, isDiscontinuous |-> FALSE, payloadOffset |-> offset,
     pesPacketLength |-> length]

\* A field with everything: 6 bytes of OPCR, a splice countdown, two private bytes, an
\* extension of one, and three to stuff; a PES packet of a private_stream_2.
FullField ==
    LET bytes == <<29, 191>> \o PcrBytesOf(SomePcr) \o Filler(6) \o <<4>> \o <<2, 1, 2>>
                     \o <<1, 0>> \o Filler(10)
    IN  Foreign(Header(300, TRUE, 3),
                <<[adaptationFieldLength |-> 29, flags |-> Range(FlagNames) \ {"randomAccess"},
                   pcr |-> SomePcr, numberOfStuffedBytes |-> 10]>>,
                bytes, <<0, 0, 1, 191, 0, 150>> \o Filler(148),
                <<[NoTimes(6, 150) EXCEPT !.isDiscontinuous = TRUE]>>)

\* More header data than the times take.
PaddedPes ==
    Foreign(Header(301, TRUE, 1), <<>>, <<>>,
            <<0, 0, 1, 224, 0, 0, 128, 128, 8>> \o TimestampBytes(2, Time(3, 5, 9)[1])
                \o <<255, 255, 255>> \o Filler(167),
            <<[NoTimes(17, 0) EXCEPT !.pts = Time(3, 5, 9)]>>)

\* A time without a marker bit is none; the one behind it is read.
UnmarkedPes ==
    Foreign(Header(301, TRUE, 1), <<>>, <<>>,
            <<0, 0, 1, 224, 0, 0, 128, 192, 10>> \o <<49, 0, 0, 0, 1>>
                \o TimestampBytes(1, Time(3, 5, 8)[1]) \o Filler(165),
            <<[NoTimes(19, 0) EXCEPT !.dts = Time(3, 5, 8)]>>)

\* A PES header that does not fit its packet.
CutPes ==
    Foreign(Header(301, TRUE, 3),
            <<[adaptationFieldLength |-> 170, flags |-> {}, pcr |-> NoPcrValue,
               numberOfStuffedBytes |-> 169]>>,
            <<170, 0>> \o Filler(169),
            <<0, 0, 1, 224, 0, 0, 128, 128, 5, 33, 0, 1, 0>>, <<>>)

Erroneous ==
    [bytes |-> HeaderBytes([Header(257, FALSE, 1) EXCEPT !.transportErrorIndicator = TRUE])
                   \o Filler(184),
     reads |-> <<>>]

\* A field that leaves nothing for the payload.
Payloadless ==
    [bytes |-> HeaderBytes(Header(257, FALSE, 3)) \o <<183, 0>> \o Filler(182), reads |-> <<>>]

NullPacket ==
    LET header == [Header(8191, FALSE, 1) EXCEPT !.transportPriority = FALSE,
                      !.isScrambled = FALSE, !.continuityCounter = 0]
    IN  [bytes |-> nullPacketData,
         reads |-> <<[packet |-> [header |-> header, adaptationField |-> <<>>,
                                  payload |-> <<[i \in 1 .. 184 |-> 255]>>],
                      pesHeader |-> <<>>]>>]

\* The muxer's packets, each evaluated once.
VideoFirst == PacketFrom(Video, 413, TRUE, 15, 0)
VideoRest == PacketFrom(Video, 413, TRUE, 0, 176)
VideoEnd == PacketFrom(Video, 413, TRUE, 1, 360)
AudioPacket == PacketFrom(Audio, 177, FALSE, 3, 0)
PrivatePacket == PacketFrom(Private, 8, FALSE, 4, 0)
SplicePacket == PacketFrom(Splice, 103, FALSE, 5, 0)
LongestFirst == PacketFrom(Longest, 65535, FALSE, 2, 0)
TooLongFirst == PacketFrom(TooLong, 0, FALSE, 2, 0)
PcrPacket == Sent(MuxedPacket(PcrPacketOf(7), 257, SomePcr, <<>>), <<>>)

MCPackets ==
    [video |-> VideoFirst, videoRest |-> VideoRest, videoEnd |-> VideoEnd, audio |-> AudioPacket,
     private |-> PrivatePacket, splice |-> SplicePacket, longest |-> LongestFirst,
     tooLong |-> TooLongFirst, pcr |-> PcrPacket, null |-> NullPacket, full |-> FullField,
     padded |-> PaddedPes, unmarked |-> UnmarkedPes, cut |-> CutPes, erroneous |-> Erroneous,
     payloadless |-> Payloadless]

ASSUME PacketsAreReadAlone == \A name \in DOMAIN MCPackets : IsReadAlone(name)

Chunk(names) == [packets |-> names, missing |-> 0, damage |-> <<>>]

Repeated(n) == Chunk([i \in 1 .. n |-> IF i % 2 = 0 THEN "audio" ELSE "null"])

MCChunks ==
    UNION {
        {Chunk(<<p, q>>) : p \in DOMAIN MCPackets, q \in DOMAIN MCPackets},
        {Chunk(<<>>), Chunk(<<"pcr">>), Repeated(47), Repeated(51), Repeated(94)},
        {[Chunk(<<"audio", "null">>) EXCEPT !.missing = m] : m \in {1, 172, 188}},
        {[Chunk(<<"audio", p, "pcr">>) EXCEPT !.damage = <<[packet |-> 2, byte |-> i, value |-> v]>>] :
            p \in {"video", "audio", "pcr", "null", "full", "splice"},
            i \in 1 .. 20, v \in {0, 7, 16, 32, 48, 128, 183, 184, 255}}}

=============================================================================
