---------------------------- MODULE TSPesHeader ----------------------------
(***************************************************************************)
(* TSAccessUnit and TSPesHeader: the PES packet that is made of an access  *)
(* unit, and what is read of the transport packet that a PES packet begins *)
(* in.  Constant-level.                                                    *)
(*                                                                         *)
(* Times are in the 90 kHz of the transport stream and relative to the     *)
(* epoch, of which only 33 bits are written: a time is those bits, in the  *)
(* three groups that the format has, and <<>> stands for no time.          *)
(***************************************************************************)
EXTENDS TSStreamType

Timestamps == [bits32_30 : Bits(3), bits29_15 : Bits(15), bits14_0 : Bits(15)]

TSAccessUnits ==
    [pid : Bits(13), pts : Seq(Timestamps), dts : Seq(Timestamps),
     isDiscontinuous : BOOLEAN, isRandomAccessPoint : BOOLEAN, streamType : Byte,
     compressedData : Seq(Byte)]

TSPesHeaders ==
    [pts : Seq(Timestamps), dts : Seq(Timestamps), isDiscontinuous : BOOLEAN,
     payloadOffset : Nat, pesPacketLength : Bits(16)]

TIMESTAMP_LENGTH == 5

-----------------------------------------------------------------------------
(* The writer *)

\* Five bytes: a prefix of four bits, and a marker bit behind every group.
TimestampBytes(prefix, t) ==
    <<16 * prefix + 2 * t.bits32_30 + 1,
      t.bits29_15 \div 128, 2 * (t.bits29_15 % 128) + 1,
      t.bits14_0 \div 128, 2 * (t.bits14_0 % 128) + 1>>

\* A decode time is written with a presentation time only.
HasDts(au) == au.pts # <<>> /\ au.dts # <<>>

TimestampsLength(au) ==
    IF au.pts = <<>> THEN 0 ELSE IF HasDts(au) THEN 2 * TIMESTAMP_LENGTH ELSE TIMESTAMP_LENGTH

\* The bytes behind the length field, or 0 when that cannot tell so many.
PesPacketLength(au) ==
    LET total == 3 + TimestampsLength(au) + Len(au.compressedData)
    IN  IF total > 65535 THEN 0 ELSE total

\* toTsPacketPayloadWithEpoch
PesPacket(au) ==
    LET length == PesPacketLength(au)
        prefix == IF HasDts(au) THEN 3 ELSE 2
    IN  <<0, 0, 1, streamIdFromStreamType(au.streamType), length \div 256, length % 256, 132,
          IF au.pts = <<>> THEN 0 ELSE 64 * prefix, TimestampsLength(au)>>
        \o (IF au.pts # <<>> THEN TimestampBytes(prefix, au.pts[1]) ELSE <<>>)
        \o (IF HasDts(au) THEN TimestampBytes(1, au.dts[1]) ELSE <<>>)
        \o au.compressedData

-----------------------------------------------------------------------------
(* The reader *)

\* The stream_ids of PES packets without flags and times.
streamIdHasNoOptionalHeader(id) == id \in {188, 190, 191, 240, 241, 242, 248, 255}

\* The next n bits of a time, and whether a marker follows them.
ReadGroup(r, n) ==
    LET group  == ReadBits(r, n)
        marker == ReadBits(group, 1)
    IN  [bits |-> group.value, marked |-> marker.value = 1, reader |-> marker]

\* The time that r is on, <<>> unless it has its prefix and its markers, and r behind it.
ParseTimestamp(r, expectedPrefix) ==
    LET prefix == ReadBits(r, 4)
        high   == ReadGroup(prefix, 3)
        middle == ReadGroup(high.reader, 15)
        low    == ReadGroup(middle.reader, 15)
        valid  == /\ ~low.reader.error /\ prefix.value = expectedPrefix
                  /\ high.marked /\ middle.marked /\ low.marked
    IN  IF ~HasBits(r, 40) THEN [reader |-> r, time |-> <<>>]
        ELSE [reader |-> low.reader,
              time   |-> IF valid THEN <<[bits32_30 |-> high.bits, bits29_15 |-> middle.bits,
                                          bits14_0 |-> low.bits]>>
                         ELSE <<>>]

\* parseFromPacket of a payload, in a packet with the discontinuity flag disc; <<>> for nil.
ParseFromPayload(payload, disc) ==
    LET startCode == ReadData(Make(payload), 3)
        streamId  == ReadUInt8(startCode)
        length    == ReadUInt16BE(streamId)
        hasPts    == ReadBits(Skip(length, 1), 1)
        hasDts    == ReadBits(hasPts, 1)
        dataLength == ReadUInt8(SkipBits(hasDts, 6))
        pts       == ParseTimestamp(dataLength, IF hasDts.value # 0 THEN 3 ELSE 2)
        dts       == ParseTimestamp(pts.reader, 1)
        header(presented, decoded, offset) ==
            <<[pts |-> presented, dts |-> decoded, isDiscontinuous |-> disc,
               payloadOffset |-> offset, pesPacketLength |-> length.value]>>
    IN  IF Len(payload) < 6 \/ startCode.data # <<0, 0, 1>> THEN <<>>
        ELSE IF streamIdHasNoOptionalHeader(streamId.value) THEN header(<<>>, <<>>, 6)
        ELSE IF \/ Len(payload) < 9
                \/ 9 + dataLength.value > Len(payload)
                \/ hasPts.value # 0 /\ Len(payload) < 9 + TIMESTAMP_LENGTH
                \/ hasDts.value # 0 /\ Len(payload) < 9 + 2 * TIMESTAMP_LENGTH
             THEN <<>>
        ELSE header(IF hasPts.value # 0 THEN pts.time ELSE <<>>,
                    IF hasPts.value # 0 /\ hasDts.value # 0 THEN dts.time ELSE <<>>,
                    9 + dataLength.value)

=============================================================================
