-------------------------- MODULE TSServiceTables --------------------------
(***************************************************************************)
(* TSDvbServiceDescriptionTable and TSAtscVirtualChannelTable: one turn of *)
(* the loops that read the services of a DVB and the channels of an ATSC   *)
(* transport stream.  Constant-level.                                      *)
(***************************************************************************)
EXTENDS TSProgramSpecificInformationTable

-----------------------------------------------------------------------------
(* The SDT *)

SdtHeaderLength == 8
MinimumServiceLength == 5

TSDvbServiceDescriptionEntries ==
    [serviceId : Bits(16), eitScheduleFlag : BOOLEAN, eitPresentFollowingFlag : BOOLEAN,
     runningStatus : Bits(3), freeCaMode : BOOLEAN, descriptors : Seq(TSDescriptors)]

originalNetworkId(section) == ReadUInt16BE(Skip(Make(section), 5)).value

SdtReader(section) == Skip(Make(section), SdtHeaderLength)

ReadService(r) ==
    LET id     == ReadUInt16BE(r)
        flags  == ReadUInt8(id)
        status == ReadUInt16BE(flags)
    IN  [reader |-> status, descriptorsLength |-> status.value % 4096,
         entry  |-> [serviceId |-> id.value,
                     eitScheduleFlag |-> (flags.value \div 2) % 2 = 1,
                     eitPresentFollowingFlag |-> flags.value % 2 = 1,
                     runningStatus |-> status.value \div 8192,
                     freeCaMode |-> (status.value \div 4096) % 2 = 1,
                     descriptors |-> <<>>]]

-----------------------------------------------------------------------------
(* The VCT *)

ChannelLength == 32

\* A channel's short name is the seven UTF-16 units it comes in, without zeros at the ends;
\* of its descriptors a channel keeps the service location, <<>> for nil.
TSAtscVirtualChannels ==
    [shortName : Seq(Bits(16)), majorChannelNumber : Bits(10), minorChannelNumber : Bits(10),
     programNumber : Bits(16), accessControlled : BOOLEAN, hidden : BOOLEAN,
     hideGuide : BOOLEAN, serviceType : Bits(6), sourceId : Bits(16),
     serviceLocation : Seq(TSAtscServiceLocationDescriptors)]

\* Behind the protocol version: the number of channels, and the channels.
NumChannels(section) == ReadUInt8(ReadUInt8(Skip(Make(section), 5)))

Utf16(data) == [i \in 1 .. Len(data) \div 2 |-> data[2 * i - 1] * 256 + data[2 * i]]

\* Mutant: the reserved bits in front of the channel numbers are not counted.
ChannelFieldUnreserved(r, offset, n) ==
    ReadBits(SkipBits(r, IF offset \in 112 .. 135 THEN offset - 4 ELSE offset), n).value

\* The n bits that are read of a channel after the bits before them.
ChannelField(r, offset, n) == ReadBits(SkipBits(r, offset), n).value

\* The fixed part of a channel.  It is there: the loop asks for it before it reads.
ReadChannel(r) ==
    LET field(offset, n) == ChannelField(r, offset, n)
    IN  [reader |-> Skip(r, ChannelLength), descriptorsLength |-> field(246, 10),
         entry  |-> [shortName |-> Trimmed(Utf16(ReadData(r, 14).data)),
                     majorChannelNumber |-> field(116, 10), minorChannelNumber |-> field(126, 10),
                     programNumber |-> field(192, 16),
                     accessControlled |-> field(210, 1) # 0, hidden |-> field(211, 1) # 0,
                     hideGuide |-> field(214, 1) # 0,
                     serviceType |-> field(218, 6), sourceId |-> field(224, 16),
                     serviceLocation |-> <<>>]]

\* The last service location of a channel is the one it keeps.
WithLocation(channel, made) ==
    IF made # <<>> /\ made[1].tag = TSAtscDescriptorTagServiceLocation
    THEN [channel EXCEPT !.serviceLocation = made] ELSE channel

=============================================================================
