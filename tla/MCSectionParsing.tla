-------------------------- MODULE MCSectionParsing --------------------------
(* Sections for SectionParsing: those the muxer writes, and those of other senders. *)
EXTENDS SectionParsing

SomeBytes == {0, 1, 4, 9, 80, 127, 255}

Header(first) == [byte4And5 |-> first, versionNumber |-> 21, currentNextIndicator |-> TRUE,
                  sectionNumber |-> 0, lastSectionNumber |-> 0]

Bytes(tag, payload) == <<tag, Len(payload)>> \o payload

\* Descriptors: their bytes, and what is to be read of them.
Ac3 == [bytes |-> Bytes(106, <<64>>), reads |-> <<[tag |-> 106, length |-> 1]>>]

Teletext == [bytes |-> Bytes(86, <<>>), reads |-> <<[tag |-> 86, length |-> 0]>>]

Bssd ==
    [bytes |-> Bytes(5, kFormatIdentifierBSSD \o <<7>>),
     reads |-> <<[tag |-> 5, length |-> 5, formatIdentifier |-> kFormatIdentifierBSSD,
                  additionalIdentificationInfo |-> <<7>>]>>]

ShortRegistration == [bytes |-> Bytes(5, <<66, 83>>), reads |-> <<>>]

English ==
    [bytes |-> Bytes(10, <<101, 110, 103, 3>>),
     reads |-> <<[tag |-> 10, length |-> 4,
                  entries |-> <<[languageCode |-> <<101, 110, 103>>, audioType |-> 3]>>]>>]

Cue == [bytes |-> Bytes(138, <<1>>),
        reads |-> <<[tag |-> 138, length |-> 1, cueStreamType |-> 1]>>]

Service(name) ==
    [bytes |-> Bytes(72, <<1, 1, 80, 2>> \o name),
     reads |-> <<[tag |-> 72, length |-> 6, serviceType |-> 1,
                  serviceProviderName |-> <<80>>, serviceName |-> name]>>]

Location ==
    [bytes |-> Bytes(161, <<225, 0, 1, 27, 225, 1, 101, 110, 0>>),
     reads |-> <<[tag |-> 161, length |-> 9, pcrPid |-> 256,
                  elements |-> <<[streamType |-> 27, elementaryPid |-> 257,
                                  languageCode |-> <<101, 110>>]>>]>>]

AllBytes(descriptors) == FlattenSeq([i \in DOMAIN descriptors |-> descriptors[i].bytes])
AllReads(descriptors) == FlattenSeq([i \in DOMAIN descriptors |-> descriptors[i].reads])

-----------------------------------------------------------------------------

Table(tableKind, header, rest, tableEntries, descriptors) ==
    [kind |-> tableKind, header |-> header, head |-> CommonSectionData(header) \o rest,
     entries |-> tableEntries, programDescriptors |-> AllReads(descriptors),
     pcrPid |-> 300, networkId |-> 8468]

Program(number, pid) ==
    [bytes |-> ProgramBytes([programNumber |-> number, pmtPid |-> pid]), framing |-> {},
     reads |-> [programNumber |-> number, pmtPid |-> pid]]

MuxedPat == Table("PAT", Header(513), <<>>, <<Program(1, 4096)>>, <<>>)
Pat == Table("PAT", Header(513), <<>>, <<Program(0, 16), Program(257, 4097), Program(2, 33)>>, <<>>)

Es(type, pid) == [pid |-> pid, streamType |-> type, descriptors |-> <<>>]

\* The last bytes of an entry's header are the length of its descriptors.
EsEntry(type, pid, descriptors, codec, told) ==
    LET es == StreamBytes(Es(type, pid))
    IN  [bytes |-> [es EXCEPT ![5] = Len(AllBytes(descriptors))] \o AllBytes(descriptors),
         framing |-> {4, 5}, codec |-> codec,
         telling |-> 5 + Len(AllBytes(SubSeq(descriptors, 1, told))),
         reads |-> [pid |-> pid, streamType |-> type, descriptors |-> AllReads(descriptors)]]

MuxedEntry(es) == EsEntry(es.streamType, es.pid, <<>>, DirectType(es.streamType), 0)

MuxedPmt ==
    LET streams == SortedStreams({Es(27, 300), Es(15, 257)})
    IN  Table("PMT", Header(1), PmtHeaderBytes(300),
              [i \in DOMAIN streams |-> MuxedEntry(streams[i])], <<>>)

Pmt(descriptors, streams) ==
    Table("PMT", Header(1), <<225, 44, 240, Len(AllBytes(descriptors))>> \o AllBytes(descriptors),
          streams, descriptors)

DvbPmt ==
    Pmt(<<>>, <<EsEntry(6, 257, <<English, Ac3, Bssd>>, "AC3", 2),
                EsEntry(27, 300, <<>>, "H264", 0),
                EsEntry(6, 258, <<Bssd, Teletext>>, "SMPTE302M", 1)>>)

SctePmt ==
    Pmt(<<Cue, ShortRegistration, Bssd>>,
        <<EsEntry(134, 500, <<Cue>>, "SCTE35", 0),
          EsEntry(6, 258, <<ShortRegistration, Teletext, English>>, "Teletext", 2)>>)

\* The lengths of the descriptors are framing, too.
ServiceEntry(id, descriptors) ==
    LET at(k) == 5 + Len(AllBytes(SubSeq(descriptors, 1, k - 1))) + 2
    IN  [bytes |-> <<id \div 256, id % 256, 254, 144, Len(AllBytes(descriptors))>>
                       \o AllBytes(descriptors),
         framing |-> {4, 5} \cup {at(k) : k \in DOMAIN descriptors},
         reads |-> [serviceId |-> id, eitScheduleFlag |-> TRUE, eitPresentFollowingFlag |-> FALSE,
                    runningStatus |-> 4, freeCaMode |-> TRUE,
                    descriptors |-> AllReads(descriptors)]]

Sdt == Table("SDT", Header(513), <<33, 20, 255>>,
             <<ServiceEntry(257, <<Service(<<65, 66>>), Ac3>>), ServiceEntry(2, <<>>),
               ServiceEntry(3, <<Service(<<67, 68>>)>>)>>, <<>>)

\* "AB", 12.3 of program 258, access controlled, digital television, source 5.
ChannelEntry(program, descriptors) ==
    [bytes |-> <<0, 65, 0, 66, 0, 0, 0, 0, 0, 0, 0, 0, 0, 0, 240, 48, 3, 4, 0, 0, 0, 0, 2, 1,
                 program \div 256, program % 256, 35, 194, 0, 5, 252, Len(AllBytes(descriptors))>>
                   \o AllBytes(descriptors),
     framing |-> {31, 32},
     reads |-> [shortName |-> <<65, 66>>, majorChannelNumber |-> 12, minorChannelNumber |-> 3,
                programNumber |-> program, accessControlled |-> TRUE, hidden |-> FALSE,
                hideGuide |-> TRUE, serviceType |-> 2, sourceId |-> 5,
                serviceLocation |-> IF descriptors = <<>> THEN <<>> ELSE Location.reads]]

Vct == Table("VCT", Header(513), <<0, 3>>,
             <<ChannelEntry(258, <<Location, English>>), ChannelEntry(3, <<>>),
               ChannelEntry(4, <<Cue, Location>>)>>, <<>>)

SomeTables == {MuxedPat, Pat, MuxedPmt, DvbPmt, SctePmt, Sdt, Vct}

=============================================================================
