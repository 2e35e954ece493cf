---------------------------- MODULE TSDescriptor ----------------------------
(***************************************************************************)
(* TSDescriptor and its subclasses: what is read of a descriptor whose     *)
(* payload has been cut out of a descriptor loop.  Constant-level.         *)
(*                                                                         *)
(* Making a descriptor returns <<descriptor>>, or <<>> for nil, so that    *)
(* adding it to an array unless it is nil is a concatenation.  A           *)
(* descriptor is a record of its tag, its length and the properties of its *)
(* class; text is the bytes it is decoded from.                            *)
(***************************************************************************)
EXTENDS TSBitReader

\* The tags that the enumerations name.
TSH2220DescriptorTag == (0 .. 18) \cup (27 .. 63)
TSDvbDescriptorTag == 64 .. 127
TSScte35DescriptorTag == {138}
TSST2038DescriptorTag == {196}
TSAtscDescriptorTag == (160 .. 163) \cup {135}

NamedTags == UNION {TSH2220DescriptorTag, TSDvbDescriptorTag, TSScte35DescriptorTag,
                    TSST2038DescriptorTag, TSAtscDescriptorTag}

TSDescriptorTagAudioStream == 3
TSDescriptorTagRegistration == 5
TSDescriptorTagISO639Language == 10
TSDescriptorTagMPEG4Audio == 28
TSDescriptorTagMPEG2AACAudio == 43
TSDvbDescriptorTagVBITeletext == 70
TSDvbDescriptorTagService == 72
TSDvbDescriptorTagTeletext == 86
TSDvbDescriptorTagSubtitling == 89
TSDvbDescriptorTagAC3 == 106
TSDvbDescriptorTagEnhancedAC3 == 122
TSDvbDescriptorTagAAC == 124
TSScte35DescriptorTagCueIdentifier == 138
TSAtscDescriptorTagServiceLocation == 161

-----------------------------------------------------------------------------
(* The classes *)

Text == Seq(Byte)

PlainDescriptors == [tag : Byte, length : Byte]

TSRegistrationDescriptors ==
    [tag : {TSDescriptorTagRegistration}, length : Byte,
     formatIdentifier : Seq(Byte), additionalIdentificationInfo : Seq(Byte)]

TSISO639LanguageDescriptorEntries == [languageCode : Text, audioType : Byte]

TSISO639LanguageDescriptors ==
    [tag : {TSDescriptorTagISO639Language}, length : Byte,
     entries : Seq(TSISO639LanguageDescriptorEntries)]

TSDvbServiceDescriptors ==
    [tag : {TSDvbDescriptorTagService}, length : Byte, serviceType : Byte,
     serviceProviderName : Text, serviceName : Text]

TSScte35CueIdentifierDescriptors ==
    [tag : {TSScte35DescriptorTagCueIdentifier}, length : Byte, cueStreamType : Byte]

TSAtscServiceLocationElements ==
    [streamType : Byte, elementaryPid : Bits(13), languageCode : Text]

TSAtscServiceLocationDescriptors ==
    [tag : {TSAtscDescriptorTagServiceLocation}, length : Byte, pcrPid : Bits(13),
     elements : Seq(TSAtscServiceLocationElements)]

TSDescriptors ==
    PlainDescriptors \cup TSRegistrationDescriptors \cup TSISO639LanguageDescriptors
        \cup TSDvbServiceDescriptors \cup TSScte35CueIdentifierDescriptors
        \cup TSAtscServiceLocationDescriptors

\* The bytes without the zeros at both ends.
Trimmed(text) ==
    LET shown == {i \in DOMAIN text : text[i] # 0}
        first == CHOOSE i \in shown : \A j \in shown : i <= j
        last  == CHOOSE i \in shown : \A j \in shown : i >= j
    IN  IF shown = {} THEN <<>> ELSE SubSeq(text, first, last)

\* Text that is not ASCII is no string, which the callers replace by an empty one.
AsciiOf(text) == IF \E i \in DOMAIN text : text[i] > 127 THEN <<>> ELSE text

TSRegistrationDescriptor(tag, payload) ==
    LET id   == ReadUInt32BE(Make(payload))
        info == ReadData(id, RemainingBytes(id))
    IN  IF id.error THEN <<>>
        ELSE <<[tag |-> tag, length |-> Len(payload),
                formatIdentifier |-> id.data, additionalIdentificationInfo |-> info.data]>>

LanguageEntry(r) ==
    LET code == ReadData(r, 3)
        type == ReadUInt8(code)
    IN  [languageCode |-> code.data, audioType |-> type.value]

\* As many entries as are complete; never nil.
TSISO639LanguageDescriptor(tag, payload) ==
    <<[tag |-> tag, length |-> Len(payload),
       entries |-> [i \in 1 .. Len(payload) \div 4 |->
                        LanguageEntry(Skip(Make(payload), 4 * (i - 1)))]]>>

\* A name: its length, and its bytes unless there are none.
ReadName(r) ==
    LET length == ReadUInt8(r)
    IN  IF length.value > 0 THEN ReadData(length, length.value)
        ELSE [length EXCEPT !.data = <<>>]

TSDvbServiceDescriptor(tag, payload) ==
    LET type     == ReadUInt8(Make(payload))
        provider == ReadName(type)
        service  == ReadName(provider)
    IN  IF service.error THEN <<>>
        ELSE <<[tag |-> tag, length |-> Len(payload), serviceType |-> type.value,
                serviceProviderName |-> provider.data, serviceName |-> service.data]>>

TSScte35CueIdentifierDescriptor(tag, payload) ==
    LET type == ReadUInt8(Make(payload))
    IN  IF type.error THEN <<>>
        ELSE <<[tag |-> tag, length |-> Len(payload), cueStreamType |-> type.value]>>

LocationElement(r) ==
    LET type == ReadUInt8(r)
        pid  == ReadBits(ReadBits(type, 3), 13)
        lang == ReadData(pid, 3)
    IN  [streamType |-> type.value, elementaryPid |-> pid.value,
         languageCode |-> Trimmed(AsciiOf(lang.data))]

\* As many of the announced elements as the payload has.
TSAtscServiceLocationDescriptor(tag, payload) ==
    LET pid   == ReadBits(ReadBits(Make(payload), 3), 13)
        count == ReadUInt8(pid)
        whole == RemainingBytes(count) \div 6
        read  == IF count.value <= whole THEN count.value ELSE whole
    IN  IF count.error THEN <<>>
        ELSE <<[tag |-> tag, length |-> Len(payload), pcrPid |-> pid.value,
                elements |-> [i \in 1 .. read |->
                                  LocationElement(Skip(count, 6 * (i - 1)))]]>>

\* The payload of any other descriptor is dropped.
makeWithTag(tag, payload) ==
    CASE tag = TSDescriptorTagRegistration -> TSRegistrationDescriptor(tag, payload)
      [] tag = TSDescriptorTagISO639Language -> TSISO639LanguageDescriptor(tag, payload)
      [] tag = TSDvbDescriptorTagService -> TSDvbServiceDescriptor(tag, payload)
      [] tag = TSScte35DescriptorTagCueIdentifier -> TSScte35CueIdentifierDescriptor(tag, payload)
      [] tag = TSAtscDescriptorTagServiceLocation -> TSAtscServiceLocationDescriptor(tag, payload)
      [] OTHER -> <<[tag |-> tag, length |-> Len(payload)]>>

isAudioDescriptor(tag) ==
    tag \in {TSDescriptorTagAudioStream, TSDescriptorTagMPEG4Audio,
             TSDescriptorTagMPEG2AACAudio, TSDvbDescriptorTagAAC, TSDvbDescriptorTagAC3,
             TSDvbDescriptorTagEnhancedAC3}

-----------------------------------------------------------------------------
(* The descriptor loop that the PMT, the SDT and the VCT share *)

\* One turn at reader r: the descriptor that was read, <<>> if it was nil, and where the
\* reader is then.  A payload that r does not have ends the loop.
DescriptorTurn(r) ==
    LET tag    == ReadUInt8(r)
        length == ReadUInt8(tag)
        fits   == ~length.error /\ RemainingBytes(length) >= length.value
        read   == IF length.value > 0 THEN ReadData(length, length.value)
                  ELSE [length EXCEPT !.data = <<>>]
    IN  IF fits
        THEN [reader |-> read, truncated |-> FALSE, made |-> makeWithTag(tag.value, read.data)]
        ELSE [reader |-> length, truncated |-> TRUE, made |-> <<>>]

=============================================================================
