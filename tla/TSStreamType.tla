---------------------------- MODULE TSStreamType ----------------------------
(***************************************************************************)
(* TSStreamType, and TSElementaryStream as the PMT reads it: what a stream *)
(* contains, told from the stream type and the descriptors of its PMT      *)
(* entry.  Constant-level.                                                 *)
(***************************************************************************)
EXTENDS TSDescriptor

kRawStreamTypePrivateData == 6

\* ASCII "BSSD".
kFormatIdentifierBSSD == <<66, 83, 83, 68>>

AudioStreamTypes == {"MPEG1Audio", "MPEG2Audio", "AAC_ADTS", "AAC_LATM", "AC3", "EAC3", "SMPTE302M"}
VideoStreamTypes == {"MPEG2Video", "H264", "H265"}

TSResolvedStreamType ==
    {"Unknown", "SCTE35", "Teletext", "Subtitles"} \cup AudioStreamTypes \cup VideoStreamTypes

isAudio(resolved) == resolved \in AudioStreamTypes
isVideo(resolved) == resolved \in VideoStreamTypes

\* The raw stream types that need no descriptor.
DirectType(streamType) ==
    CASE streamType = 2 -> "MPEG2Video"
      [] streamType = 3 -> "MPEG1Audio"
      [] streamType = 4 -> "MPEG2Audio"
      [] streamType = 15 -> "AAC_ADTS"
      [] streamType = 17 -> "AAC_LATM"
      [] streamType = 27 -> "H264"
      [] streamType = 36 -> "H265"
      [] streamType = 129 -> "AC3"
      [] streamType = 134 -> "SCTE35"
      [] streamType = 135 -> "EAC3"
      [] OTHER -> "Unknown"

\* What a descriptor says of a stream of private data.
SignalledBy(d) ==
    CASE /\ d.tag = TSDescriptorTagRegistration
         /\ d.formatIdentifier = kFormatIdentifierBSSD -> "SMPTE302M"
      [] d.tag = TSDvbDescriptorTagAC3 -> "AC3"
      [] d.tag = TSDvbDescriptorTagEnhancedAC3 -> "EAC3"
      [] d.tag \in {TSDvbDescriptorTagTeletext, TSDvbDescriptorTagVBITeletext} -> "Teletext"
      [] d.tag = TSDvbDescriptorTagSubtitling -> "Subtitles"
      [] OTHER -> "Unknown"

\* Mutant: the last descriptor that says something decides.
ResolvedByLast(streamType, descriptors) ==
    LET telling == {i \in DOMAIN descriptors : SignalledBy(descriptors[i]) # "Unknown"}
    IN  IF streamType # kRawStreamTypePrivateData THEN DirectType(streamType)
        ELSE IF telling = {} THEN "Unknown"
        ELSE SignalledBy(descriptors[CHOOSE i \in telling : \A j \in telling : i >= j])

\* Of a stream of private data, the first descriptor that says something decides.
resolveStreamType(streamType, descriptors) ==
    LET telling == {i \in DOMAIN descriptors : SignalledBy(descriptors[i]) # "Unknown"}
    IN  IF streamType # kRawStreamTypePrivateData THEN DirectType(streamType)
        ELSE IF telling = {} THEN "Unknown"
        ELSE SignalledBy(descriptors[CHOOSE i \in telling : \A j \in telling : i <= j])

\* The stream_id of the PES packets of a stream.
streamIdFromStreamType(streamType) ==
    CASE streamType \in {3, 4, 15, 17} -> 192
      [] streamType \in {2, 27, 36} -> 224
      [] OTHER -> 189

(* Elementary streams *)

TSElementaryStreams == [pid : Bits(13), streamType : Byte, descriptors : Seq(TSDescriptors)]

resolvedStreamType(es) == resolveStreamType(es.streamType, es.descriptors)

=============================================================================
