--------------------------- MODULE SectionParsing ---------------------------
(***************************************************************************)
(* A PAT, PMT, SDT or VCT section on its way through the parsers, one turn *)
(* of a loop a step.  The section was written by a sender and may have     *)
(* been damaged since: one byte is another, it ends early, or bytes that   *)
(* are not its own follow, as a damaged section_length has it.  The CRC    *)
(* would tell, but TSPsiTableBuilder does not compare it.                  *)
(***************************************************************************)
EXTENDS TSProgramTables, TSServiceTables

CONSTANTS
    Tables,         \* what was written
    DamagedBytes,   \* the values that a damaged byte may have
    MaxForeign      \* BOUND on the bytes that are not the section's own

\* The entry of a written table: its bytes, what is to be read of it, and the offsets, in its
\* bytes, of the length fields that the rest of the section is found by.  A stream of a PMT
\* has its codec, and as many of its bytes as say so.
ASSUME TablesAssumption ==
    /\ DamagedBytes \subseteq Byte /\ MaxForeign \in Nat
    /\ \A t \in Tables :
          /\ t.kind \in {"PAT", "PMT", "SDT", "VCT"}
          /\ t.head \in Seq(Byte) /\ Len(t.head) >= 5
          /\ t.programDescriptors \in Seq(TSDescriptors)
          /\ t.entries \in Seq(Range(t.entries))
          /\ \A i \in DOMAIN t.entries :
                /\ t.entries[i].bytes \in Seq(Byte)
                /\ t.entries[i].framing \subseteq 1 .. Len(t.entries[i].bytes)
                /\ t.kind = "PMT" =>
                      /\ t.entries[i].codec \in TSResolvedStreamType
                      /\ t.entries[i].telling \in 5 .. Len(t.entries[i].bytes)
                      /\ \A d \in Range(t.entries[i].reads.descriptors) : d.tag \in NamedTags

VARIABLES
    written,            \* the table that was sent
    section,            \* what came of it
    pc,                 \* the loop that the parser is in
    reader, descReader, \* the reader of the section, and that of an entry's descriptors
    left,               \* the entries still announced, in a PAT or a VCT
    descriptorsEnd,     \* where the descriptors of a service end
    entry,              \* <<the entry whose descriptors are read>>
    entries,            \* what was read
    programDescriptors,
    turns               \* the parity of the turns so far

vars == <<written, section, pc, reader, descReader, left, descriptorsEnd, entry, entries,
          programDescriptors, turns>>

kind == written.kind

BytesOf(writtenEntries) ==
    FlattenSeq([i \in DOMAIN writtenEntries |-> writtenEntries[i].bytes])

SectionOf(t) == t.head \o BytesOf(t.entries)

\* Behind a section come its CRC and stuffing.
Damages(bytes) ==
    UNION {{[bytes EXCEPT ![i] = b] : i \in DOMAIN bytes, b \in DamagedBytes},
           {SubSeq(bytes, 1, n) : n \in 0 .. Len(bytes)},
           {bytes \o [i \in 1 .. n |-> 255] : n \in 1 .. MaxForeign}}

Init ==
    /\ written \in Tables
    /\ section \in Damages(SectionOf(written))
    /\ pc = "start" /\ reader = Make(<<>>) /\ descReader = Make(<<>>)
    /\ left = 0 /\ descriptorsEnd = 0
    /\ entry = <<>> /\ entries = <<>> /\ programDescriptors = <<>>
    /\ turns = 0

-----------------------------------------------------------------------------
(* Begin *)

\* Whether initWithPSI makes a table of the section, and initWithTableId took it for one.
IsTable ==
    /\ Len(section) >= (IF kind = "VCT" THEN 2 ELSE 1)
    /\ Len(section) + PSI_CRC_LEN <= MaxSectionLength

Refuse ==
    /\ pc = "start" /\ ~IsTable
    /\ pc' = "nil"
    /\ UNCHANGED <<written, section, reader, descReader, left, descriptorsEnd, entry, entries,
                   programDescriptors>>

\* Reading begins at r, unless there is too little for that.
Begin(r, enough, next, announced) ==
    /\ pc = "start" /\ IsTable
    /\ reader' = IF enough THEN r ELSE Make(<<>>)
    /\ pc' = IF enough THEN next ELSE "done"
    /\ left' = announced
    /\ UNCHANGED <<written, section, descReader, descriptorsEnd, entry, entries,
                   programDescriptors>>

BeginPat ==
    /\ kind = "PAT"
    /\ Begin(PatReader(section), Len(section) >= PatHeaderLength, "entries",
             IF Len(section) < PatHeaderLength THEN 0 ELSE NumberOfPrograms(section))

BeginPmt ==
    /\ kind = "PMT"
    /\ Begin(ProgramInfoReader(section), TRUE, "programDescriptors", 0)

BeginSdt ==
    /\ kind = "SDT"
    /\ Begin(SdtReader(section), Len(section) >= SdtHeaderLength, "entries", 0)

BeginVct ==
    /\ kind = "VCT"
    /\ LET count == NumChannels(section)
       IN  Begin(count, ~count.error, "entries", count.value)

-----------------------------------------------------------------------------
(* Descriptors *)

\* A service's descriptors are read with the reader of the section.
DescriptorReader == IF pc = "programDescriptors" \/ kind = "SDT" THEN reader ELSE descReader

MoreDescriptors ==
    /\ RemainingBytes(DescriptorReader) >= 2
    /\ pc = "descriptors" /\ kind = "SDT" => reader.byteOffset < descriptorsEnd

DescriptorReaderMoves(r) ==
    IF pc = "programDescriptors" \/ kind = "SDT"
    THEN reader' = r /\ UNCHANGED descReader
    ELSE descReader' = r /\ UNCHANGED reader

ReadProgramDescriptor ==
    /\ pc = "programDescriptors" /\ MoreDescriptors
    /\ LET turn == DescriptorTurn(reader)
       IN  /\ programDescriptors' = programDescriptors \o turn.made
           /\ reader' = IF turn.truncated THEN StreamsReader(section) ELSE turn.reader
           /\ pc' = IF turn.truncated THEN "entries" ELSE pc
    /\ UNCHANGED <<written, section, descReader, left, descriptorsEnd, entry, entries>>

BeginStreams ==
    /\ pc = "programDescriptors" /\ ~MoreDescriptors
    /\ pc' = "entries" /\ reader' = StreamsReader(section)
    /\ UNCHANGED <<written, section, descReader, left, descriptorsEnd, entry, entries,
                   programDescriptors>>

\* What the entry has of its descriptors once one more was made.
WithDescriptor(e, made) ==
    IF kind = "VCT" THEN WithLocation(e, made) ELSE [e EXCEPT !.descriptors = @ \o made]

Added(e) == IF kind = "PMT" THEN WithStream(entries, e) ELSE Append(entries, e)

\* The entry is complete; one announced entry less is to come.
Complete(e) ==
    /\ entries' = Added(e) /\ entry' = <<>>
    /\ pc' = "entries"
    /\ left' = IF kind = "VCT" THEN left - 1 ELSE left

\* A truncated descriptor ends the loop.
ReadDescriptor ==
    /\ pc = "descriptors" /\ MoreDescriptors
    /\ LET turn == DescriptorTurn(DescriptorReader)
           e    == WithDescriptor(entry[1], turn.made)
       IN  /\ DescriptorReaderMoves(turn.reader)
           /\ IF turn.truncated THEN Complete(e)
              ELSE entry' = <<e>> /\ UNCHANGED <<entries, pc, left>>
    /\ UNCHANGED <<written, section, descriptorsEnd, programDescriptors>>

EndDescriptors ==
    /\ pc = "descriptors" /\ ~MoreDescriptors
    /\ Complete(entry[1])
    /\ UNCHANGED <<written, section, reader, descReader, descriptorsEnd, programDescriptors>>

-----------------------------------------------------------------------------
(* Entries *)

MoreEntries ==
    CASE kind = "PAT" -> left > 0
      [] kind = "PMT" -> RemainingBytes(reader) >= ELEMENTARY_STREAM_BYTE_LENGTH
      [] kind = "SDT" -> RemainingBytes(reader) >= MinimumServiceLength
      [] kind = "VCT" -> left > 0 /\ RemainingBytes(reader) >= ChannelLength

EndEntries ==
    /\ pc = "entries" /\ ~MoreEntries
    /\ pc' = "done"
    /\ UNCHANGED <<written, section, reader, descReader, left, descriptorsEnd, entry, entries,
                   programDescriptors>>

\* Mutant: what was read before an error is thrown away.
BreakWithNothing(r) ==
    /\ pc' = "done" /\ reader' = r /\ descReader' = Make(<<>>) /\ entries' = <<>>
    /\ UNCHANGED <<left, descriptorsEnd, entry>>

\* A loop is left, with what it has read so far.
Break(r) ==
    /\ pc' = "done" /\ reader' = r /\ descReader' = Make(<<>>)
    /\ UNCHANGED <<left, descriptorsEnd, entry, entries>>

ReadPatProgram ==
    /\ kind = "PAT" /\ pc = "entries" /\ MoreEntries
    /\ LET turn == ReadProgram(reader)
       IN  IF turn.reader.error THEN Break(turn.reader)
           ELSE /\ reader' = turn.reader /\ left' = left - 1
                /\ entries' = WithProgram(entries, turn.entry)
                /\ UNCHANGED <<pc, descReader, descriptorsEnd, entry>>
    /\ UNCHANGED <<written, section, programDescriptors>>

\* The descriptors of turn's entry come next; without any, the entry is complete.
Descend(turn, r, inner, end) ==
    /\ reader' = r /\ descReader' = inner /\ descriptorsEnd' = end
    /\ IF turn.descriptorsLength = 0 THEN Complete(turn.entry)
       ELSE /\ pc' = "descriptors" /\ entry' = <<turn.entry>>
            /\ UNCHANGED <<entries, left>>

\* Mutant: the loop goes on after a read error.
ReadPmtStreamDespiteError ==
    /\ kind = "PMT" /\ pc = "entries" /\ MoreEntries
    /\ LET turn == ReadStream(reader)
       IN  Descend(turn, AfterSubReader(turn.reader, turn.descriptorsLength),
                   SubReader(turn.reader, turn.descriptorsLength), 0)
    /\ UNCHANGED <<written, section, programDescriptors>>

\* Descriptors that the section does not have leave the stream without any, and the next turn
\* finds the error.
ReadPmtStream ==
    /\ kind = "PMT" /\ pc = "entries" /\ MoreEntries
    /\ LET turn == ReadStream(reader)
       IN  IF turn.reader.error THEN Break(turn.reader)
           ELSE Descend(turn, AfterSubReader(turn.reader, turn.descriptorsLength),
                        SubReader(turn.reader, turn.descriptorsLength), 0)
    /\ UNCHANGED <<written, section, programDescriptors>>

ReadSdtService ==
    /\ kind = "SDT" /\ pc = "entries" /\ MoreEntries
    /\ LET turn == ReadService(reader)
       IN  IF turn.reader.error THEN Break(turn.reader)
           ELSE Descend(turn, turn.reader, descReader,
                        turn.reader.byteOffset + turn.descriptorsLength)
    /\ UNCHANGED <<written, section, programDescriptors>>

\* A channel whose descriptors the section does not have is not added.
ReadVctChannel ==
    /\ kind = "VCT" /\ pc = "entries" /\ MoreEntries
    /\ LET turn == ReadChannel(reader)
       IN  IF turn.reader.error \/ RemainingBytes(turn.reader) < turn.descriptorsLength
           THEN Break(turn.reader)
           ELSE Descend(turn, AfterSubReader(turn.reader, turn.descriptorsLength),
                        SubReader(turn.reader, turn.descriptorsLength), 0)
    /\ UNCHANGED <<written, section, programDescriptors>>

Turn ==
    \/ Refuse \/ BeginPat \/ BeginPmt \/ BeginSdt \/ BeginVct
    \/ ReadProgramDescriptor \/ BeginStreams \/ ReadDescriptor \/ EndDescriptors
    \/ ReadPatProgram \/ ReadPmtStream \/ ReadSdtService \/ ReadVctChannel \/ EndEntries

HasReturned == pc \in {"done", "nil"}

Return == HasReturned /\ UNCHANGED vars

\* A turn of a loop is a step, also one that changes nothing else.
Next ==
    \/ Turn /\ turns' = 1 - turns
    \/ Return

\* The parser is a call that runs until it returns.  This is weak fairness of Next with its
\* ENABLED written out, which TLC is slow to find through the nested reads.  No state but a
\* returned one is stuck, or the run would report a deadlock.
Fairness == []<>HasReturned \/ []<><<Next>>_vars

Spec == Init /\ [][Next]_vars /\ Fairness

-----------------------------------------------------------------------------
(* Properties *)

Entries == Programs \cup TSElementaryStreams \cup TSDvbServiceDescriptionEntries
               \cup TSAtscVirtualChannels

\* The numbers that are read fit their fields, and the readers are readers.
TypeOK ==
    /\ pc \in {"start", "nil", "programDescriptors", "entries", "descriptors", "done"}
    /\ reader \in Readers /\ descReader \in Readers
    /\ left \in Byte \cup 0 .. Len(section) /\ descriptorsEnd \in Nat
    /\ entries \in Seq(Entries) /\ programDescriptors \in Seq(TSDescriptors)
    /\ turns \in 0 .. 1
    /\ Len(entry) = (IF pc = "descriptors" THEN 1 ELSE 0)

\* The first bytes of the section that are as they were written.
Intact ==
    LET sent    == SectionOf(written)
        damaged == {k \in DOMAIN section : k > Len(sent) \/ section[k] # sent[k]}
    IN  IF damaged # {} THEN Min(damaged) - 1 ELSE Len(section)

EntryEnd(i) == Len(written.head) + Len(BytesOf(SubSeq(written.entries, 1, i)))
EntryStart(i) == EntryEnd(i - 1)

\* A later program took its number by damage: a PAT has one PID for a number.
IsTakenOver(i) ==
    /\ kind = "PAT"
    /\ \E j \in i + 1 .. Len(written.entries) :
          SubSeq(section, EntryStart(j) + 1, EntryStart(j) + 2)
              = SubSeq(written.entries[i].bytes, 1, 2)

Survives(i) == written.entries[i].reads \in Range(entries) \/ IsTakenOver(i)

\* A section that arrives as it was sent is read as it was written, by the muxer or by another
\* sender: the header, every entry and every descriptor, in their order, those without a use
\* for their payload without it and those that are too short not at all.
ReadAsWritten ==
    pc = "done" /\ section = SectionOf(written) =>
        /\ entries = [i \in DOMAIN written.entries |-> written.entries[i].reads]
        /\ programDescriptors = written.programDescriptors
        /\ HeaderOf(section) = written.header
        /\ kind = "PMT" => pcrPid(section) = written.pcrPid
        /\ kind = "SDT" => originalNetworkId(section) = written.networkId

\* Whatever comes of the rest of a section, the entries before the first damaged byte are read,
\* also if the section ends in the middle of an entry.
EntriesBeforeTheDamageSurvive ==
    pc = "done" =>
        \A i \in DOMAIN written.entries : EntryEnd(i) <= Intact => Survives(i)

\* Only bytes of entry j are damaged, none of them a length that the entries behind it are
\* found by.
IsDamagedOnlyIn(j) ==
    LET sent  == SectionOf(written)
        start == EntryStart(j)
    IN  /\ Len(section) = Len(sent)
        /\ \A k \in DOMAIN section : section[k] # sent[k] =>
              k - start \in DOMAIN written.entries[j].bytes \ written.entries[j].framing

\* Damage in an entry stays in it: the other entries are read, and no more than were written.
\* The length of a descriptor may be damaged too: the descriptors of a stream and of a channel
\* are read in bytes of their own.  Those of a service are not, and their lengths belong to
\* the framing of an SDT.
DamageStaysInItsEntry ==
    pc = "done" =>
        \A j \in DOMAIN written.entries : IsDamagedOnlyIn(j) =>
            /\ \A i \in DOMAIN written.entries \ {j} : Survives(i)
            /\ Len(entries) <= Len(written.entries)

\* What a stream contains is known as soon as a descriptor tells: damage behind that, in other
\* descriptors of the stream or in other streams, does not change it.
CodecSurvivesLaterDamage ==
    pc = "done" /\ kind = "PMT" =>
        \A i \in DOMAIN written.entries :
            /\ EntryStart(i) + written.entries[i].telling <= Intact
            /\ EntryEnd(i) <= Len(section)
            => \E es \in Range(entries) :
                  /\ es.pid = written.entries[i].reads.pid
                  /\ resolvedStreamType(es) = written.entries[i].codec

\* Parsing ends, whatever the section has become: every loop goes forward or is left.
ParsingEnds == <>HasReturned

Position(r) == r.byteOffset * 8 + r.bitOffset

\* A PMT is read in two parts, the program descriptors and the streams.
PartsRead ==
    IF pc \in {"start", "nil"} THEN 0
    ELSE IF pc = "programDescriptors" \/ kind # "PMT" THEN 1
    ELSE 2

Stream == INSTANCE ByteStream WITH
    part <- PartsRead, size <- Length(reader) * 8, pos <- Position(reader),
    innerSize <- Length(descReader) * 8, innerPos <- Position(descReader),
    failed <- reader.error

\* The readers of the parsers go forward only, in their own bytes, and not after an error.
ReadersGoForward == Stream!Spec

=============================================================================
