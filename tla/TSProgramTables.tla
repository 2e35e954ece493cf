-------------------------- MODULE TSProgramTables --------------------------
(***************************************************************************)
(* TSProgramAssociationTable and TSProgramMapTable: the sections the muxer *)
(* writes, and one turn of the loops that read them.  Constant-level.      *)
(***************************************************************************)
EXTENDS TSProgramSpecificInformationTable, SequencesExt

HighByte(pid) == (pid \div 256) % 32

-----------------------------------------------------------------------------
(* The PAT: the PMT PID of every program *)

Programs == [programNumber : Bits(16), pmtPid : Bits(13)]

PROGRAM_BYTE_LENGTH == 4
PatHeaderLength == 5

ProgramBytes(program) ==
    <<program.programNumber \div 256, program.programNumber % 256,
      224 + HighByte(program.pmtPid), program.pmtPid % 256>>

NumberOfPrograms(section) == (Len(section) - PatHeaderLength) \div PROGRAM_BYTE_LENGTH

PatReader(section) ==
    MakeWithBytes(SubSeq(section, PatHeaderLength + 1, Len(section)),
                  Len(section) - PatHeaderLength)

ReadProgram(r) ==
    LET number == ReadUInt16BE(r)
        pid    == ReadBits(SkipBits(number, 3), 13)
    IN  [reader |-> pid, entry |-> [programNumber |-> number.value, pmtPid |-> pid.value]]

\* A program number that comes again replaces the PID it came with before.
WithProgram(programmes, program) ==
    RemoveFirstMatch(programmes, LAMBDA p : p.programNumber = program.programNumber)
        \o <<program>>

-----------------------------------------------------------------------------
(* The PMT: the streams of a program *)

ELEMENTARY_STREAM_BYTE_LENGTH == 5
PmtHeaderLength == 9

\* The muxer writes no program descriptors, and no descriptors of streams.
PmtHeaderBytes(pcrPid) == <<224 + HighByte(pcrPid), pcrPid % 256, 240, 0>>
StreamBytes(es) == <<es.streamType, 224 + HighByte(es.pid), es.pid % 256, 240, 0>>

\* Sorted by PID, so that the same streams make the same section.
SortedStreams(streams) == SetToSortSeq(streams, LAMBDA a, b : a.pid < b.pid)

\* The last n bits of the two bytes behind the first `offset` ones; a section too short has 0.
TwoByteField(section, offset, n) ==
    IF Len(section) < offset + 2 THEN 0
    ELSE ReadBits(SkipBits(MakeWithBytes(SubSeq(section, offset + 1, offset + 2), 2), 16 - n),
                  n).value

pcrPid(section) == TwoByteField(section, 5, 13)
programInfoLength(section) == TwoByteField(section, 7, 12)

EsDataStart(section) == PmtHeaderLength + programInfoLength(section)

\* A program_info_length beyond the section is no program descriptors.
ProgramInfoReader(section) ==
    LET length == programInfoLength(section)
    IN  IF length = 0 \/ PmtHeaderLength + length > Len(section) THEN Make(<<>>)
        ELSE MakeWithBytes(SubSeq(section, PmtHeaderLength + 1, Len(section)), length)

StreamsReader(section) ==
    IF EsDataStart(section) >= Len(section) THEN Make(<<>>)
    ELSE MakeWithBytes(SubSeq(section, EsDataStart(section) + 1, Len(section)),
                       Len(section) - EsDataStart(section))

\* Mutant: the PID has the reserved bits in it.
StreamWithReservedBits(r) ==
    LET type   == ReadUInt8(r)
        pid    == ReadBits(type, 16)
        length == ReadBits(SkipBits(pid, 4), 12)
    IN  [reader |-> length, descriptorsLength |-> length.value,
         entry  |-> [pid |-> pid.value, streamType |-> type.value, descriptors |-> <<>>]]

ReadStream(r) ==
    LET type   == ReadUInt8(r)
        pid    == ReadBits(SkipBits(type, 3), 13)
        length == ReadBits(SkipBits(pid, 4), 12)
    IN  [reader |-> length, descriptorsLength |-> length.value,
         entry  |-> [pid |-> pid.value, streamType |-> type.value, descriptors |-> <<>>]]

\* The streams are a set: one that equals another is not added.
WithStream(streams, es) == IF es \in Range(streams) THEN streams ELSE Append(streams, es)

=============================================================================
