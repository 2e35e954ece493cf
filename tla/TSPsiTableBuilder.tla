------------------------- MODULE TSPsiTableBuilder -------------------------
(***************************************************************************)
(* TSPsiTableBuilder: reassembles the sections of one PID from transport   *)
(* packets, and the tables from their sections.                            *)
(*                                                                         *)
(* A section is 3 bytes of header and section_length more, the last 4 of   *)
(* them its CRC; it may end, and another may begin, inside a packet.  Here *)
(* the bytes of a packet are pieces of sections: [section, from, bytes].   *)
(* A packet has the fields of a continuity check, and                      *)
(*   pusi      a section starts in it                                      *)
(*   cont      <<piece>> before the pointer: the end, or in a packet where *)
(*             no section starts more, of a section begun earlier; or <<>> *)
(*   starts    the first piece of every section that starts in it; only    *)
(*             the last one may go on in the next packet                   *)
(* and is filled up with stuffing.  CRCs are read but never verified.      *)
(***************************************************************************)
EXTENDS Integers, FiniteSets, SequencesExt, TSContinuityChecker

CONSTANTS
    PayloadLength,       \* bytes of payload in a packet, 184
    MaxSectionLength     \* the largest section_length, 1021

SectionHeaderLength == 3
PSI_CRC_LEN == 4
kHeaderSize == 5         \* what a section repeats in front of its share of the table

VARIABLES
    ccChecker,
    sectionInProgress,   \* <<[section, data, length]>>, or <<>> for nil
    pendingSections,     \* sections of one table, by section number
    tables               \* the tables handed to the delegate in this step, <<>> for nil

builderVars == <<ccChecker, sectionInProgress, pendingSections, tables>>

NoSections == [n \in {} |-> n]

BuilderInit ==
    /\ ccChecker = NewChecker
    /\ sectionInProgress = <<>> /\ pendingSections = NoSections /\ tables = <<>>

-----------------------------------------------------------------------------
(* Sections *)

Size(section) == SectionHeaderLength + section.length

Whole(piece) == piece.from = 0 /\ piece.bytes = Size(piece.section)

RemainingBytesInTable(begun) == begun.section.length - begun.length

\* begun, as piece continues it
Collect(begun, piece) ==
    [begun EXCEPT !.data = Append(@, piece), !.length = @ + piece.bytes]

Begin(piece) ==
    [section |-> piece.section, data |-> <<piece>>,
     length  |-> piece.bytes - SectionHeaderLength]

\* Mutant: a rest that fits exactly is taken for one that goes on.
CompletesIfRoomIsLeft(begun, available) ==
    /\ RemainingBytesInTable(begun) >= PSI_CRC_LEN
    /\ available > RemainingBytesInTable(begun)

\* The rest of a section in progress is taken only if it is available with all of its CRC.
Completes(begun, available) ==
    /\ RemainingBytesInTable(begun) >= PSI_CRC_LEN
    /\ available >= RemainingBytesInTable(begun)

\* A packet that starts no section continues the one in progress; its stuffing is available
\* too.  A rest of less than a CRC is refused, and the section with it.
ContinuedBy(p, begun) ==
    IF Completes(begun, PayloadLength) \/ RemainingBytesInTable(begun) < PSI_CRC_LEN THEN <<>>
    ELSE <<Collect(begun, p.cont[1])>>

\* The last section that starts in a packet stays in progress if more than its header is there.
BegunIn(p) ==
    LET piece == p.starts[Len(p.starts)]
    IN  IF Whole(piece) \/ piece.bytes <= SectionHeaderLength THEN <<>> ELSE <<Begin(piece)>>

\* The section in progress, if p holds the rest of it before its pointer.
Finished(p) ==
    IF sectionInProgress = <<>> \/ p.cont = <<>> THEN <<>>
    ELSE LET begun     == sectionInProgress[1]
             available == IF p.pusi THEN p.cont[1].bytes ELSE PayloadLength
         IN  IF Completes(begun, available) THEN <<Collect(begun, p.cont[1])>> ELSE <<>>

\* The sections that p completes, in their order.
CompletedIn(p) ==
    Finished(p) \o FlattenSeq([i \in DOMAIN p.starts |->
                                  IF Whole(p.starts[i]) THEN <<Begin(p.starts[i])>> ELSE <<>>])

-----------------------------------------------------------------------------
(* Tables *)

\* The sections without their headers behind one header, and room for a CRC.
AggregatedLength(numbers, sections) ==
    kHeaderSize + PSI_CRC_LEN
      + SumFunction([n \in numbers |-> sections[n].section.length - PSI_CRC_LEN - kHeaderSize])

\* The sections up to the last one, those that are there.
InOrder(sections, last) ==
    FlattenSeq([i \in 1 .. last + 1 |->
                   IF i - 1 \in DOMAIN sections THEN <<sections[i - 1]>> ELSE <<>>])

\* Section 0 says how many follow.  Without it, or if the sections are together longer than one
\* section may be, there is no table: the delegate gets nil.
AggregatePendingSections(sections) ==
    LET last    == sections[0].section.last
        numbers == {n \in DOMAIN sections : n <= last}
    IN  IF 0 \notin DOMAIN sections \/ AggregatedLength(numbers, sections) > MaxSectionLength
        THEN <<>> ELSE InOrder(sections, last)

\* Mutant: sections of an older version stay.
IsSameTableId(section, other) == section.table = other.table

IsSameTable(section, other) ==
    section.table = other.table /\ section.version = other.version

\* state is [pending, tables] before the completed section s, the value is what they are after.
DeliverCompletedSection(state, s) ==
    LET same    == \A n \in DOMAIN state.pending :
                      IsSameTable(s.section, state.pending[n].section)
        kept    == IF same THEN state.pending ELSE NoSections
        pending == [n \in DOMAIN kept \cup {s.section.number} |->
                       IF n = s.section.number THEN s ELSE kept[n]]
    IN  IF s.section.number = 0 /\ s.section.last = 0
        THEN [state EXCEPT !.tables = Append(@, <<s>>)]
        ELSE IF Cardinality(DOMAIN pending) = s.section.last + 1
        THEN [pending |-> NoSections,
              tables  |-> Append(state.tables, AggregatePendingSections(pending))]
        ELSE [state EXCEPT !.pending = pending]

-----------------------------------------------------------------------------

\* Packets were lost: everything incomplete goes, and this packet with it.
DiscardOnGap == sectionInProgress' = <<>> /\ pendingSections' = NoSections /\ tables' = <<>>

Accept(p) ==
    LET completed == FoldLeft(DeliverCompletedSection,
                              [pending |-> pendingSections, tables |-> <<>>], CompletedIn(p))
    IN  /\ pendingSections' = completed.pending
        /\ tables' = completed.tables
        /\ sectionInProgress' =
              IF p.pusi THEN BegunIn(p)
              ELSE IF sectionInProgress = <<>> THEN <<>>
              ELSE ContinuedBy(p, sectionInProgress[1])

AddTsPacket(p) ==
    LET ccResult == Check(ccChecker, p)
    IN  /\ ccChecker' = Checked(p)
        /\ CASE ccResult = "Gap"       -> DiscardOnGap
             [] ccResult = "Duplicate" -> /\ tables' = <<>>
                                          /\ UNCHANGED <<sectionInProgress, pendingSections>>
             [] ccResult = "OK"        -> Accept(p)

=============================================================================
