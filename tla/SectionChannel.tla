--------------------------- MODULE SectionChannel ---------------------------
(***************************************************************************)
(* The tables of one PID over a channel that loses and repeats packets: a  *)
(* sender that repeats tables of one or more sections, with the sections   *)
(* of two tables one after the other or among each other, and packs them   *)
(* into packets with or without stuffing between them, and a               *)
(* TSPsiTableBuilder.                                                      *)
(***************************************************************************)
EXTENDS TSPsiTableBuilder

CONSTANTS
    Tables,         \* [table, extension, version, lengths]: table_id, table_id_extension, and
                    \* the section_length of each section
    MaxBurst,       \* most consecutive packets of this PID that are lost
    MaxFaults,      \* BOUND on the bursts and repetitions
    MaxSections     \* BOUND on the sections sent

\* A table_id may have several sub-tables, each with versions of its own.
IsSubTable(t, u) == t.table = u.table /\ t.extension = u.extension

ASSUME SectionAssumption ==
    /\ PayloadLength \in Nat \ {0, 1} /\ MaxSectionLength \in Nat
    /\ \A t \in Tables : /\ {t.table, t.extension} \subseteq Nat /\ t.version \in 0 .. 31
                        /\ t.lengths \in Seq(kHeaderSize + PSI_CRC_LEN .. MaxSectionLength)
                        /\ Len(t.lengths) \in 1 .. 255
    /\ \A t, u \in Tables : IsSubTable(t, u) /\ t.version = u.version => t = u
    /\ {MaxBurst, MaxFaults, MaxSections} \subseteq Nat

VARIABLES
    section,    \* the section sent last, in part or wholly
    sent,       \* how many bytes of it
    suspended,  \* <<the last section of a table that another one came into>>
    nextCc,
    last,       \* the packet that arrived in the step before, if it may come again
    burst,      \* packets lost since the last one that arrived
    faults,     \* bursts and repetitions so far
    intact,     \* the section of which all that was sent has arrived
    arrived,    \* the sections that arrived wholly, but for those of tables that a loss fell into
    split,      \* the sections sent with their header or their CRC in two packets
    crossed,    \* the transmissions that another of several sections was sent into, or that
                \* were sent into one
    built,      \* the transmissions during which their table was built
    mixed       \* the transmissions that were put together with another one: by a table of two
                \* sub-tables, or maybe by one that came to nil

senderVars == <<section, sent, suspended, nextCc, split, crossed>>
vars == <<builderVars, senderVars, last, burst, faults, intact, arrived, built, mixed>>

\* Before the first section.
NoSection == [id |-> 0, pass |-> 0, table |-> 0, extension |-> 0, version |-> 0, number |-> 0,
              last |-> 0, length |-> 0]

SectionOf(t, n, id, pass) ==
    [id |-> id, pass |-> pass, table |-> t.table, extension |-> t.extension,
     version |-> t.version, number |-> n, last |-> Len(t.lengths) - 1, length |-> t.lengths[n + 1]]

IsLast(s) == s.number = s.last

\* The section behind s in its table, sent as number id.
SectionBehind(s, id) ==
    {SectionOf(t, s.number + 1, id, s.pass) :
        t \in {t \in Tables : ~IsLast(s) /\ IsSubTable(t, s) /\ t.version = s.version}}

\* Behind section s, while that in u is the last of a suspended table: the sections of a table
\* follow each other, and behind the last one any table may, its transmission numbered as its
\* first section.  Another table may come into one, as a whole or in turns with it, but not
\* another version of it.
SectionsAfter(s, u) ==
    SectionBehind(s, s.id + 1)
        \cup IF u # <<>> THEN SectionBehind(u[1], s.id + 1)
             ELSE {SectionOf(t, 0, s.id + 1, s.id + 1) :
                      t \in {t \in Tables : IsLast(s) \/ ~IsSubTable(t, s)}}

\* What is suspended once t is begun behind s.
SuspendedAfter(s, u, t) == IF t.pass = s.pass THEN u ELSE IF IsLast(s) THEN <<>> ELSE <<s>>

\* s is interrupted by a section t of another table of several sections.
Crosses(s, t) == s.pass # t.pass /\ ~IsLast(s) /\ t.last > 0

Init ==
    /\ BuilderInit
    /\ section = NoSection /\ sent = Size(NoSection) /\ suspended = <<>> /\ nextCc = 0
    /\ split = {} /\ crossed = {}
    /\ last = <<>> /\ burst = 0 /\ faults = 0
    /\ intact = NoSection /\ arrived = {} /\ built = {} /\ mixed = {}

Smaller(a, b) == IF a < b THEN a ELSE b

\* As much of section s, from byte f on, as there is room for.
Piece(s, f, room) == [section |-> s, from |-> f, bytes |-> Smaller(room, Size(s) - f)]

\* One or two sections start in the same packet.
Starts(room) ==
    LET one(s) == Piece(s, 0, room)
        two(s) == {<<one(s), Piece(t, 0, room - Size(s))>> :
                      t \in SectionsAfter(s, SuspendedAfter(section, suspended, s))}
    IN  UNION {{<<one(s)>>} \cup (IF Size(s) < room THEN two(s) ELSE {}) :
                  s \in SectionsAfter(section, suspended)}

\* A packet where a section starts has one byte of payload less, the pointer.
PacketsNext ==
    LET left == Size(section) - sent
        cont(room) == IF left = 0 THEN <<>> ELSE <<Piece(section, sent, room)>>
        packet(starts, room) ==
            [cc |-> nextCc, payload |-> TRUE, disc |-> FALSE, pusi |-> starts # <<>>,
             cont |-> cont(room), starts |-> starts]
    IN  (IF left = 0 THEN {} ELSE {packet(<<>>, PayloadLength)})
            \cup IF left > PayloadLength - 2 THEN {}
                 ELSE {packet(starts, PayloadLength - 1) : starts \in Starts(PayloadLength - 1 - left)}

Pieces(p) == p.cont \o p.starts
LastPiece(p) == Pieces(p)[Len(Pieces(p))]

\* The packet ends in a section's header, right behind it, or in its CRC.
Splits(p) ==
    LET at == LastPiece(p).from + LastPiece(p).bytes
        n  == Size(LastPiece(p).section)
    IN  at <= SectionHeaderLength \/ at \in n - PSI_CRC_LEN + 1 .. n - 1

\* Section i of those that start in p, and the section that it comes behind.
StartOf(p, i) == p.starts[i].section
BeforeStart(p, i) == IF i = 1 THEN section ELSE StartOf(p, i - 1)

\* What is suspended behind the first n of them.
SuspendedBehind(p, n) ==
    LET one == SuspendedAfter(section, suspended, StartOf(p, 1))
    IN  CASE n = 0 -> suspended
          [] n = 1 -> one
          [] n = 2 -> SuspendedAfter(StartOf(p, 1), one, StartOf(p, 2))

Send(p) ==
    /\ LastPiece(p).section.id <= MaxSections
    /\ suspended' = SuspendedBehind(p, Len(p.starts))
    /\ crossed' = crossed \cup
          UNION {{BeforeStart(p, i).pass, StartOf(p, i).pass} :
                    i \in {i \in DOMAIN p.starts : Crosses(BeforeStart(p, i), StartOf(p, i))}}
    /\ section' = LastPiece(p).section
    /\ sent' = LastPiece(p).from + LastPiece(p).bytes
    /\ nextCc' = NextCC(nextCc)
    /\ split' = IF Splits(p) THEN split \cup {LastPiece(p).section} ELSE split

\* The sections that p completes, if all of p and of what was before it is there.
Ends(piece) == piece.from + piece.bytes = Size(piece.section)
IsIntact(piece) == piece.from = 0 \/ piece.section = intact
ArrivedIn(p) ==
    IF burst > 0 THEN {}
    ELSE {Pieces(p)[i].section : i \in
            {i \in DOMAIN Pieces(p) : Ends(Pieces(p)[i]) /\ IsIntact(Pieces(p)[i])}}

\* The tables built in this step, and the transmissions they have sections of.
Built == Range(tables) \ {<<>>}
PassesOf(table) == {table[i].section.pass : i \in DOMAIN table}

IsOfOneSubTable(table) ==
    \A i \in DOMAIN table : table[i].section.extension = table[1].section.extension

\* The transmission a table was completed in is that of its youngest section.
PassOf(table) == Max(PassesOf(table))

\* The transmissions that have sections pending before p or completed in it.
Waiting(p) ==
    {pendingSections[n].section.pass : n \in DOMAIN pendingSections}
        \cup {completed.section.pass : completed \in Range(CompletedIn(p))}

Arrive ==
    \E p \in PacketsNext :
        /\ Send(p)
        /\ AddTsPacket(p)
        /\ last' = <<p>> /\ burst' = 0 /\ UNCHANGED faults
        /\ arrived' = arrived \cup ArrivedIn(p)
        /\ intact' = IF burst = 0 /\ IsIntact(LastPiece(p))
                     THEN LastPiece(p).section ELSE NoSection
        /\ built' = built \cup {PassOf(t) : t \in {t \in Built' : IsOfOneSubTable(t)}}
        /\ mixed' = UNION {mixed, UNION {PassesOf(t) : t \in {t \in Built' : ~IsOfOneSubTable(t)}},
                           IF <<>> \in Range(tables') THEN {q \in Waiting(p) : Waiting(p) # {q}} ELSE {}}

\* The transmissions that have sections to come.
Unfinished ==
    (IF IsLast(section) THEN {} ELSE {section.pass}) \cup {u.pass : u \in Range(suspended)}

Lose ==
    /\ burst < MaxBurst /\ (burst = 0 => faults < MaxFaults)
    /\ \E p \in PacketsNext : Send(p)
    /\ faults' = IF burst = 0 THEN faults + 1 ELSE faults
    /\ burst' = burst + 1 /\ last' = <<>> /\ tables' = <<>>
    /\ arrived' = {s \in arrived : s.pass \notin Unfinished}
    /\ UNCHANGED <<ccChecker, sectionInProgress, pendingSections, intact, built, mixed>>

Repeat ==
    /\ last # <<>> /\ faults < MaxFaults
    /\ AddTsPacket(last[1])
    /\ last' = <<>> /\ faults' = faults + 1
    /\ UNCHANGED <<senderVars, burst, intact, arrived, built, mixed>>

Next == Arrive \/ Lose \/ Repeat

Spec == Init /\ [][Next]_vars

-----------------------------------------------------------------------------
(* Properties *)

\* The pieces are all of one section, in order.
IsAllOf(s, data) ==
    /\ data[1].from = 0
    /\ \A i \in DOMAIN data :
          /\ data[i].section = s
          /\ i > 1 => data[i].from = data[i - 1].from + data[i - 1].bytes
    /\ Ends(data[Len(data)])

\* Transmission q: all of its sections arrived, and nothing was lost among them.
HasArrived(q) ==
    \E s \in arrived : s.pass = q /\ Cardinality({t \in arrived : t.pass = q}) = s.last + 1

IsSplit(q) == \E s \in split : s.pass = q

\* The sub-tables of one table_id and version have as many sections.
AreAlike(s) ==
    \A t, u \in Tables :
        /\ t.table = s.table /\ t.version = s.version
        /\ u.table = s.table /\ u.version = s.version
        => Len(t.lengths) = Len(u.lengths)

\* Transmission q arrived wholly, and nothing kept the builder from having it.
IsFlawless(q) == HasArrived(q) /\ ~IsSplit(q) /\ q \notin crossed

\* A table is built from sections of one version, not of two, nor from bytes on both sides of a
\* loss: the promise of the "CC gap" branch and of the version check in deliverCompletedSection.
\* It has all of them, in order and without a hole: that of the counting, which looks at
\* lastSectionNumber only, and holds unless sub-tables of one table_id and version, which are not
\* told apart, differ in it.
IsOneVersion(table) ==
    /\ \A j \in DOMAIN table :
          /\ table[j].section.table = table[1].section.table
          /\ table[j].section.version = table[1].section.version
          /\ IsAllOf(table[j].section, table[j].data)
    /\ AreAlike(table[1].section) =>
          /\ Len(table) = table[1].section.last + 1
          /\ \A j \in DOMAIN table : table[j].section.number = j - 1

TableIsOneVersion == \A table \in Built : IsOneVersion(table)

IsLong(q) ==
    LET ofPass == {s \in arrived : s.pass = q}
    IN  /\ Cardinality(ofPass) > 1
        /\ AggregatedLength({s.number : s \in ofPass},
              [n \in {s.number : s \in ofPass} |->
                  [section |-> CHOOSE s \in ofPass : s.number = n]]) > MaxSectionLength

\* Sub-tables of one table_id and version are not told apart, and a table may have sections of
\* two.  But not one that the last section of a transmission completes which arrived wholly,
\* whatever was left of another: this table is that transmission.
IsItsOwn(table) ==
    LET q == table[Len(table)].section.pass
    IN  IsFlawless(q) /\ (\A r \in PassesOf(table) : r <= q) => PassesOf(table) = {q}

\* A table that arrives wholly is built meanwhile, whatever was lost before it and wherever
\* its sections lie in the packets, also when a table of one section comes into it, unless a
\* packet ends in a section's header or CRC, its sections are together longer than one section
\* may be, it and another of several sections were sent among each other, or it was put
\* together with another one.
TableIsBuilt ==
    /\ \A table \in Built : IsItsOwn(table)
    /\ \A s \in arrived :
          /\ IsFlawless(s.pass) /\ ~IsLong(s.pass)
          /\ s.pass \notin mixed /\ AreAlike(s)
          => s.pass \in built

\* The same for long tables ("collects complete sections of one table (e.g. large SDT ...)").
LargeTableIsBuilt ==
    \A s \in arrived :
        IsFlawless(s.pass) /\ s.pass \notin mixed /\ AreAlike(s) => s.pass \in built

=============================================================================
