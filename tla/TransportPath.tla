--------------------------- MODULE TransportPath ---------------------------
(***************************************************************************)
(* The muxer's and the demuxer's halves of a transport stream put          *)
(* together, byte for byte: access units are cut into packets on a PID     *)
(* that also carries standalone PCR packets, program map tables on another,*)
(* and what is read of the packets goes to a TSElementaryStreamBuilder and *)
(* to a TSPsiTableBuilder.  Nothing is lost on the way.                    *)
(*                                                                         *)
(* The muxer cuts a unit up at once and paces its packets out; here each   *)
(* packet is cut when it is sent, which gives the same packets.            *)
(***************************************************************************)
EXTENDS TSPacket, SequencesExt

CONSTANTS
    Units,          \* the units to send: [size, stamps, pts, flags], where stamps counts the
                    \* timestamps (0: no pts) and flags are [pcr, disc, rai]
    StreamCounts,   \* how many streams a PMT may list
    Budgets         \* BOUNDS, one of which a behaviour keeps: [units, pmts, pcrs]

NoTime == -1

ASSUME UnitAssumption ==
    \A u \in Units : /\ u.size \in Nat /\ u.stamps \in 0 .. 2
                     /\ u.pts \in Nat \cup {NoTime} /\ (u.pts = NoTime <=> u.stamps = 0)
                     /\ \A f \in {"pcr", "disc", "rai"} : u.flags[f] \in BOOLEAN
ASSUME StreamAssumption == StreamCounts \subseteq Nat

VARIABLES
    esCc, pmtCc,    \* the continuity counters of the two tracks
    lastEmittedCc,  \* of the ES PID
    pcrSent,        \* a PCR went out with a unit: standalone PCR packets may follow
    unit,           \* <<[number, of, remaining]>> while the packets of a unit go out
    pmt,            \* <<[section, remaining]>> while those of a PMT do
    packet,         \* the packet that went out in this step
    budget,         \* what is left of it
    sent,           \* the units that went in
    received,       \* what the demuxer delivered: the collected chunks, as numbered units
    esChecker, collecting, collectedData, pts, delivered,
    psiChecker, sectionInProgress, pendingSections, tables

esVars == <<esChecker, collecting, collectedData, pts, delivered>>
psiVars == <<psiChecker, sectionInProgress, pendingSections, tables>>
vars == <<esCc, pmtCc, lastEmittedCc, pcrSent, unit, pmt, packet, budget, sent, received, esVars,
          psiVars>>

ES == INSTANCE TSElementaryStreamBuilder WITH ccChecker <- esChecker

PSI == INSTANCE TSPsiTableBuilder WITH ccChecker <- psiChecker,
          PayloadLength <- PacketSpace, MaxSectionLength <- 1021

Init ==
    /\ esCc = 0 /\ pmtCc = 0 /\ lastEmittedCc = 0 /\ pcrSent = FALSE
    /\ unit = <<>> /\ pmt = <<>> /\ packet = <<>>
    /\ budget \in Budgets /\ sent = <<>> /\ received = <<>>
    /\ ES!BuilderInit /\ PSI!BuilderInit

-----------------------------------------------------------------------------
(* Access units *)

\* toTsPacketPayloadWithEpoch: nine bytes, and five for every timestamp.
PesHeaderLength(u) == 9 + 5 * u.stamps

PesLength(u) == PesHeaderLength(u) + u.size

\* parseFromPacket: the start code is there, and all of the header.
IsHeaderRead(u, r) == r.from = 0 /\ r.bytes >= PesHeaderLength(u)

\* What a builder reads of r, a packet of a unit; behind a header, what follows it.
PesPacketRead(n, r) ==
    LET u      == sent[n]
        header == r.pusi /\ IsHeaderRead(u, r)
        offset == IF header THEN PesHeaderLength(u) ELSE 0
    IN  [cc |-> r.cc, payload |-> r.payload, disc |-> r.disc, pusi |-> r.pusi, header |-> header,
         pts   |-> IF header THEN u.pts ELSE NoTime,
         chunk |-> [number |-> n, from |-> r.from + offset, bytes |-> r.bytes - offset,
                    empty |-> r.bytes = offset, disc |-> r.disc, rai |-> r.rai]]

\* The chunks of a delivered unit that belong to unit n make that unit again, if they follow each
\* other, start behind its header and leave no byte out.
UnitReceived(data, time, n) ==
    LET places == {i \in DOMAIN data : data[i].number = n}
        first  == data[Min(places)]
        last   == data[Max(places)]
        whole  == \A i \in Min(places) .. Max(places) - 1 :
                     i + 1 \in places /\ data[i + 1].from = data[i].from + data[i].bytes
        read   == [size |-> IF whole THEN last.from + last.bytes - first.from ELSE -1,
                   header |-> first.from, pts |-> time, disc |-> first.disc, rai |-> first.rai]
    IN  [number |-> n, unit |-> read]

\* What went in, in the same terms.
UnitOf(u) == [size |-> u.size, header |-> PesHeaderLength(u), pts |-> u.pts,
              disc |-> u.flags.disc, rai |-> u.flags.rai]

\* The units that collected data are of: as many as there are numbers from its first to its last.
CountIn(data) == IF data = <<>> THEN 0 ELSE data[Len(data)].number - data[1].number + 1

UnitsReceived(data, time) ==
    [i \in 1 .. CountIn(data) |-> UnitReceived(data, time, data[1].number + i - 1)]

ReceiveOnEsPid(p, n) ==
    /\ IF IsReceived(p) THEN ES!AddTsPacket(PesPacketRead(n, Received(p)))
       ELSE delivered' = <<>> /\ UNCHANGED <<esChecker, collecting, collectedData, pts>>
    /\ received' = IF delivered' = <<>> THEN received
                   ELSE Append(received, UnitsReceived(delivered'[1].data, delivered'[1].pts))
    /\ packet' = <<p>>

\* packetizeAccessUnit
BeginUnit ==
    /\ unit = <<>> /\ pmt = <<>> /\ budget.units > 0
    /\ \E u \in Units :
          /\ sent' = Append(sent, u)
          /\ unit' = <<[number |-> Len(sent) + 1, of |-> PesLength(u), remaining |-> PesLength(u)]>>
    /\ budget' = [budget EXCEPT !.units = @ - 1]
    /\ UNCHANGED <<esCc, pmtCc, lastEmittedCc, pcrSent, pmt, packet, received, esVars, psiVars>>

SendOfUnit ==
    /\ unit # <<>> /\ pmt = <<>>
    /\ LET job   == unit[1]
           flags == sent[job.number].flags
           p     == PacketOf(job.of, job.remaining, job.remaining = job.of, flags, esCc)
       IN  /\ unit' = IF job.remaining = p.bytes THEN <<>>
                      ELSE <<[job EXCEPT !.remaining = @ - p.bytes]>>
           /\ esCc' = IF p.bytes > 0 THEN (esCc + 1) % 16 ELSE esCc
           /\ lastEmittedCc' = p.cc
           /\ pcrSent' = (pcrSent \/ flags.pcr)
           /\ ReceiveOnEsPid(p, job.number)
    /\ UNCHANGED <<pmtCc, pmt, budget, sent, psiVars>>

\* A standalone PCR packet, with the counter of the last packet of the PID.
SendPcr ==
    /\ pcrSent /\ pmt = <<>> /\ budget.pcrs > 0
    /\ ReceiveOnEsPid(PcrPacketOf(lastEmittedCc), Len(sent))
    /\ budget' = [budget EXCEPT !.pcrs = @ - 1]
    /\ UNCHANGED <<esCc, pmtCc, lastEmittedCc, pcrSent, unit, pmt, sent, psiVars>>

-----------------------------------------------------------------------------
(* Program map tables *)

\* A version has five bits.
CommonSectionData(version) == [version |-> version % 32, number |-> 0, last |-> 0]

\* The section of a PMT: a header of nine bytes, five for every stream, and a CRC.
PmtSection(version, streams) ==
    LET common == CommonSectionData(version)
    IN  [table |-> 2, version |-> common.version, number |-> common.number, last |-> common.last,
         length |-> 9 + 5 * streams + PSI!PSI_CRC_LEN, streams |-> streams]

\* Mutant: no pointer field.
PmtLengthWithoutPointer(section) == PSI!Size(section)

\* A pointer field comes before the section.
PmtLength(section) == 1 + PSI!Size(section)

\* elementaryStreams: every five bytes behind the header are a stream.
StreamsRead(section) == (section.length - PSI!PSI_CRC_LEN - 9) \div 5

\* What a table builder reads of r, a packet of a PMT.
PsiPacketRead(section, r) ==
    LET piece == [section |-> section, from |-> r.from - 1, bytes |-> r.bytes]
        first == [section |-> section, from |-> r.from, bytes |-> r.bytes - 1]
    IN  [cc |-> r.cc, payload |-> r.payload, disc |-> r.disc, pusi |-> r.pusi,
         cont   |-> IF r.pusi THEN <<>> ELSE <<piece>>,
         starts |-> IF r.pusi THEN <<first>> ELSE <<>>]

\* packetizePsiTables; a PMT that is too long for a section has no bytes.
BeginPmt ==
    /\ pmt = <<>> /\ budget.pmts > 0
    /\ \E streams \in StreamCounts :
          LET section == PmtSection(budget.pmts, streams)
          IN  pmt' = IF section.length > 1021 THEN <<>>
                     ELSE <<[section |-> section, remaining |-> PmtLength(section)]>>
    /\ budget' = [budget EXCEPT !.pmts = @ - 1]
    /\ UNCHANGED <<esCc, pmtCc, lastEmittedCc, pcrSent, unit, packet, sent, received, esVars, psiVars>>

SendOfPmt ==
    /\ pmt # <<>>
    /\ LET job    == pmt[1]
           length == PmtLength(job.section)
           p      == PacketOf(length, job.remaining, job.remaining = length,
                              [pcr |-> FALSE, disc |-> FALSE, rai |-> FALSE], pmtCc)
       IN  /\ pmt' = IF job.remaining = p.bytes THEN <<>>
                     ELSE <<[job EXCEPT !.remaining = @ - p.bytes]>>
           /\ pmtCc' = IF p.bytes > 0 THEN (pmtCc + 1) % 16 ELSE pmtCc
           /\ IF IsReceived(p) THEN PSI!AddTsPacket(PsiPacketRead(job.section, Received(p)))
              ELSE tables' = <<>> /\ UNCHANGED <<psiChecker, sectionInProgress, pendingSections>>
           /\ packet' = <<p>>
    /\ UNCHANGED <<esCc, lastEmittedCc, pcrSent, unit, budget, sent, received, esVars>>

Next == BeginUnit \/ SendOfUnit \/ SendPcr \/ BeginPmt \/ SendOfPmt

Spec == Init /\ [][Next]_vars

-----------------------------------------------------------------------------
(* Properties *)

\* Every packet has 188 bytes, and its adaptation field those that its length field tells
\* (packetizePayload: "TS packet size mismatch").
PacketsAreWhole ==
    \A i \in DOMAIN packet :
        /\ PacketBytes(packet[i]) = TS_PACKET_SIZE_188
        /\ packet[i].field # <<>> => FieldBytes(packet[i].field) = 1 + packet[i].field[1].length

\* How many units have begun to go out: a unit goes in with its first packet.
Begun == IF unit # <<>> /\ unit[1].remaining = unit[1].of THEN Len(sent) - 1 ELSE Len(sent)

\* The units whose first packet has left the muxer, whatever the builder made of it.
WentIn == [n \in 1 .. Begun |-> UnitOf(sent[n])]

Numbered(units, n) == [number |-> n, unit |-> UnitOf(units[n])]

\* The units that are in the builder.
Held == [i \in 1 .. CountIn(collectedData) |-> Numbered(sent, collectedData[1].number + i - 1)]

\* What comes out is what went in, with its time, its flags and all of its bytes.
Pipe == INSTANCE UnitPipe WITH
    Units <- {UnitOf(u) : u \in Units},
    in    <- WentIn,
    held  <- Held,
    out   <- received

\* Muxing and demuxing an elementary stream implements UnitPipe: every unit whose first packet
\* left the muxer is in the builder or has come out of it, in the order they left, each once and
\* whole.  A unit that the builder loses, skips or never collects is one that went in and is
\* neither held nor out.
UnitsComeOut == Pipe!Spec

\* The last packet of a PMT completes it, as it was sent, unless it holds less than the CRC:
\* then the table builder refuses it (TSPsiTableBuilder.m:168).
ProgramMapArrives ==
    [][pmt # <<>> /\ SendOfPmt /\ pmt' = <<>> =>
          LET section == pmt[1].section
          IN  IF PmtLength(section) % PacketSpace \in 1 .. 3 THEN tables' = <<>>
              ELSE /\ Len(tables') = 1 /\ Len(tables'[1]) = 1
                   /\ tables'[1][1].section = section
                   /\ tables'[1][1].length = section.length
                   /\ StreamsRead(tables'[1][1].section) = section.streams]_vars

=============================================================================
