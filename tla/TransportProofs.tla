-------------------------- MODULE TransportProofs --------------------------
(***************************************************************************)
(* Packets of every payload length and every choice of flags: they have    *)
(* 188 bytes, and a receiver reads the bytes that were written.  Units of  *)
(* every size come out of the builder as they went in: the path implements *)
(* UnitPipe.  Program map tables with any number of streams come out of    *)
(* the table builder.                                                      *)
(***************************************************************************)
EXTENDS TransportPath, SequenceTheorems, TLAPS

AreFlags(flags) == flags.pcr \in BOOLEAN /\ flags.disc \in BOOLEAN /\ flags.rai \in BOOLEAN

\* What packetizePayload promises of one packet.
IsWhole(p) ==
  /\ PacketBytes(p) = TS_PACKET_SIZE_188
  /\ p.field # <<>> => FieldBytes(p.field) = 1 + p.field[1].length

\* The adaptation field leaves exactly the room that the payload takes.
LEMMA FieldFills ==
  ASSUME NEW hasPcr \in BOOLEAN, NEW disc \in BOOLEAN, NEW rai \in BOOLEAN,
         NEW remaining \in Nat, hasPcr \/ disc \/ rai \/ remaining < PacketSpace,
         NEW field, field = AdaptationField(hasPcr, disc, rai, remaining)
  PROVE  /\ field.length \in Nat
         /\ FieldBytes(<<field>>) = 1 + field.length
         /\ FieldBytes(<<field>>) + Smaller(PacketSpace - FieldBytes(<<field>>), remaining)
              = PacketSpace
         /\ remaining > 0 => FieldBytes(<<field>>) < PacketSpace
         /\ FieldBytes(<<field>>) <= PacketSpace - remaining \/ FieldBytes(<<field>>) <= 8
         /\ remaining = 0 => FieldBytes(<<field>>) = PacketSpace
<1>1. <<field>> # <<>> /\ <<field>>[1] = field
  OBVIOUS
<1>2. PacketSpace = 184 /\ PcrBytes(hasPcr) \in {0, 6} /\ (PcrBytes(hasPcr) = 6 <=> hasPcr)
  BY DEF PacketSpace, TS_PACKET_SIZE_188, TS_PACKET_HEADER_SIZE, PcrBytes
<1>3. CASE ~(hasPcr \/ disc \/ rai) /\ remaining = 183
  <2>1. field.length = 0
    BY <1>3 DEF AdaptationField
  <2> QED
    BY <1>1, <1>2, <1>3, <2>1 DEF FieldBytes, Smaller
<1>4. CASE ~(~(hasPcr \/ disc \/ rai) /\ remaining = 183)
  <2> DEFINE space == PacketSpace - 2 - PcrBytes(hasPcr)
  <2>1. /\ field.length = 1 + PcrBytes(hasPcr) + field.stuffed /\ field.pcr = hasPcr
        /\ field.stuffed = space - Smaller(space, remaining)
    BY <1>4 DEF AdaptationField
  <2>2. field.stuffed \in Nat
    BY <1>2, <2>1 DEF Smaller
  <2>3. FieldBytes(<<field>>) = 2 + PcrBytes(hasPcr) + field.stuffed
    BY <1>1, <1>2, <2>1, <2>2 DEF FieldBytes
  <2>4. remaining > space => field.stuffed = 0
    BY <1>2, <2>1 DEF Smaller
  <2>5. remaining <= space => field.stuffed = space - remaining
    BY <1>2, <2>1 DEF Smaller
  <2> QED
    BY <1>2, <1>4, <2>1, <2>2, <2>3, <2>4, <2>5 DEF Smaller
<1> QED
  BY <1>3, <1>4

\* A packet that is cut of a payload where `remaining' of `length' bytes are left takes as much as
\* it can, and is read at the place where it was written, with the flags of the first packet.
IsReadAsCut(p, length, remaining, first, flags, cc) ==
  /\ p.cc = cc /\ p.bytes \in 1 .. remaining /\ (p.bytes = remaining \/ p.bytes >= 176)
  /\ IsReceived(p) /\ Received(p).payload = TRUE
  /\ Received(p).from = length - remaining /\ Received(p).bytes = p.bytes
  /\ Received(p).cc = cc /\ Received(p).pusi = first
  /\ Received(p).disc = (flags.disc /\ first) /\ Received(p).rai = (flags.rai /\ first)

\* A packet of packetizePayload is whole, and initWithTsPacketData reads what was written, for
\* payloads of every length and all flags.
THEOREM CutAndRead ==
  ASSUME NEW length \in Nat, NEW remaining \in Nat, NEW first \in BOOLEAN,
         NEW flags, AreFlags(flags), NEW cc \in 0 .. 15, remaining > 0
  PROVE  LET p == PacketOf(length, remaining, first, flags, cc)
         IN  IsWhole(p) /\ IsReadAsCut(p, length, remaining, first, flags, cc)
<1> DEFINE pcr  == flags.pcr /\ first
           disc == flags.disc /\ first
           rai  == flags.rai /\ first
           needed == pcr \/ disc \/ rai \/ remaining < PacketSpace
           f == AdaptationField(pcr, disc, rai, remaining)
           p == PacketOf(length, remaining, first, flags, cc)
<1>1. pcr \in BOOLEAN /\ disc \in BOOLEAN /\ rai \in BOOLEAN
  BY DEF AreFlags
<1>2. /\ p.field = IF needed THEN <<f>> ELSE <<>>
      /\ p.cc = cc /\ p.pusi = first /\ p.payload = TRUE /\ p.from = length - remaining
      /\ p.bytes = Smaller(PacketSpace - FieldBytes(p.field), remaining)
  BY DEF PacketOf
<1>3. PacketSpace = 184 /\ TS_PACKET_SIZE_188 = 188 /\ TS_PACKET_HEADER_SIZE = 4
  BY DEF PacketSpace, TS_PACKET_SIZE_188, TS_PACKET_HEADER_SIZE
<1>4. f = AdaptationField(pcr, disc, rai, remaining) /\ f.disc = disc /\ f.rai = rai
  BY DEF AdaptationField
<1>5. needed <=> pcr \/ disc \/ rai \/ remaining < PacketSpace
  OBVIOUS
<1>6. disc = (flags.disc /\ first) /\ rai = (flags.rai /\ first) /\ cc % 16 = cc
  OBVIOUS
<1> HIDE DEF pcr, disc, rai, needed, f, p
<1> SUFFICES IsWhole(p) /\ IsReadAsCut(p, length, remaining, first, flags, cc)
  BY DEF p
<1>7. CASE needed
  <2>1. /\ f.length \in Nat /\ FieldBytes(<<f>>) = 1 + f.length
        /\ FieldBytes(<<f>>) + Smaller(PacketSpace - FieldBytes(<<f>>), remaining) = PacketSpace
        /\ FieldBytes(<<f>>) < PacketSpace
        /\ FieldBytes(<<f>>) <= PacketSpace - remaining \/ FieldBytes(<<f>>) <= 8
    BY <1>1, <1>4, <1>5, <1>7, FieldFills
  <2>2. p.field = <<f>> /\ p.field # <<>> /\ p.field[1] = f
    BY <1>2, <1>7
  <2>3. /\ p.bytes = PacketSpace - FieldBytes(<<f>>) /\ p.bytes \in 1 .. remaining
        /\ p.bytes = remaining \/ p.bytes >= 176
        /\ PacketSpace = 184
    BY <1>2, <1>3, <2>1, <2>2 DEF Smaller
  <2>4. IsWhole(p)
    BY <1>3, <2>1, <2>2, <2>3 DEF IsWhole, PacketBytes
  <2>5. PayloadOffset(p) = 4 + FieldBytes(<<f>>) /\ PayloadOffset(p) = 188 - p.bytes
    BY <1>3, <2>1, <2>2, <2>3 DEF PayloadOffset
  <2>6. IsReceived(p)
    BY <1>2, <1>3, <2>3, <2>5 DEF IsReceived
  <2>7. /\ Received(p).from = p.from /\ Received(p).bytes = p.bytes
        /\ Received(p).cc = p.cc /\ Received(p).pusi = p.pusi /\ Received(p).payload = TRUE
    BY <1>2, <1>3, <1>6, <2>1, <2>2, <2>3, <2>5 DEF Received, HeaderRead
  <2>8. f.length = 0 => ~disc /\ ~rai
    BY <1>1, <1>3, <1>4, <2>1 DEF AdaptationField, Smaller, PcrBytes, PacketSpace
  <2>9. Received(p).disc = disc /\ Received(p).rai = rai
    BY <1>1, <1>4, <2>1, <2>2, <2>8 DEF Received, HeaderRead
  <2> QED
    BY <1>2, <1>6, <2>3, <2>4, <2>6, <2>7, <2>9 DEF IsReadAsCut
<1>8. CASE ~needed
  <2>1. p.field = <<>> /\ remaining >= 184 /\ ~disc /\ ~rai
    BY <1>2, <1>3, <1>5, <1>8
  <2>2. FieldBytes(p.field) = 0 /\ p.bytes = 184
    <3>1. FieldBytes(p.field) = 0
      BY <2>1 DEF FieldBytes
    <3>2. p.bytes = Smaller(184 - 0, remaining)
      BY <1>2, <1>3, <3>1
    <3> QED
      BY <2>1, <3>1, <3>2 DEF Smaller
  <2>3. IsWhole(p) /\ PayloadOffset(p) = 4
    BY <1>3, <2>1, <2>2 DEF IsWhole, PacketBytes, PayloadOffset
  <2>4. IsReceived(p)
    BY <1>2, <1>3, <2>3 DEF IsReceived
  <2>5. /\ Received(p).from = p.from /\ Received(p).bytes = p.bytes
        /\ Received(p).cc = p.cc /\ Received(p).pusi = p.pusi
        /\ Received(p).disc = FALSE /\ Received(p).rai = FALSE /\ Received(p).payload = TRUE
    BY <1>2, <1>3, <1>6, <2>1, <2>2, <2>3 DEF Received, HeaderRead
  <2> QED
    <3>1. p.bytes \in 1 .. remaining /\ p.bytes >= 176
      BY <2>1, <2>2
    <3>2. disc = FALSE /\ rai = FALSE
      BY <1>1, <2>1
    <3> QED
      BY <1>2, <1>6, <2>3, <2>4, <2>5, <3>1, <3>2 DEF IsReadAsCut
<1> QED
  BY <1>7, <1>8

\* A standalone PCR is stuffed to a whole packet.
LEMMA PcrPacketIsWhole ==
  ASSUME NEW cc
  PROVE  IsWhole(PcrPacketOf(cc))
<1> DEFINE f == AdaptationField(TRUE, FALSE, FALSE, 0)
           p == PcrPacketOf(cc)
<1>1. PacketSpace = 184 /\ TS_PACKET_SIZE_188 = 188 /\ TS_PACKET_HEADER_SIZE = 4
  BY DEF PacketSpace, TS_PACKET_SIZE_188, TS_PACKET_HEADER_SIZE
<1>2. p.field = <<f>> /\ p.bytes = 0
  BY DEF PcrPacketOf
<1> HIDE DEF p
<1>3. FieldBytes(<<f>>) = 1 + f.length /\ FieldBytes(<<f>>) = PacketSpace
  <2>1. TRUE \in BOOLEAN /\ FALSE \in BOOLEAN /\ 0 \in Nat
    OBVIOUS
  <2> QED
    BY <2>1, FieldFills
<1> HIDE DEF f
<1>4. p.field[1] = f /\ FieldBytes(p.field) = 184
  BY <1>1, <1>2, <1>3
<1>5. IsWhole(p)
  BY <1>1, <1>2, <1>3, <1>4 DEF IsWhole, PacketBytes
<1> QED
  BY <1>5 DEF p

-----------------------------------------------------------------------------
(* The transport path.  Its packets are whole because what is left of a     *)
(* unit or of a PMT is never empty when a packet is cut of it.              *)

JobsInv ==
  /\ sent \in Seq(Units)
  /\ esCc \in 0 .. 15 /\ pmtCc \in 0 .. 15
  /\ unit # <<>> => /\ unit[1].number \in 1 .. Len(sent)
                    /\ unit[1].of \in Nat /\ unit[1].remaining \in Nat \ {0}
  /\ pmt # <<>> => PmtLength(pmt[1].section) \in Nat /\ pmt[1].remaining \in Nat \ {0}

WholeInv == JobsInv /\ PacketsAreWhole

\* Sending a whole packet keeps the packets of the path whole.
LEMMA SendsWhole ==
  ASSUME NEW p, IsWhole(p), packet' = <<p>>
  PROVE  PacketsAreWhole'
<1>1. DOMAIN packet' = {1} /\ packet'[1] = p
  OBVIOUS
<1> QED
  BY <1>1 DEF PacketsAreWhole, IsWhole

\* A unit begins with its PES header, so that something of it is left to send.
LEMMA WholeUnitsBegin ==
  ASSUME UnitAssumption, WholeInv, BeginUnit
  PROVE  WholeInv'
<1>1. PICK u \in Units :
        /\ sent' = Append(sent, u)
        /\ unit' = <<[number |-> Len(sent) + 1, of |-> PesLength(u), remaining |-> PesLength(u)]>>
  BY DEF BeginUnit
<1>2. PesLength(u) \in Nat \ {0}
  BY UnitAssumption DEF PesLength, PesHeaderLength
<1>3. sent' \in Seq(Units) /\ Len(sent') = Len(sent) + 1 /\ Len(sent) \in Nat
  BY <1>1 DEF WholeInv, JobsInv
<1>4. unit'[1].number = Len(sent) + 1 /\ unit'[1].of = PesLength(u)
      /\ unit'[1].remaining = PesLength(u)
  BY <1>1
<1>5. UNCHANGED <<esCc, pmtCc, pmt, packet>>
  BY DEF BeginUnit
<1>6. PacketsAreWhole'
  BY <1>5 DEF WholeInv, PacketsAreWhole
<1>7. unit'[1].number \in 1 .. Len(sent')
  BY <1>3, <1>4
<1> QED
  BY <1>2, <1>3, <1>4, <1>5, <1>6, <1>7 DEF WholeInv, JobsInv, PmtLength

\* A packet of a unit is whole, and what it leaves of the unit is nothing or more than nothing.
LEMMA WholeUnitsSend ==
  ASSUME UnitAssumption, WholeInv, SendOfUnit
  PROVE  WholeInv'
<1> DEFINE job   == unit[1]
           flags == sent[job.number].flags
           first == (job.remaining = job.of)
           p     == PacketOf(job.of, job.remaining, first, flags, esCc)
<1>1. /\ job.number \in 1 .. Len(sent) /\ job.of \in Nat /\ job.remaining \in Nat /\ job.remaining > 0
      /\ sent \in Seq(Units) /\ esCc \in 0 .. 15
  BY DEF SendOfUnit, WholeInv, JobsInv
<1>2. AreFlags(flags)
  <2>1. sent[job.number] \in Units
    BY <1>1
  <2> QED
    BY <2>1, UnitAssumption DEF AreFlags
<1>3. IsWhole(p) /\ p.bytes \in 1 .. job.remaining
  <2>1. PICK b \in BOOLEAN : p = PacketOf(job.of, job.remaining, b, flags, esCc)
    <3>1. first \in BOOLEAN
      OBVIOUS
    <3> QED
      BY ONLY <3>1
  <2> HIDE DEF p, flags, job
  <2> QED
    BY <1>1, <1>2, <2>1, CutAndRead DEF IsReadAsCut
<1>4. /\ unit' = IF job.remaining = p.bytes THEN <<>>
                 ELSE <<[job EXCEPT !.remaining = @ - p.bytes]>>
      /\ esCc' = IF p.bytes > 0 THEN (esCc + 1) % 16 ELSE esCc
      /\ packet' = <<p>>
      /\ UNCHANGED <<pmtCc, pmt, sent>>
  BY DEF SendOfUnit, ReceiveOnEsPid
<1>5. PacketsAreWhole'
  <2> HIDE DEF p
  <2> QED
    BY <1>3, <1>4, SendsWhole
<1> HIDE DEF p, flags
<1>6. unit' # <<>> =>
        /\ unit'[1].number = job.number /\ unit'[1].of = job.of
        /\ unit'[1].remaining = job.remaining - p.bytes /\ job.remaining # p.bytes
  <2> SUFFICES ASSUME unit' # <<>>
               PROVE  /\ unit'[1].number = job.number /\ unit'[1].of = job.of
                      /\ unit'[1].remaining = job.remaining - p.bytes /\ job.remaining # p.bytes
    OBVIOUS
  <2>1. job.remaining # p.bytes /\ unit'[1] = [job EXCEPT !.remaining = @ - p.bytes]
    BY <1>4
  <2> QED
    BY <2>1
<1>7. unit' # <<>> => /\ unit'[1].number \in 1 .. Len(sent') /\ unit'[1].of \in Nat
                     /\ unit'[1].remaining \in Nat \ {0}
  BY <1>1, <1>3, <1>4, <1>6
<1>8. esCc' \in 0 .. 15
  BY <1>1, <1>3, <1>4
<1> QED
  BY <1>4, <1>5, <1>7, <1>8 DEF WholeInv, JobsInv, PmtLength

\* A standalone PCR leaves the units and the PMT as they are.
LEMMA WholePcrSend ==
  ASSUME WholeInv, SendPcr
  PROVE  WholeInv'
<1>1. packet' = <<PcrPacketOf(lastEmittedCc)>> /\ UNCHANGED <<esCc, pmtCc, unit, pmt, sent>>
  BY DEF SendPcr, ReceiveOnEsPid
<1>2. PacketsAreWhole'
  BY <1>1, PcrPacketIsWhole, SendsWhole
<1> QED
  BY <1>1, <1>2 DEF WholeInv, JobsInv, PmtLength

\* A PMT has at least its header and its CRC to send.
LEMMA WholePmtBegins ==
  ASSUME StreamAssumption, WholeInv, BeginPmt
  PROVE  WholeInv'
<1>1. PICK streams \in StreamCounts :
        LET section == PmtSection(budget.pmts, streams)
        IN  pmt' = IF section.length > 1021 THEN <<>>
                   ELSE <<[section |-> section, remaining |-> PmtLength(section)]>>
  BY DEF BeginPmt
<1> DEFINE section == PmtSection(budget.pmts, streams)
<1>2. PmtLength(section) \in Nat \ {0}
  BY StreamAssumption DEF PmtLength, PmtSection, PSI!Size, PSI!SectionHeaderLength, PSI!PSI_CRC_LEN
<1>3. pmt' # <<>> => pmt' = <<[section |-> section, remaining |-> PmtLength(section)]>>
  BY <1>1
<1> HIDE DEF section
<1>4. pmt' # <<>> => PmtLength(pmt'[1].section) \in Nat /\ pmt'[1].remaining \in Nat \ {0}
  <2> SUFFICES ASSUME pmt' # <<>>
               PROVE  PmtLength(pmt'[1].section) \in Nat /\ pmt'[1].remaining \in Nat \ {0}
    OBVIOUS
  <2>1. pmt'[1].section = section /\ pmt'[1].remaining = PmtLength(section)
    BY <1>3
  <2> QED
    BY <1>2, <2>1
<1>5. UNCHANGED <<esCc, pmtCc, unit, packet, sent>>
  BY DEF BeginPmt
<1>6. PacketsAreWhole'
  BY <1>5 DEF WholeInv, PacketsAreWhole
<1> QED
  BY <1>4, <1>5, <1>6 DEF WholeInv, JobsInv, PmtLength

\* A packet of a PMT is whole, and what it leaves of the PMT is nothing or more than nothing.
LEMMA WholePmtSend ==
  ASSUME WholeInv, SendOfPmt
  PROVE  WholeInv'
<1> DEFINE job    == pmt[1]
           length == PmtLength(job.section)
           flags  == [pcr |-> FALSE, disc |-> FALSE, rai |-> FALSE]
           first  == (job.remaining = length)
           p      == PacketOf(length, job.remaining, first, flags, pmtCc)
<1>1. length \in Nat /\ job.remaining \in Nat /\ job.remaining > 0 /\ pmtCc \in 0 .. 15
  BY DEF SendOfPmt, WholeInv, JobsInv
<1>2. AreFlags(flags)
  BY DEF AreFlags
<1>3. IsWhole(p) /\ p.bytes \in 1 .. job.remaining
  <2>1. PICK b \in BOOLEAN : p = PacketOf(length, job.remaining, b, flags, pmtCc)
    <3>1. first \in BOOLEAN
      OBVIOUS
    <3> QED
      BY ONLY <3>1
  <2> HIDE DEF p, flags, length, job
  <2> QED
    BY <1>1, <1>2, <2>1, CutAndRead DEF IsReadAsCut
<1>4. /\ pmt' = IF job.remaining = p.bytes THEN <<>>
                ELSE <<[job EXCEPT !.remaining = @ - p.bytes]>>
      /\ pmtCc' = IF p.bytes > 0 THEN (pmtCc + 1) % 16 ELSE pmtCc
      /\ packet' = <<p>>
      /\ UNCHANGED <<esCc, unit, sent>>
  BY DEF SendOfPmt
<1> HIDE DEF p, flags
<1>5. PacketsAreWhole'
  BY <1>3, <1>4, SendsWhole
<1>6. pmt' # <<>> =>
        PmtLength(pmt'[1].section) = length /\ pmt'[1].remaining \in Nat \ {0}
  <2> SUFFICES ASSUME pmt' # <<>>
               PROVE  PmtLength(pmt'[1].section) = length /\ pmt'[1].remaining \in Nat \ {0}
    OBVIOUS
  <2>1. job.remaining # p.bytes /\ pmt'[1] = [job EXCEPT !.remaining = @ - p.bytes]
    BY <1>4
  <2>2. pmt'[1].section = job.section /\ pmt'[1].remaining = job.remaining - p.bytes
    BY <2>1
  <2> QED
    BY <1>1, <1>3, <2>1, <2>2
<1>7. pmtCc' \in 0 .. 15
  BY <1>1, <1>3, <1>4
<1> QED
  BY <1>1, <1>4, <1>5, <1>6, <1>7 DEF WholeInv, JobsInv, PmtLength

\* What is left of units and tables is never empty, and packets are whole.
LEMMA PathIsWhole == Spec => []WholeInv
<1>1. Init => WholeInv
  BY DEF Init, WholeInv, JobsInv, PacketsAreWhole
<1>2. WholeInv /\ [Next]_vars => WholeInv'
  <2> SUFFICES ASSUME WholeInv, [Next]_vars PROVE WholeInv'
    OBVIOUS
  <2>1. CASE BeginUnit
    BY <2>1, WholeUnitsBegin, UnitAssumption
  <2>2. CASE SendOfUnit
    BY <2>2, WholeUnitsSend, UnitAssumption
  <2>3. CASE SendPcr
    BY <2>3, WholePcrSend
  <2>4. CASE BeginPmt
    BY <2>4, WholePmtBegins, StreamAssumption
  <2>5. CASE SendOfPmt
    BY <2>5, WholePmtSend
  <2>6. CASE UNCHANGED vars
    BY <2>6 DEF vars, WholeInv, JobsInv, PacketsAreWhole, PmtLength
  <2> QED
    BY <2>1, <2>2, <2>3, <2>4, <2>5, <2>6 DEF Next
<1> QED
  BY <1>1, <1>2, PTL DEF Spec

\* Whatever the units and the tables, every packet of the path has 188 bytes, and its adaptation
\* field those that its length field tells.
THEOREM EveryPacketIsWhole == Spec => []PacketsAreWhole
<1>1. WholeInv => PacketsAreWhole
  BY DEF WholeInv
<1> QED
  BY <1>1, PathIsWhole, PTL

-----------------------------------------------------------------------------
(* Units in the builder.  The chunks it collects are of consecutive units.  *)

CollectedChunks ==
  [number : Nat, from : Nat, bytes : Nat, empty : BOOLEAN, disc : BOOLEAN, rai : BOOLEAN]

\* A unit with the sizes of its kind.
IsUnit(u) == u.size \in Nat /\ PesHeaderLength(u) \in Nat \ {0} /\ PesHeaderLength(u) <= 19

\* A chunk of unit u is behind its header, and empty only when there is nothing but the header.
IsChunkOf(c, u) ==
  /\ PesHeaderLength(u) <= c.from /\ c.from + c.bytes <= PesLength(u)
  /\ c.empty <=> c.bytes = 0
  /\ c.bytes = 0 => c.from = PesHeaderLength(u)

\* The chunks from a to b, and no others, are of unit n, which is u: they start behind its header
\* with its flags, follow each other, and end where `gone' bytes of the PES packet do.
Spans(data, n, u, gone, a, b) ==
  /\ a \in 1 .. Len(data) /\ b \in a .. Len(data)
  /\ \A i \in 1 .. Len(data) : data[i].number = n <=> i \in a .. b
  /\ data[a].from = PesHeaderLength(u)
  /\ data[a].disc = u.flags.disc /\ data[a].rai = u.flags.rai
  /\ \A i \in a .. b - 1 : data[i + 1].from = data[i].from + data[i].bytes
  /\ data[b].from + data[b].bytes = gone

Collected(data, n, u, gone) == \E a, b \in Nat : Spans(data, n, u, gone, a, b)

\* The ends of a set of numbers.
LEMMA MinIs ==
  ASSUME NEW S, S \subseteq Int, NEW a \in S, \A y \in S : a <= y
  PROVE  Min(S) = a
<1> DEFINE m == CHOOSE x \in S : \A y \in S : x <= y
<1>1. m \in S /\ \A y \in S : m <= y
  OBVIOUS
<1>2. m <= a /\ a <= m /\ m \in Int /\ a \in Int
  BY <1>1
<1> HIDE DEF m
<1>3. m = a
  BY <1>2
<1> QED
  BY <1>3 DEF Min, m

LEMMA MaxIs ==
  ASSUME NEW S, S \subseteq Int, NEW b \in S, \A y \in S : b >= y
  PROVE  Max(S) = b
<1> DEFINE m == CHOOSE x \in S : \A y \in S : x >= y
<1>1. m \in S /\ \A y \in S : m >= y
  OBVIOUS
<1>2. m >= b /\ b >= m /\ m \in Int /\ b \in Int
  BY <1>1
<1> HIDE DEF m
<1>3. m = b
  BY <1>2
<1> QED
  BY <1>3 DEF Max, m

\* The chunks of a unit that has gone out make the unit.
LEMMA CollectedUnitIsWhole ==
  ASSUME NEW data \in Seq(CollectedChunks), NEW n, NEW u, IsUnit(u),
         Collected(data, n, u, PesLength(u)), NEW time, time = u.pts
  PROVE  UnitReceived(data, time, n) = [number |-> n, unit |-> UnitOf(u)]
<1>1. PICK a \in Nat, b \in Nat : Spans(data, n, u, PesLength(u), a, b)
  BY DEF Collected
<1> DEFINE places == {i \in DOMAIN data : data[i].number = n}
<1>2. places = a .. b /\ a <= b
  BY <1>1 DEF Spans
<1>3. Min(places) = a
  <2>1. a \in places /\ \A y \in places : a <= y
    BY <1>2
  <2>2. places \subseteq Int
    BY <1>2
  <2> HIDE DEF places
  <2> QED
    BY <2>1, <2>2, MinIs
<1>4. Max(places) = b
  <2>1. b \in places /\ \A y \in places : b >= y
    BY <1>2
  <2>2. places \subseteq Int
    BY <1>2
  <2> HIDE DEF places
  <2> QED
    BY <2>1, <2>2, MaxIs
<1> DEFINE whole == \A i \in Min(places) .. Max(places) - 1 :
                       i + 1 \in places /\ data[i + 1].from = data[i].from + data[i].bytes
<1>5. whole
  <2>1. \A i \in a .. b - 1 : i + 1 \in places /\ data[i + 1].from = data[i].from + data[i].bytes
    <3> HIDE DEF places
    <3> QED
      BY <1>1, <1>2 DEF Spans
  <2> QED
    BY <1>3, <1>4, <2>1
<1>6. /\ data[b].from + data[b].bytes - data[a].from = u.size
      /\ data[a].from = PesHeaderLength(u)
      /\ data[a].disc = u.flags.disc /\ data[a].rai = u.flags.rai
  <2>1. data[b].from \in Nat /\ data[b].bytes \in Nat /\ a \in 1 .. Len(data)
    <3>1. a \in 1 .. Len(data) /\ b \in 1 .. Len(data)
      BY <1>1 DEF Spans
    <3>2. data[b] \in CollectedChunks
      BY <3>1
    <3> QED
      BY <3>1, <3>2 DEF CollectedChunks
  <2>2. /\ data[b].from + data[b].bytes = PesHeaderLength(u) + u.size
        /\ data[a].from = PesHeaderLength(u)
        /\ data[a].disc = u.flags.disc /\ data[a].rai = u.flags.rai
    BY <1>1 DEF Spans, PesLength
  <2> DEFINE from == data[b].from
             bytes == data[b].bytes
             header == PesHeaderLength(u)
  <2>3. from \in Nat /\ bytes \in Nat /\ header \in Nat /\ u.size \in Nat
        /\ from + bytes = header + u.size
    BY <2>1, <2>2 DEF IsUnit
  <2> HIDE DEF from, bytes, header
  <2>4. from + bytes - header = u.size
    BY ONLY <2>3
  <2> QED
    BY <2>2, <2>4 DEF from, bytes, header
<1> DEFINE read == [size |-> IF whole THEN data[Max(places)].from + data[Max(places)].bytes
                                             - data[Min(places)].from ELSE -1,
                    header |-> data[Min(places)].from, pts |-> time,
                    disc |-> data[Min(places)].disc, rai |-> data[Min(places)].rai]
<1>7. UnitReceived(data, time, n) = [number |-> n, unit |-> read]
  BY DEF UnitReceived
<1> HIDE DEF whole, places
<1>8. read = UnitOf(u)
  BY <1>3, <1>4, <1>5, <1>6 DEF UnitOf
<1> QED
  BY <1>7, <1>8

\* What is collected of a unit stays so when a chunk of another unit comes behind it.
LEMMA OthersStayCollected ==
  ASSUME NEW data \in Seq(CollectedChunks), NEW c \in CollectedChunks, NEW n, c.number # n,
         NEW u, NEW gone, Collected(data, n, u, gone)
  PROVE  Collected(Append(data, c), n, u, gone)
<1>1. PICK a \in Nat, b \in Nat : Spans(data, n, u, gone, a, b)
  BY DEF Collected
<1> DEFINE more == Append(data, c)
<1>2. /\ Len(more) = Len(data) + 1 /\ Len(data) \in Nat
      /\ more[Len(data) + 1] = c /\ \A i \in 1 .. Len(data) : more[i] = data[i]
  BY AppendProperties
<1> HIDE DEF more
<1>3. Spans(more, n, u, gone, a, b)
  <2>1. a \in 1 .. Len(more) /\ b \in a .. Len(more)
    BY <1>1, <1>2 DEF Spans
  <2>2. ASSUME NEW i \in 1 .. Len(more)
        PROVE  more[i].number = n <=> i \in a .. b
    <3>1. CASE i = Len(data) + 1
      BY <1>1, <1>2, <3>1 DEF Spans
    <3>2. CASE i # Len(data) + 1
      <4>1. i \in 1 .. Len(data) /\ more[i] = data[i]
        BY <1>2, <3>2
      <4> QED
        BY <1>1, <4>1 DEF Spans
    <3> QED
      BY <3>1, <3>2
  <2>3. more[a] = data[a] /\ more[b] = data[b]
    BY <1>1, <1>2 DEF Spans
  <2>4. ASSUME NEW i \in a .. b - 1
        PROVE  more[i + 1].from = more[i].from + more[i].bytes
    <3>1. i \in 1 .. Len(data) /\ i + 1 \in 1 .. Len(data)
      BY <1>1, <1>2 DEF Spans
    <3> QED
      BY <1>1, <1>2, <3>1 DEF Spans
  <2> QED
    BY <1>1, <2>1, <2>2, <2>3, <2>4 DEF Spans
<1> QED
  BY <1>3 DEF Collected, more

\* The last unit grows by the chunk that follows what has gone of it.
LEMMA LastUnitGrows ==
  ASSUME NEW data \in Seq(CollectedChunks), data # <<>>, NEW c \in CollectedChunks,
         NEW n, data[Len(data)].number = n, c.number = n, NEW u,
         NEW gone, c.from = gone, Collected(data, n, u, gone)
  PROVE  Collected(Append(data, c), n, u, gone + c.bytes)
<1>1. PICK a \in Nat, b \in Nat : Spans(data, n, u, gone, a, b)
  BY DEF Collected
<1> DEFINE more == Append(data, c)
           last == Len(data)
<1>2. /\ Len(more) = last + 1 /\ last \in Nat \ {0}
      /\ more[last + 1] = c /\ \A i \in 1 .. last : more[i] = data[i]
  BY AppendProperties, EmptySeq
<1>3. b = last
  BY <1>1, <1>2 DEF Spans
<1> HIDE DEF more, last
<1>4. Spans(more, n, u, gone + c.bytes, a, last + 1)
  <2>1. a \in 1 .. Len(more) /\ last + 1 \in a .. Len(more)
    BY <1>1, <1>2, <1>3 DEF Spans
  <2>2. ASSUME NEW i \in 1 .. Len(more)
        PROVE  more[i].number = n <=> i \in a .. last + 1
    <3>1. CASE i = last + 1
      BY <1>2, <2>1, <3>1
    <3>2. CASE i # last + 1
      <4>1. i \in 1 .. Len(data) /\ more[i] = data[i]
        BY <1>2, <3>2 DEF last
      <4> QED
        BY <1>1, <1>2, <1>3, <4>1 DEF Spans
    <3> QED
      BY <3>1, <3>2
  <2>3. more[a] = data[a] /\ more[last] = data[last] /\ data[last].from + data[last].bytes = gone
    BY <1>1, <1>2, <1>3 DEF Spans, last
  <2>4. ASSUME NEW i \in a .. (last + 1) - 1
        PROVE  more[i + 1].from = more[i].from + more[i].bytes
    <3>1. CASE i = last
      BY <1>2, <2>3, <3>1
    <3>2. CASE i # last
      <4>1. i \in 1 .. last /\ i + 1 \in 1 .. last /\ i \in a .. b - 1
        BY <1>1, <1>2, <1>3, <3>2 DEF Spans
      <4> QED
        BY <1>1, <1>2, <4>1 DEF Spans
    <3> QED
      BY <3>1, <3>2
  <2>5. more[last + 1].from + more[last + 1].bytes = gone + c.bytes
    BY <1>2
  <2> QED
    BY <1>1, <2>1, <2>2, <2>3, <2>4, <2>5 DEF Spans
<1> QED
  BY <1>2, <1>4 DEF Collected, more

\* A chunk that starts a unit behind those of others is what is collected of it.
LEMMA UnitStarts ==
  ASSUME NEW data \in Seq(CollectedChunks), NEW c \in CollectedChunks, NEW u,
         c.from = PesHeaderLength(u), c.disc = u.flags.disc, c.rai = u.flags.rai,
         \A i \in 1 .. Len(data) : data[i].number # c.number
  PROVE  Collected(Append(data, c), c.number, u, c.from + c.bytes)
<1> DEFINE more == Append(data, c)
           last == Len(data) + 1
<1>1. /\ Len(more) = last /\ last \in Nat \ {0} /\ Len(data) \in Nat
      /\ more[last] = c /\ \A i \in 1 .. Len(data) : more[i] = data[i]
  BY AppendProperties
<1> HIDE DEF more
<1>2. ASSUME NEW i \in 1 .. Len(more)
      PROVE  more[i].number = c.number <=> i \in last .. last
  BY <1>1, <1>2
<1>3. Spans(more, c.number, u, c.from + c.bytes, last, last)
  <2> HIDE DEF last
  <2> QED
    BY <1>1, <1>2 DEF Spans
<1> QED
  BY <1>1, <1>3 DEF Collected, more

\* What the builder has collected: the units from some number up to begun, all with its time,
\* of the last one so far the first `gone' bytes.
WellCollected(data, time, units, begun, gone) ==
  /\ data \in Seq(CollectedChunks) /\ data # <<>>
  /\ data[1].number \in 1 .. begun /\ data[Len(data)].number = begun
  /\ \A i \in 1 .. Len(data) : /\ data[i].number \in data[1].number .. begun
                               /\ IsChunkOf(data[i], units[data[i].number])
  /\ \A n \in data[1].number .. begun :
        /\ units[n].pts = time
        /\ Collected(data, n, units[n], IF n = begun THEN gone ELSE PesLength(units[n]))

HeldOf(data, units) == [i \in 1 .. CountIn(data) |-> Numbered(units, data[1].number + i - 1)]

AgreeUpTo(begun, units, more) == \A n \in 1 .. begun : more[n] = units[n]

AreUnits(begun, units) == \A n \in 1 .. begun : IsUnit(units[n])

\* What is collected is delivered as `held', and has bytes when one of these units has data.
IsDeliveredAs(data, time, held) ==
  /\ UnitsReceived(data, time) = held
  /\ (\E i \in DOMAIN data : ~data[i].empty) <=> \E i \in DOMAIN held : held[i].unit.size > 0
  /\ held[1].unit.pts = time

\* The units in the builder do not change when others go in.
LEMMA StaysCollected ==
  ASSUME NEW data, NEW time, NEW units, NEW begun \in Nat, NEW gone, NEW more,
         WellCollected(data, time, units, begun, gone), AgreeUpTo(begun, units, more)
  PROVE  WellCollected(data, time, more, begun, gone) /\ HeldOf(data, more) = HeldOf(data, units)
<1>1. /\ data \in Seq(CollectedChunks) /\ data # <<>>
      /\ data[1].number \in 1 .. begun /\ data[Len(data)].number = begun
  BY DEF WellCollected
<1>2. ASSUME NEW n \in data[1].number .. begun
      PROVE  n \in 1 .. begun /\ more[n] = units[n]
  BY <1>1, <1>2 DEF AgreeUpTo
<1>3. ASSUME NEW i \in 1 .. Len(data)
      PROVE  /\ data[i].number \in data[1].number .. begun
             /\ IsChunkOf(data[i], more[data[i].number])
  <2>1. data[i].number \in data[1].number .. begun /\ IsChunkOf(data[i], units[data[i].number])
    BY <1>3 DEF WellCollected
  <2> QED
    BY <1>2, <2>1
<1>4. ASSUME NEW n \in data[1].number .. begun
      PROVE  /\ more[n].pts = time
             /\ Collected(data, n, more[n], IF n = begun THEN gone ELSE PesLength(more[n]))
  BY <1>2, <1>4 DEF WellCollected
<1>5. ASSUME NEW i \in 1 .. CountIn(data)
      PROVE  more[data[1].number + i - 1] = units[data[1].number + i - 1]
  BY <1>1, <1>2 DEF CountIn
<1> QED
  BY <1>1, <1>3, <1>4, <1>5 DEF WellCollected, HeldOf, Numbered

\* The packet behind the first one of a unit makes the last unit longer, and no other.
LEMMA CollectsMore ==
  ASSUME NEW data, NEW time, NEW units, NEW begun \in Nat, NEW gone,
         WellCollected(data, time, units, begun, gone),
         NEW c \in CollectedChunks, c.number = begun, c.from = gone, IsChunkOf(c, units[begun]),
         NEW then, then = gone + c.bytes
  PROVE  /\ WellCollected(Append(data, c), time, units, begun, then)
         /\ HeldOf(Append(data, c), units) = HeldOf(data, units)
<1> DEFINE more == Append(data, c)
<1>1. /\ data \in Seq(CollectedChunks) /\ data # <<>>
      /\ data[1].number \in 1 .. begun /\ data[Len(data)].number = begun
  BY DEF WellCollected
<1>2. /\ more \in Seq(CollectedChunks) /\ more # <<>> /\ Len(more) = Len(data) + 1
      /\ Len(data) \in Nat \ {0} /\ more[1] = data[1]
      /\ more[Len(data) + 1] = c /\ \A i \in 1 .. Len(data) : more[i] = data[i]
  BY <1>1, AppendProperties, EmptySeq
<1>3. ASSUME NEW n \in data[1].number .. begun
      PROVE  /\ units[n].pts = time
             /\ Collected(more, n, units[n], IF n = begun THEN then ELSE PesLength(units[n]))
  <2>1. /\ units[n].pts = time
        /\ Collected(data, n, units[n], IF n = begun THEN gone ELSE PesLength(units[n]))
    BY <1>3 DEF WellCollected
  <2>2. CASE n = begun
    BY <1>1, <2>1, <2>2, LastUnitGrows
  <2>3. CASE n # begun
    BY <1>1, <2>1, <2>3, OthersStayCollected
  <2> QED
    BY <2>2, <2>3
<1>4. ASSUME NEW i \in 1 .. Len(more)
      PROVE  /\ more[i].number \in data[1].number .. begun
             /\ IsChunkOf(more[i], units[more[i].number])
  <2> HIDE DEF more
  <2>1. CASE i = Len(data) + 1
    BY <1>1, <1>2, <2>1
  <2>2. CASE i # Len(data) + 1
    <3>1. i \in 1 .. Len(data) /\ more[i] = data[i]
      BY <1>2, <2>2
    <3> QED
      BY <3>1 DEF WellCollected
  <2> QED
    BY <2>1, <2>2
<1>5. CountIn(more) = CountIn(data)
  BY <1>1, <1>2 DEF CountIn
<1> HIDE DEF more
<1>6. WellCollected(more, time, units, begun, then)
  BY <1>1, <1>2, <1>3, <1>4 DEF WellCollected
<1>7. HeldOf(more, units) = HeldOf(data, units)
  BY <1>2, <1>5 DEF HeldOf
<1> QED
  BY <1>6, <1>7 DEF more

\* The first packet of a unit with the time of those before it puts the unit behind them.
LEMMA CollectsAnother ==
  ASSUME NEW data, NEW time, NEW units, NEW begun \in Nat,
         WellCollected(data, time, units, begun, PesLength(units[begun])),
         NEW c \in CollectedChunks, c.number = begun + 1, IsChunkOf(c, units[begun + 1]),
         c.from = PesHeaderLength(units[begun + 1]),
         c.disc = units[begun + 1].flags.disc, c.rai = units[begun + 1].flags.rai,
         units[begun + 1].pts = time, NEW gone, gone = c.from + c.bytes
  PROVE  /\ WellCollected(Append(data, c), time, units, begun + 1, gone)
         /\ HeldOf(Append(data, c), units) = Append(HeldOf(data, units), Numbered(units, begun + 1))
<1> DEFINE more == Append(data, c)
<1>1. /\ data \in Seq(CollectedChunks) /\ data # <<>>
      /\ data[1].number \in 1 .. begun /\ data[Len(data)].number = begun
  BY DEF WellCollected
<1>2. /\ more \in Seq(CollectedChunks) /\ more # <<>> /\ Len(more) = Len(data) + 1
      /\ Len(data) \in Nat \ {0} /\ more[1] = data[1]
      /\ more[Len(data) + 1] = c /\ \A i \in 1 .. Len(data) : more[i] = data[i]
  BY <1>1, AppendProperties, EmptySeq
<1>3. ASSUME NEW i \in 1 .. Len(data)
      PROVE  data[i].number \in data[1].number .. begun /\ data[i].number # c.number
             /\ IsChunkOf(data[i], units[data[i].number])
  BY <1>1, <1>3 DEF WellCollected
<1>4. ASSUME NEW n \in data[1].number .. begun + 1
      PROVE  /\ units[n].pts = time
             /\ Collected(more, n, units[n], IF n = begun + 1 THEN gone ELSE PesLength(units[n]))
  <2>1. CASE n = begun + 1
    BY <1>1, <1>3, <2>1, UnitStarts
  <2>2. CASE n # begun + 1
    <3>1. n \in data[1].number .. begun
      BY <1>1, <2>2
    <3>2. units[n].pts = time /\ Collected(data, n, units[n], PesLength(units[n]))
      BY <3>1 DEF WellCollected
    <3> QED
      BY <1>1, <2>2, <3>2, OthersStayCollected
  <2> QED
    BY <2>1, <2>2
<1>5. ASSUME NEW i \in 1 .. Len(more)
      PROVE  /\ more[i].number \in data[1].number .. begun + 1
             /\ IsChunkOf(more[i], units[more[i].number])
  <2> HIDE DEF more
  <2>1. CASE i = Len(data) + 1
    BY <1>1, <1>2, <2>1
  <2>2. CASE i # Len(data) + 1
    <3>1. i \in 1 .. Len(data) /\ more[i] = data[i]
      BY <1>2, <2>2
    <3> QED
      BY <1>1, <1>3, <3>1
  <2> QED
    BY <2>1, <2>2
<1>6. CountIn(data) \in Nat /\ CountIn(more) = CountIn(data) + 1
      /\ data[1].number + (CountIn(data) + 1) - 1 = begun + 1
  <2> DEFINE first == data[1].number
  <2>1. CountIn(data) = begun - first + 1
    BY <1>1 DEF CountIn
  <2>2. CountIn(more) = (begun + 1) - first + 1
    <3>1. more # <<>> /\ more[1] = data[1] /\ more[Len(more)].number = begun + 1
      BY <1>2
    <3> HIDE DEF more
    <3> QED
      BY <3>1 DEF CountIn
  <2>3. first \in 1 .. begun
    BY <1>1
  <2> HIDE DEF first, more
  <2>4. CountIn(data) \in Nat /\ CountIn(more) = CountIn(data) + 1
        /\ first + (CountIn(data) + 1) - 1 = begun + 1
    BY <2>1, <2>2, <2>3
  <2> QED
    BY <2>4 DEF first, more
<1> HIDE DEF more
<1>7. WellCollected(more, time, units, begun + 1, gone)
  BY <1>1, <1>2, <1>4, <1>5 DEF WellCollected
<1>8. HeldOf(more, units) = Append(HeldOf(data, units), Numbered(units, begun + 1))
  <2> DEFINE k == CountIn(data)
             At(i) == Numbered(units, data[1].number + i - 1)
  <2>1. HeldOf(more, units) = [i \in 1 .. k + 1 |-> At(i)] /\ HeldOf(data, units) = [i \in 1 .. k |-> At(i)]
    BY <1>2, <1>6 DEF HeldOf
  <2>2. At(k + 1) = Numbered(units, begun + 1)
    BY <1>6
  <2>3. k \in Nat
    BY <1>6
  <2> HIDE DEF k, At
  <2>4. Append([i \in 1 .. k |-> At(i)], At(k + 1)) = [i \in 1 .. k + 1 |-> At(i)]
    BY <2>3
  <2> QED
    BY <2>1, <2>2, <2>4
<1> QED
  BY <1>7, <1>8 DEF more

\* The first packet of a unit with another time starts anew.
LEMMA CollectsAnew ==
  ASSUME NEW units, NEW begun \in Nat \ {0},
         NEW c \in CollectedChunks, c.number = begun, IsChunkOf(c, units[begun]),
         c.from = PesHeaderLength(units[begun]),
         c.disc = units[begun].flags.disc, c.rai = units[begun].flags.rai,
         NEW time, time = units[begun].pts, NEW gone, gone = c.from + c.bytes
  PROVE  /\ WellCollected(<<c>>, time, units, begun, gone)
         /\ HeldOf(<<c>>, units) = <<Numbered(units, begun)>>
<1> DEFINE data == <<c>>
<1>1. data = Append(<<>>, c) /\ <<>> \in Seq(CollectedChunks) /\ Len(<<>>) = 0
  BY EmptySeq
<1>2. /\ data \in Seq(CollectedChunks) /\ data # <<>> /\ Len(data) = 1 /\ data[1] = c
  OBVIOUS
<1>3. Collected(data, begun, units[begun], gone)
  <2>1. \A i \in 1 .. Len(<<>>) : <<>>[i].number # c.number
    BY <1>1
  <2> QED
    BY <1>1, <2>1, UnitStarts
<1> HIDE DEF data
<1>4. \A n \in begun .. begun : n = begun
  OBVIOUS
<1>5. CountIn(data) = 1
  BY <1>2 DEF CountIn
<1>6. WellCollected(data, time, units, begun, gone)
  BY <1>2, <1>3, <1>4 DEF WellCollected
<1>7. HeldOf(data, units) = <<Numbered(units, begun)>>
  <2>1. HeldOf(data, units) = [i \in 1 .. 1 |-> Numbered(units, begun + i - 1)]
    BY <1>2, <1>5 DEF HeldOf
  <2>2. begun + 1 - 1 = begun
    OBVIOUS
  <2> QED
    BY <2>1, <2>2
<1> QED
  BY <1>6, <1>7 DEF data

\* Once its last unit has gone out, what is collected has bytes when one of the units has data,
\* and is delivered as these units.
LEMMA CollectedIsHeld ==
  ASSUME NEW data, NEW time, NEW units, NEW begun \in Nat,
         WellCollected(data, time, units, begun, PesLength(units[begun])), AreUnits(begun, units)
  PROVE  IsDeliveredAs(data, time, HeldOf(data, units))
<1> DEFINE first == data[1].number
<1>1. /\ data \in Seq(CollectedChunks) /\ data # <<>>
      /\ first \in 1 .. begun /\ data[Len(data)].number = begun
      /\ DOMAIN data = 1 .. Len(data)
  BY DEF WellCollected
<1>2. ASSUME NEW n \in first .. begun
      PROVE  IsUnit(units[n]) /\ units[n].pts = time
             /\ Collected(data, n, units[n], PesLength(units[n]))
  BY <1>1, <1>2 DEF WellCollected, AreUnits
<1>3. CountIn(data) = begun - first + 1
  BY <1>1 DEF CountIn
<1>4. ASSUME NEW i \in 1 .. CountIn(data)
      PROVE  first + i - 1 \in first .. begun
  BY <1>1, <1>3, <1>4
<1>5. \A i \in 1 .. CountIn(data) :
        UnitReceived(data, time, first + i - 1) = Numbered(units, first + i - 1)
  BY <1>1, <1>2, <1>4, CollectedUnitIsWhole DEF Numbered
<1>6. UnitsReceived(data, time) = HeldOf(data, units)
  BY <1>5 DEF UnitsReceived, HeldOf
<1>7. /\ DOMAIN HeldOf(data, units) = 1 .. CountIn(data)
      /\ \A i \in 1 .. CountIn(data) : /\ HeldOf(data, units)[i].unit.size = units[first + i - 1].size
                                       /\ HeldOf(data, units)[i].unit.pts = units[first + i - 1].pts
  BY DEF HeldOf, Numbered, UnitOf
<1>8. HeldOf(data, units)[1].unit.pts = time
  <2>1. 1 \in 1 .. CountIn(data) /\ first + 1 - 1 = first /\ first \in first .. begun
    BY <1>1, <1>3
  <2> QED
    BY <1>2, <1>7, <2>1
<1>9. ASSUME NEW i \in DOMAIN data, ~data[i].empty
      PROVE  \E j \in 1 .. CountIn(data) : units[first + j - 1].size > 0
  <2> DEFINE n == data[i].number
             j == n - first + 1
  <2>1. n \in first .. begun /\ IsChunkOf(data[i], units[n]) /\ data[i] \in CollectedChunks
    BY <1>1, <1>9 DEF WellCollected
  <2>2. IsUnit(units[n])
    BY <1>2, <2>1
  <2>3. j \in 1 .. CountIn(data) /\ first + j - 1 = n
    BY <1>1, <1>3, <2>1
  <2>4. data[i].from \in Nat /\ data[i].bytes \in Nat \ {0}
    BY <1>9, <2>1 DEF IsChunkOf, CollectedChunks
  <2> HIDE DEF n
  <2>5. units[n].size > 0
    BY <2>1, <2>2, <2>4 DEF IsChunkOf, PesLength, IsUnit
  <2> QED
    BY <2>3, <2>5
<1>10. ASSUME NEW j \in 1 .. CountIn(data), units[first + j - 1].size > 0
       PROVE  \E i \in DOMAIN data : ~data[i].empty
  <2> DEFINE n == first + j - 1
             u == units[n]
  <2>1. n \in first .. begun /\ IsUnit(u) /\ Collected(data, n, u, PesLength(u))
    BY <1>2, <1>4
  <2>2. PICK a \in Nat, b \in Nat : Spans(data, n, u, PesLength(u), a, b)
    BY <2>1 DEF Collected
  <2> HIDE DEF n
  <2>3. /\ b \in 1 .. Len(data) /\ data[b].number = n /\ data[b].from + data[b].bytes = PesLength(u)
    BY <1>1, <2>2 DEF Spans
  <2>4. IsChunkOf(data[b], u) /\ data[b] \in CollectedChunks
    BY <1>1, <2>3 DEF WellCollected
  <2>5. data[b].bytes # 0
    <3>1. u.size > 0
      BY <1>10 DEF n
    <3>2. data[b].from \in Nat /\ data[b].bytes \in Nat
      BY <2>4 DEF CollectedChunks
    <3> HIDE DEF u
    <3> QED
      BY <2>1, <2>3, <2>4, <3>1, <3>2 DEF IsChunkOf, PesLength, IsUnit
  <2> QED
    BY <1>1, <2>3, <2>4, <2>5 DEF IsChunkOf
<1> QED
  BY <1>6, <1>7, <1>8, <1>9, <1>10 DEF IsDeliveredAs

-----------------------------------------------------------------------------
(* The path implements UnitPipe.  A unit goes in with its first packet.     *)

\* How much has gone out of the last unit that has begun to.
Gone == IF unit # <<>> /\ unit[1].remaining # unit[1].of THEN unit[1].of - unit[1].remaining
        ELSE PesLength(sent[Begun])

\* The unit that goes out is the last one sent, and its first packet takes all of its header.
UnitInv ==
  unit # <<>> =>
    /\ unit[1].number = Len(sent) /\ unit[1].of = PesLength(sent[Len(sent)])
    /\ unit[1].remaining <= unit[1].of
    /\ unit[1].remaining # unit[1].of =>
          unit[1].of - unit[1].remaining >= PesHeaderLength(sent[Len(sent)])

\* The builder expects the next counter of the track.
CounterInv ==
  /\ lastEmittedCc \in 0 .. 15
  /\ esChecker.hasLastCC => /\ esChecker.lastCC = lastEmittedCc
                            /\ esCc = (lastEmittedCc + 1) % 16
  /\ pcrSent => esChecker.hasLastCC

\* The builder has what has gone out of the units it collects.
CollectInv ==
  IF Begun = 0 THEN collecting = FALSE /\ collectedData = <<>>
  ELSE collecting = TRUE /\ WellCollected(collectedData, pts, sent, Begun, Gone)

PathInv == WholeInv /\ UnitInv /\ CounterInv /\ CollectInv

\* The units have the sizes of their kind.
LEMMA UnitsAreUnits ==
  ASSUME UnitAssumption, NEW u \in Units
  PROVE  IsUnit(u) /\ AreFlags(u.flags) /\ PesLength(u) \in Nat \ {0} /\ PesHeaderLength(u) <= PesLength(u)
BY UnitAssumption DEF IsUnit, AreFlags, PesLength, PesHeaderLength

\* The lengths of the chunk in the first packet of a PES packet, and in the ones behind it.
LEMMA ChunkLengths ==
  ASSUME NEW length \in Nat, NEW head \in Nat, NEW remaining \in Nat, NEW taken \in Nat,
         taken <= remaining, remaining <= length,
         NEW from, NEW bytes,
         \/ remaining = length /\ taken >= head /\ from = head /\ bytes = taken - head
         \/ length - remaining >= head /\ from = length - remaining /\ bytes = taken
  PROVE  /\ from \in Nat /\ bytes \in Nat /\ from >= head
         /\ from + bytes = length - (remaining - taken) /\ from + bytes <= length
OBVIOUS

\* What a builder reads of a packet of unit u where `remaining' is left: the header of the first
\* one, and the chunk that follows what has gone before.
IsReadOf(p, q, u, number, remaining, first, cc) ==
  /\ IsReceived(p) /\ p.cc = cc /\ p.bytes \in 1 .. remaining
  /\ q.cc = cc /\ q.payload = TRUE /\ q.pusi = first /\ q.header = first
  /\ first => q.pts = u.pts
  /\ q.chunk \in CollectedChunks /\ q.chunk.number = number
  /\ IsChunkOf(q.chunk, u)
  /\ q.chunk.from = IF first THEN PesHeaderLength(u) ELSE PesLength(u) - remaining
  /\ q.chunk.from + q.chunk.bytes = PesLength(u) - (remaining - p.bytes)
  /\ first => q.chunk.disc = u.flags.disc /\ q.chunk.rai = u.flags.rai

LEMMA UnitPacketRead ==
  ASSUME UnitAssumption, NEW u \in Units, NEW number \in Nat, sent[number] = u,
         NEW remaining \in 1 .. PesLength(u), NEW first \in BOOLEAN,
         first <=> remaining = PesLength(u),
         ~first => PesLength(u) - remaining >= PesHeaderLength(u),
         NEW cc \in 0 .. 15,
         NEW p, p = PacketOf(PesLength(u), remaining, first, u.flags, cc),
         NEW q, q = PesPacketRead(number, Received(p))
  PROVE  IsReadOf(p, q, u, number, remaining, first, cc)
<1> DEFINE length == PesLength(u)
           head   == PesHeaderLength(u)
           flags  == u.flags
           r      == Received(p)
<1>1. /\ length \in Nat \ {0} /\ head \in Nat \ {0} /\ head <= 19 /\ head <= length /\ AreFlags(flags)
  BY UnitsAreUnits DEF IsUnit
<1>2. /\ p.bytes \in 1 .. remaining /\ (p.bytes = remaining \/ p.bytes >= 176)
      /\ IsReceived(p) /\ r.payload = TRUE
      /\ r.from = length - remaining /\ r.bytes = p.bytes
      /\ r.cc = cc /\ r.pusi = first
      /\ r.disc = (flags.disc /\ first) /\ r.rai = (flags.rai /\ first)
  <2>1. /\ p = PacketOf(length, remaining, first, flags, cc)
        /\ length \in Nat /\ remaining \in Nat /\ remaining > 0 /\ AreFlags(flags)
    BY <1>1
  <2> HIDE DEF length, flags
  <2>2. IsReadAsCut(p, length, remaining, first, flags, cc)
    BY <2>1, CutAndRead
  <2> QED
    BY <2>2 DEF IsReadAsCut
<1>3. p.cc = cc
  BY DEF PacketOf
<1> DEFINE header == r.pusi /\ IsHeaderRead(u, r)
           offset == IF header THEN head ELSE 0
<1>4. /\ q.cc = r.cc /\ q.payload = r.payload /\ q.pusi = r.pusi /\ q.header = header
      /\ q.pts = IF header THEN u.pts ELSE NoTime
      /\ q.chunk = [number |-> number, from |-> r.from + offset, bytes |-> r.bytes - offset,
                    empty |-> r.bytes = offset, disc |-> r.disc, rai |-> r.rai]
  BY DEF PesPacketRead
<1>5. /\ remaining \in Nat /\ remaining <= length /\ (first => remaining = length)
      /\ ~first => length - remaining >= head
  BY <1>1
<1> HIDE DEF header, offset, r, length, head, flags
<1>6. p.bytes \in Nat /\ p.bytes <= remaining
  BY <1>2, <1>5
<1>7. first => p.bytes >= head /\ length - remaining = 0
  <2>1. first => length - remaining = 0
    BY <1>1, <1>5
  <2>2. p.bytes = remaining \/ p.bytes >= 176
    BY <1>2
  <2> QED
    BY ONLY <1>1, <1>5, <1>6, <2>1, <2>2
<1>8. (header <=> first) /\ offset = IF first THEN head ELSE 0
  <2>1. header <=> first
    BY <1>2, <1>7 DEF header, head, IsHeaderRead
  <2> QED
    BY <2>1 DEF offset
<1>9. /\ q.chunk.number = number
      /\ q.chunk.from = IF first THEN head ELSE length - remaining
      /\ q.chunk.bytes = IF first THEN p.bytes - head ELSE p.bytes
      /\ q.chunk.empty <=> p.bytes = offset
      /\ q.chunk.disc = (flags.disc /\ first) /\ q.chunk.rai = (flags.rai /\ first)
  <2>1. /\ q.chunk.number = number /\ q.chunk.from = r.from + offset
        /\ q.chunk.bytes = r.bytes - offset
        /\ q.chunk.disc = r.disc /\ q.chunk.rai = r.rai
    BY <1>4
  <2>2. q.chunk.empty = (r.bytes = offset)
    BY <1>4
  <2>3. CASE first
    <3>1. r.from + offset = head
      BY <1>1, <1>2, <1>7, <1>8, <2>3
    <3> QED
      BY <1>2, <1>8, <2>1, <2>2, <2>3, <3>1
  <2>4. CASE ~first
    <3>1. r.from + offset = length - remaining /\ r.bytes - offset = p.bytes
      BY <1>1, <1>2, <1>5, <1>6, <1>8, <2>4
    <3> QED
      BY <1>2, <1>8, <2>1, <2>2, <2>4, <3>1
  <2> QED
    BY <2>3, <2>4
<1>10. /\ q.chunk.from \in Nat /\ q.chunk.bytes \in Nat /\ q.chunk.from >= head
       /\ q.chunk.from + q.chunk.bytes = length - (remaining - p.bytes)
       /\ q.chunk.from + q.chunk.bytes <= length
  <2>1. \/ /\ remaining = length /\ p.bytes >= head
           /\ q.chunk.from = head /\ q.chunk.bytes = p.bytes - head
        \/ /\ length - remaining >= head
           /\ q.chunk.from = length - remaining /\ q.chunk.bytes = p.bytes
    BY <1>5, <1>7, <1>9
  <2> QED
    BY <1>1, <1>5, <1>6, <2>1, ChunkLengths
<1>11. (q.chunk.empty <=> q.chunk.bytes = 0) /\ (q.chunk.bytes = 0 => q.chunk.from = head)
  <2>1. CASE first
    <3>1. /\ q.chunk.from = head /\ q.chunk.bytes = p.bytes - head
          /\ q.chunk.empty <=> p.bytes = head
      BY <1>8, <1>9, <2>1
    <3>2. p.bytes - head = 0 <=> p.bytes = head
      BY ONLY <1>1, <1>6
    <3> QED
      BY <3>1, <3>2
  <2>2. CASE ~first
    BY <1>2, <1>8, <1>9, <2>2
  <2> QED
    BY <2>1, <2>2
<1>12. q.chunk \in CollectedChunks
  <2>1. r.disc \in BOOLEAN /\ r.rai \in BOOLEAN
    BY <1>1, <1>2 DEF AreFlags
  <2> QED
    BY <1>4, <1>9, <1>10, <2>1 DEF CollectedChunks
<1>13. IsChunkOf(q.chunk, u)
  BY <1>10, <1>11 DEF IsChunkOf, length, head
<1>14. /\ q.header = first /\ (first => q.pts = u.pts)
       /\ first => q.chunk.disc = u.flags.disc /\ q.chunk.rai = u.flags.rai
  <2>1. first => q.chunk.disc = flags.disc /\ q.chunk.rai = flags.rai
    BY <1>1, <1>9 DEF AreFlags
  <2> QED
    BY <1>4, <1>8, <2>1 DEF header, flags
<1> QED
  BY <1>2, <1>3, <1>4, <1>9, <1>10, <1>12, <1>13, <1>14 DEF length, head, IsReadOf

\* What the path does when nothing of a unit goes out.
LEMMA PathKept ==
  ASSUME PathInv, WholeInv',
         UNCHANGED <<unit, sent, esCc, lastEmittedCc, pcrSent, received,
                     esChecker, collecting, collectedData, pts>>
  PROVE  PathInv' /\ UNCHANGED <<WentIn, Held, received>>
<1>1. Begun' = Begun /\ Gone' = Gone
  BY DEF Begun, Gone, PesLength, PesHeaderLength
<1>2. UnitInv'
  BY DEF PathInv, UnitInv, PesLength, PesHeaderLength
<1>3. CounterInv'
  BY DEF PathInv, CounterInv
<1>4. CollectInv'
  BY <1>1 DEF PathInv, CollectInv
<1>5. Held' = Held
  BY DEF Held, CountIn, Numbered, UnitOf, PesHeaderLength
<1>6. WentIn' = WentIn
  BY <1>1 DEF WentIn, UnitOf, PesHeaderLength
<1> QED
  BY <1>2, <1>3, <1>4, <1>5, <1>6 DEF PathInv

\* A unit that is put in begins to go out later.
LEMMA PathUnitBegins ==
  ASSUME UnitAssumption, PathInv, WholeInv', BeginUnit
  PROVE  PathInv' /\ UNCHANGED <<WentIn, Held, received>>
<1>1. PICK u \in Units :
        /\ sent' = Append(sent, u)
        /\ unit' = <<[number |-> Len(sent) + 1, of |-> PesLength(u), remaining |-> PesLength(u)]>>
  BY DEF BeginUnit
<1>2. unit = <<>> /\ UNCHANGED <<esCc, lastEmittedCc, pcrSent, received,
                               esChecker, collecting, collectedData, pts>>
  BY DEF BeginUnit, esVars
<1>3. sent \in Seq(Units)
  BY DEF PathInv, WholeInv, JobsInv
<1>4. /\ Len(sent') = Len(sent) + 1 /\ Len(sent) \in Nat
      /\ sent'[Len(sent) + 1] = u /\ \A n \in 1 .. Len(sent) : sent'[n] = sent[n]
  BY <1>1, <1>3, AppendProperties
<1>5. /\ unit' # <<>> /\ unit'[1].number = Len(sent) + 1
      /\ unit'[1].of = PesLength(u) /\ unit'[1].remaining = PesLength(u)
  BY <1>1
<1>6. Begun = Len(sent) /\ Begun' = Len(sent)
  BY <1>2, <1>4, <1>5 DEF Begun
<1>7. Begun # 0 => Gone' = Gone
  <2>1. Gone = PesLength(sent[Len(sent)]) /\ Gone' = PesLength(sent'[Len(sent)])
    BY <1>2, <1>5, <1>6 DEF Gone
  <2> QED
    BY <1>4, <1>6, <2>1
<1>8. UnitInv'
  <2>1. PesLength(u) \in Nat
    BY <1>1, UnitsAreUnits
  <2> QED
    BY <1>4, <1>5, <2>1 DEF UnitInv, PesLength
<1>9. CounterInv'
  BY <1>2 DEF PathInv, CounterInv
<1>10. WentIn' = WentIn
  <2>1. \A i \in 1 .. Begun : sent'[i] = sent[i]
    BY <1>4, <1>6
  <2>2. \A i \in 1 .. Begun : UnitOf(sent'[i]) = UnitOf(sent[i])
    BY <2>1
  <2>3. WentIn' = [i \in 1 .. Begun |-> UnitOf(sent'[i])]
    BY <1>6 DEF WentIn, UnitOf, PesHeaderLength
  <2> QED
    BY <2>2, <2>3 DEF WentIn
<1>11. CASE Begun = 0
  <2>1. collecting = FALSE /\ collectedData = <<>>
    BY <1>11 DEF PathInv, CollectInv
  <2>2. CollectInv'
    BY <1>2, <1>6, <1>11, <2>1 DEF CollectInv
  <2>3. Held' = Held
    <3>1. CountIn(collectedData) = 0 /\ CountIn(collectedData)' = 0
      BY <1>2, <2>1 DEF CountIn
    <3>2. \A i : i \notin 1 .. 0
      OBVIOUS
    <3> QED
      BY <3>1, <3>2 DEF Held
  <2> QED
    BY <1>2, <1>8, <1>9, <1>10, <2>2, <2>3 DEF PathInv
<1>12. CASE Begun # 0
  <2>1. collecting = TRUE /\ WellCollected(collectedData, pts, sent, Begun, Gone)
    BY <1>12 DEF PathInv, CollectInv
  <2> DEFINE units == sent'
  <2>2. Begun \in Nat /\ AgreeUpTo(Begun, sent, units)
    BY <1>4, <1>6 DEF AgreeUpTo
  <2> HIDE DEF units
  <2>3. /\ WellCollected(collectedData, pts, units, Begun, Gone)
        /\ HeldOf(collectedData, units) = HeldOf(collectedData, sent)
    BY <2>1, <2>2, StaysCollected
  <2>4. WellCollected(collectedData, pts, sent, Begun, Gone)'
    <3>1. collectedData' = collectedData /\ pts' = pts /\ sent' = units /\ Begun' = Begun /\ Gone' = Gone
      BY <1>2, <1>6, <1>7, <1>12 DEF units
    <3> QED
      BY <2>3, <3>1
  <2>5. CollectInv'
    BY <1>2, <1>6, <1>12, <2>1, <2>4 DEF CollectInv
  <2>6. Held' = Held
    <3>1. Held = HeldOf(collectedData, sent)
      BY DEF Held, HeldOf
    <3>2. Held' = HeldOf(collectedData, units)
      BY <1>2 DEF Held, HeldOf, units
    <3> QED
      BY <2>3, <3>1, <3>2
  <2> QED
    BY <1>2, <1>8, <1>9, <1>10, <2>5, <2>6 DEF PathInv
<1> QED
  BY <1>11, <1>12

IsReadAsCopy(p, n, cc) ==
  IsReceived(p) /\ PesPacketRead(n, Received(p)).cc = cc /\ PesPacketRead(n, Received(p)).disc = FALSE

\* What is read of a standalone PCR: the counter of the packet before it, and no discontinuity.
LEMMA PcrPacketRead ==
  ASSUME NEW cc \in 0 .. 15, NEW n
  PROVE  IsReadAsCopy(PcrPacketOf(cc), n, cc)
<1> DEFINE f == AdaptationField(TRUE, FALSE, FALSE, 0)
           p == PcrPacketOf(cc)
<1>1. PacketSpace = 184 /\ TS_PACKET_SIZE_188 = 188 /\ TS_PACKET_HEADER_SIZE = 4
  BY DEF PacketSpace, TS_PACKET_SIZE_188, TS_PACKET_HEADER_SIZE
<1>2. p.field = <<f>> /\ p.payload = FALSE /\ p.cc = cc
  BY DEF PcrPacketOf
<1> HIDE DEF p
<1>3. f.disc = FALSE
  BY DEF AdaptationField
<1>4. f.length \in Nat /\ FieldBytes(<<f>>) = 1 + f.length /\ FieldBytes(<<f>>) = PacketSpace
  <2>1. TRUE \in BOOLEAN /\ FALSE \in BOOLEAN /\ 0 \in Nat
    OBVIOUS
  <2> QED
    BY <2>1, FieldFills
<1> HIDE DEF f
<1>5. p.field[1] = f /\ p.field # <<>>
  BY <1>2
<1>6. PayloadOffset(p) = 188
  BY <1>1, <1>4, <1>5 DEF PayloadOffset
<1>7. IsReceived(p)
  BY <1>1, <1>2, <1>6 DEF IsReceived
<1>8. Received(p).cc = cc /\ Received(p).disc = FALSE
  <2>1. Received(p).cc = cc % 16
    BY <1>2 DEF Received, HeaderRead
  <2>2. Received(p).disc = FALSE
    BY <1>3, <1>5 DEF Received
  <2> QED
    BY <2>1, <2>2
<1>9. IsReadAsCopy(p, n, cc)
  BY <1>7, <1>8 DEF PesPacketRead, IsReadAsCopy
<1> QED
  BY <1>9 DEF p

\* The builder takes a standalone PCR for a copy of the packet before it.
LEMMA PathPcrSend ==
  ASSUME PathInv, WholeInv', SendPcr
  PROVE  PathInv' /\ UNCHANGED <<WentIn, Held, received>>
<1> DEFINE p == PcrPacketOf(lastEmittedCc)
           q == PesPacketRead(Len(sent), Received(p))
<1>1. pcrSent /\ ReceiveOnEsPid(p, Len(sent)) /\ UNCHANGED <<esCc, lastEmittedCc, pcrSent, unit, sent>>
  BY DEF SendPcr
<1>2. esChecker.hasLastCC /\ esChecker.lastCC = lastEmittedCc /\ lastEmittedCc \in 0 .. 15
      /\ esCc = (lastEmittedCc + 1) % 16
  BY <1>1 DEF PathInv, CounterInv
<1>3. IsReceived(p) /\ q.cc = lastEmittedCc /\ q.disc = FALSE
  <2>1. IsReadAsCopy(PcrPacketOf(lastEmittedCc), Len(sent), lastEmittedCc)
    BY <1>2, PcrPacketRead
  <2> QED
    BY <2>1 DEF IsReadAsCopy
<1>4. ES!AddTsPacket(q) /\ received' = IF delivered' = <<>> THEN received
          ELSE Append(received, UnitsReceived(delivered'[1].data, delivered'[1].pts))
  BY <1>1, <1>3 DEF ReceiveOnEsPid
<1> HIDE DEF p, q
<1>5. ES!Check(esChecker, q) = "Duplicate"
  BY <1>2, <1>3 DEF ES!Check
<1>6. ES!Nothing /\ esChecker' = [hasLastCC |-> TRUE, lastCC |-> q.cc]
  BY <1>4, <1>5 DEF ES!AddTsPacket, ES!Checked
<1>7. UNCHANGED <<collecting, collectedData, pts, received>>
  BY <1>4, <1>6 DEF ES!Nothing
<1>8. CounterInv'
  BY <1>1, <1>2, <1>3, <1>6 DEF CounterInv
<1>9. UnitInv' /\ CollectInv' /\ Held' = Held /\ WentIn' = WentIn
  <2>1. Begun' = Begun /\ Gone' = Gone
    BY <1>1 DEF Begun, Gone, PesLength, PesHeaderLength
  <2>2. UnitInv'
    BY <1>1 DEF PathInv, UnitInv, PesLength, PesHeaderLength
  <2>3. CollectInv'
    BY <1>1, <1>7, <2>1 DEF PathInv, CollectInv
  <2>4. Held' = Held
    BY <1>1, <1>7 DEF Held, CountIn, Numbered, UnitOf, PesHeaderLength
  <2>5. WentIn' = WentIn
    BY <1>1, <2>1 DEF WentIn, UnitOf, PesHeaderLength
  <2> QED
    BY <2>2, <2>3, <2>4, <2>5
<1> QED
  BY <1>7, <1>8, <1>9 DEF PathInv

\* What a packet of a unit does, but for what the builder makes of it.
LEMMA PathUnitPacket ==
  ASSUME UnitAssumption, PathInv, SendOfUnit
  PROVE  \E p, q : \E first \in BOOLEAN :
            LET u == sent[Len(sent)]
            IN  /\ Len(sent) \in Nat \ {0} /\ u \in Units
                /\ IsReadOf(p, q, u, Len(sent), unit[1].remaining, first, esCc)
                /\ first <=> unit[1].remaining = unit[1].of
                /\ unit[1].remaining \in 1 .. PesLength(u) /\ unit[1].of = PesLength(u)
                /\ unit' = IF unit[1].remaining = p.bytes THEN <<>>
                           ELSE <<[unit[1] EXCEPT !.remaining = @ - p.bytes]>>
                /\ esCc' = IF p.bytes > 0 THEN (esCc + 1) % 16 ELSE esCc
                /\ lastEmittedCc' = p.cc
                /\ ES!AddTsPacket(q)
<1> DEFINE job    == unit[1]
           n      == Len(sent)
           u      == sent[n]
           flags  == sent[job.number].flags
           starts == (job.remaining = job.of)
           p      == PacketOf(job.of, job.remaining, starts, flags, esCc)
           q      == PesPacketRead(job.number, Received(p))
<1>1. /\ job.number = n /\ job.of = PesLength(u) /\ n \in Nat \ {0} /\ u \in Units
      /\ esCc \in 0 .. 15 /\ job.remaining \in Nat \ {0} /\ job.remaining <= job.of
      /\ ~starts => PesLength(u) - job.remaining >= PesHeaderLength(u)
  <2>1. unit # <<>>
    BY DEF SendOfUnit
  <2>2. n \in Nat /\ job.number \in 1 .. n /\ sent \in Seq(Units) /\ esCc \in 0 .. 15
        /\ job.remaining \in Nat \ {0}
    BY <2>1 DEF PathInv, WholeInv, JobsInv
  <2>3. /\ job.number = n /\ job.of = PesLength(u) /\ job.remaining <= job.of
        /\ ~starts => PesLength(u) - job.remaining >= PesHeaderLength(u)
    BY <2>1 DEF PathInv, UnitInv
  <2> QED
    BY <2>2, <2>3
<1>2. /\ unit' = IF job.remaining = p.bytes THEN <<>>
                 ELSE <<[job EXCEPT !.remaining = @ - p.bytes]>>
      /\ esCc' = IF p.bytes > 0 THEN (esCc + 1) % 16 ELSE esCc
      /\ lastEmittedCc' = p.cc
      /\ ReceiveOnEsPid(p, job.number)
  BY DEF SendOfUnit
<1>3. PICK first \in BOOLEAN : /\ first <=> starts
                               /\ p = PacketOf(job.of, job.remaining, first, flags, esCc)
  <2>1. starts \in BOOLEAN
    OBVIOUS
  <2> QED
    BY ONLY <2>1
<1>4. flags = u.flags
  BY <1>1
<1>5. IsReadOf(p, q, u, n, job.remaining, first, esCc)
  <2>1. job.remaining \in 1 .. PesLength(u) /\ PesLength(u) \in Nat
    BY <1>1, UnitsAreUnits
  <2>2. first <=> job.remaining = PesLength(u)
    BY <1>1, <1>3
  <2>3. ~first => PesLength(u) - job.remaining >= PesHeaderLength(u)
    BY <1>1, <1>3
  <2>4. sent[n] = u /\ p = PacketOf(PesLength(u), job.remaining, first, u.flags, esCc)
    BY <1>1, <1>3, <1>4
  <2>5. q = PesPacketRead(n, Received(p))
    BY <1>1
  <2> HIDE DEF p, q, n, u, flags, job
  <2> QED
    BY <1>1, <2>1, <2>2, <2>3, <2>4, <2>5, UnitPacketRead
<1>6. ES!AddTsPacket(q)
  <2>1. IsReceived(p)
    BY <1>5 DEF IsReadOf
  <2> QED
    BY <1>2, <2>1 DEF ReceiveOnEsPid
<1> HIDE DEF p, q
<1>7. job.remaining \in 1 .. PesLength(u)
  BY <1>1, UnitsAreUnits
<1> QED
  BY <1>1, <1>2, <1>3, <1>5, <1>6, <1>7

\* Each packet of a unit goes on with what the builder has of it; the first one puts the unit
\* into the pipe.
LEMMA PathUnitSend ==
  ASSUME UnitAssumption, PathInv, WholeInv', SendOfUnit
  PROVE  PathInv' /\ (Pipe!Next \/ UNCHANGED <<WentIn, Held, received>>)
<1> DEFINE n == Len(sent)
           u == sent[n]
           remaining == unit[1].remaining
           length == PesLength(u)
           head == PesHeaderLength(u)
<1>1. PICK p, q : \E first \in BOOLEAN :
        /\ n \in Nat \ {0} /\ u \in Units
        /\ IsReadOf(p, q, u, n, remaining, first, esCc)
        /\ first <=> remaining = unit[1].of
        /\ remaining \in 1 .. length /\ unit[1].of = length
        /\ unit' = IF remaining = p.bytes THEN <<>>
                   ELSE <<[unit[1] EXCEPT !.remaining = @ - p.bytes]>>
        /\ esCc' = IF p.bytes > 0 THEN (esCc + 1) % 16 ELSE esCc
        /\ lastEmittedCc' = p.cc
        /\ ES!AddTsPacket(q)
  BY PathUnitPacket
<1>2. PICK first \in BOOLEAN :
        /\ n \in Nat \ {0} /\ u \in Units
        /\ IsReadOf(p, q, u, n, remaining, first, esCc)
        /\ first <=> remaining = unit[1].of
        /\ remaining \in 1 .. length /\ unit[1].of = length
        /\ unit' = IF remaining = p.bytes THEN <<>>
                   ELSE <<[unit[1] EXCEPT !.remaining = @ - p.bytes]>>
        /\ esCc' = IF p.bytes > 0 THEN (esCc + 1) % 16 ELSE esCc
        /\ lastEmittedCc' = p.cc
        /\ ES!AddTsPacket(q)
  BY <1>1
<1> DEFINE c == q.chunk
<1>3. /\ sent' = sent
      /\ received' = IF delivered' = <<>> THEN received
                     ELSE Append(received, UnitsReceived(delivered'[1].data, delivered'[1].pts))
  BY DEF SendOfUnit, ReceiveOnEsPid
<1>4. unit # <<>> /\ unit[1].number = n
  BY DEF SendOfUnit, PathInv, UnitInv
<1>5. sent \in Seq(Units) /\ \A i \in 1 .. n : IsUnit(sent[i])
  BY UnitsAreUnits DEF PathInv, WholeInv, JobsInv
<1>6. /\ length \in Nat \ {0} /\ head \in Nat \ {0} /\ head <= length
      /\ p.bytes \in 1 .. remaining /\ remaining \in 1 .. length
  BY <1>2, UnitsAreUnits DEF IsReadOf, IsUnit
<1>7. /\ c \in CollectedChunks /\ c.number = n /\ IsChunkOf(c, u)
      /\ c.from = IF first THEN head ELSE length - remaining
      /\ c.from + c.bytes = length - (remaining - p.bytes)
      /\ first => c.disc = u.flags.disc /\ c.rai = u.flags.rai
      /\ q.cc = esCc /\ q.payload = TRUE /\ q.pusi = first /\ q.header = first
      /\ first => q.pts = u.pts
      /\ p.cc = esCc
  BY <1>2 DEF IsReadOf
<1> HIDE DEF c
<1>8. /\ lastEmittedCc \in 0 .. 15 /\ esCc \in 0 .. 15
      /\ esChecker.hasLastCC => /\ esChecker.lastCC = lastEmittedCc
                                /\ esCc = (lastEmittedCc + 1) % 16
  BY DEF PathInv, WholeInv, JobsInv, CounterInv
<1>9. ES!Check(esChecker, q) = "OK"
  <2>1. CASE esChecker.hasLastCC
    <3>1. esCc # lastEmittedCc /\ esCc = (lastEmittedCc + 1) % 16 /\ esChecker.lastCC = lastEmittedCc
      BY <1>8, <2>1
    <3>2. q.cc # esChecker.lastCC /\ q.cc = ES!NextCC(esChecker.lastCC)
      BY <1>7, <3>1 DEF ES!NextCC
    <3> QED
      BY <1>7, <3>2 DEF ES!Check
  <2>2. CASE ~esChecker.hasLastCC
    BY <2>2 DEF ES!Check
  <2> QED
    BY <2>1, <2>2
<1>10. /\ esChecker' = [hasLastCC |-> TRUE, lastCC |-> q.cc]
       /\ IF first THEN ES!StartPes(q) ELSE ES!ContinuePes(q)
  BY <1>2, <1>7, <1>9 DEF ES!AddTsPacket, ES!Checked
<1>11. CounterInv'
  <2>1. esCc' = (esCc + 1) % 16 /\ lastEmittedCc' = esCc
    BY <1>2, <1>6, <1>7
  <2> QED
    BY <1>7, <1>8, <1>10, <2>1 DEF CounterInv
<1>12. \/ unit' = <<>> /\ remaining = p.bytes
       \/ /\ unit' # <<>> /\ unit'[1].number = n /\ unit'[1].of = length
          /\ unit'[1].remaining = remaining - p.bytes /\ remaining # p.bytes
  <2>1. CASE remaining = p.bytes
    BY <1>2, <2>1
  <2>2. CASE remaining # p.bytes
    <3>1. unit'[1] = [unit[1] EXCEPT !.remaining = @ - p.bytes] /\ unit' # <<>>
      BY <1>2, <2>2
    <3>2. /\ unit'[1].number = unit[1].number /\ unit'[1].of = unit[1].of
          /\ unit'[1].remaining = unit[1].remaining - p.bytes
      BY <3>1
    <3> QED
      BY <1>2, <1>4, <2>2, <3>1, <3>2
  <2> QED
    BY <2>1, <2>2
<1>13. UnitInv' /\ Begun' = n /\ Gone' = c.from + c.bytes
  <2> DEFINE taken == p.bytes
             left  == remaining - taken
  <2>1. /\ remaining \in Nat /\ taken \in Nat \ {0} /\ left \in Nat /\ left <= length /\ left # length
        /\ c.from + c.bytes = length - left /\ length - left >= head
    <3>1. c.from >= head /\ c.from \in Nat /\ c.bytes \in Nat
      BY <1>7 DEF IsChunkOf, CollectedChunks
    <3>2. remaining \in Nat /\ remaining <= length /\ taken \in Nat \ {0} /\ taken <= remaining
      BY <1>6
    <3> HIDE DEF remaining, length, head, taken
    <3>3. left \in Nat /\ left <= length /\ left # length
      BY <1>6, <3>2
    <3>4. c.from + c.bytes = length - left
      BY <1>7 DEF taken
    <3> QED
      BY <1>6, <3>1, <3>2, <3>3, <3>4
  <2>2. n' = n /\ PesLength(sent[n])' = length /\ PesHeaderLength(sent[n])' = head
    BY <1>3 DEF PesLength, PesHeaderLength
  <2>3. CASE unit' = <<>> /\ remaining = taken
    <3>1. left = 0
      BY <2>1, <2>3
    <3>2. Begun' = n
      BY <1>3, <2>3 DEF Begun
    <3>3. Gone' = length
      BY <1>3, <2>3, <3>2 DEF Gone, PesLength, PesHeaderLength
    <3>4. UnitInv'
      BY <2>3 DEF UnitInv
    <3> QED
      BY <1>6, <2>1, <3>1, <3>2, <3>3, <3>4
  <2>4. CASE /\ unit' # <<>> /\ unit'[1].number = n /\ unit'[1].of = length
             /\ unit'[1].remaining = left /\ remaining # taken
    <3> HIDE DEF left, length, head, remaining
    <3>1. Begun' = n
      BY <1>3, <2>1, <2>4 DEF Begun
    <3>2. Gone' = length - left
      BY <2>1, <2>4 DEF Gone
    <3>3. UnitInv'
      BY <1>3, <2>1, <2>2, <2>4 DEF UnitInv
    <3> QED
      BY <2>1, <3>1, <3>2, <3>3
  <2> QED
    BY <1>12, <2>3, <2>4
<1>14. CASE ~first
  <2>1. Begun = n /\ Gone = c.from
    <3>1. unit[1].remaining # unit[1].of /\ c.from = length - remaining /\ unit[1].of = length
      BY <1>2, <1>7, <1>14
    <3> QED
      BY <1>4, <3>1 DEF Begun, Gone
  <2>2. collecting = TRUE /\ WellCollected(collectedData, pts, sent, n, c.from)
    BY <1>2, <2>1 DEF PathInv, CollectInv
  <2>3. /\ collectedData' = Append(collectedData, c)
        /\ collecting' = TRUE /\ pts' = pts /\ delivered' = <<>>
    BY <1>10, <1>14, <2>2 DEF ES!ContinuePes, c
  <2>4. /\ WellCollected(Append(collectedData, c), pts, sent, n, c.from + c.bytes)
        /\ HeldOf(Append(collectedData, c), sent) = HeldOf(collectedData, sent)
    <3>1. n \in Nat /\ c \in CollectedChunks /\ c.number = n /\ IsChunkOf(c, sent[n])
      BY <1>2, <1>7
    <3> HIDE DEF n
    <3> QED
      BY <2>2, <3>1, CollectsMore
  <2>5. WellCollected(collectedData, pts, sent, Begun, Gone)'
    BY <1>3, <1>13, <2>3, <2>4
  <2>6. CollectInv'
    BY <1>2, <1>13, <2>3, <2>5 DEF CollectInv
  <2>7. Held' = Held
    <3>1. Held = HeldOf(collectedData, sent)
      BY DEF Held, HeldOf
    <3>2. Held' = HeldOf(Append(collectedData, c), sent)
      BY <1>3, <2>3 DEF Held, HeldOf
    <3> QED
      BY <2>4, <3>1, <3>2
  <2>8. received' = received
    BY <1>3, <2>3
  <2>9. WentIn' = WentIn
    BY <1>3, <1>13, <2>1 DEF WentIn, UnitOf, PesHeaderLength
  <2> QED
    BY <1>11, <1>13, <2>6, <2>7, <2>8, <2>9 DEF PathInv
<1>15. CASE first
  <2> DEFINE v == UnitOf(u)
  <2>1. PICK begun \in Nat : n = begun + 1
    <3>1. n - 1 \in Nat /\ n = (n - 1) + 1
      BY <1>2
    <3> QED
      BY <3>1
  <2>2. Begun = begun /\ remaining = unit[1].of
    BY <1>2, <1>4, <1>15, <2>1 DEF Begun
  <2>3. /\ c.number = begun + 1 /\ IsChunkOf(c, sent[begun + 1])
        /\ c.from = PesHeaderLength(sent[begun + 1])
        /\ c.disc = sent[begun + 1].flags.disc /\ c.rai = sent[begun + 1].flags.rai
        /\ u = sent[begun + 1] /\ q.pts = u.pts
    BY <1>7, <1>15, <2>1
  <2>4. begun # 0 =>
          /\ collecting = TRUE
          /\ WellCollected(collectedData, pts, sent, begun, PesLength(sent[begun]))
    BY <2>2 DEF PathInv, CollectInv, Gone
  <2>5. begun # 0 =>
          /\ UnitsReceived(collectedData, pts) = Held /\ Held[1].unit.pts = pts
          /\ (\E i \in DOMAIN collectedData : ~collectedData[i].empty) <=> Pipe!HasData(Held)
    <3> SUFFICES ASSUME begun # 0
                 PROVE  /\ UnitsReceived(collectedData, pts) = Held /\ Held[1].unit.pts = pts
                        /\ (\E i \in DOMAIN collectedData : ~collectedData[i].empty)
                              <=> Pipe!HasData(Held)
      OBVIOUS
    <3>1. AreUnits(begun, sent)
      BY <1>5, <2>1 DEF AreUnits
    <3>2. Held = HeldOf(collectedData, sent)
      BY DEF Held, HeldOf
    <3>3. WellCollected(collectedData, pts, sent, begun, PesLength(sent[begun]))
      BY <2>4
    <3>4. IsDeliveredAs(collectedData, pts, HeldOf(collectedData, sent))
      BY <3>1, <3>3, CollectedIsHeld
    <3>5. IsDeliveredAs(collectedData, pts, Held)
      BY <3>2, <3>4
    <3> QED
      BY <3>5 DEF IsDeliveredAs, Pipe!HasData
  <2>6. begun = 0 => ~ES!HasBytes /\ ~Pipe!HasData(Held)
    <3> SUFFICES ASSUME begun = 0 PROVE ~ES!HasBytes /\ ~Pipe!HasData(Held)
      OBVIOUS
    <3>1. collecting = FALSE /\ collectedData = <<>>
      BY <2>2 DEF PathInv, CollectInv
    <3>2. CountIn(collectedData) = 0
      BY <3>1 DEF CountIn
    <3>3. DOMAIN Held = {}
      BY <3>2 DEF Held
    <3> QED
      BY <3>1, <3>3 DEF ES!HasBytes, Pipe!HasData
  <2>7. ES!HasBytes <=> Pipe!HasData(Held)
    BY <2>4, <2>5, <2>6 DEF ES!HasBytes
  <2>8. Pipe!Joins(v) <=> ES!IsSameAccessUnit(q)
    <3>1. v.pts = q.pts
      BY <2>3 DEF UnitOf
    <3>2. Pipe!HasData(Held) => Held[1].unit.pts = pts
      BY <2>5, <2>6
    <3> QED
      BY <2>7, <3>1, <3>2 DEF Pipe!Joins, ES!IsSameAccessUnit, NoTime, ES!NoTime
  <2>9. Pipe!Entry(v) = Numbered(sent, n) /\ WentIn' = Append(WentIn, v)
    <3> DEFINE At(i) == UnitOf(sent[i])
    <3>1. WentIn = [i \in 1 .. begun |-> At(i)] /\ v = At(begun + 1)
      BY <2>1, <2>2 DEF WentIn
    <3>2. WentIn' = [i \in 1 .. begun + 1 |-> At(i)]
      BY <1>3, <1>13, <2>1 DEF WentIn, UnitOf, PesHeaderLength
    <3>3. Pipe!Entry(v) = [number |-> Len(WentIn) + 1, unit |-> v]
      BY DEF Pipe!Entry
    <3> HIDE DEF At, v
    <3>4. /\ Len([i \in 1 .. begun |-> At(i)]) = begun
          /\ Append([i \in 1 .. begun |-> At(i)], At(begun + 1)) = [i \in 1 .. begun + 1 |-> At(i)]
      OBVIOUS
    <3>5. WentIn' = Append(WentIn, v)
      BY <3>1, <3>2, <3>4
    <3>6. Pipe!Entry(v) = [number |-> n, unit |-> v]
      BY <2>1, <3>1, <3>3, <3>4
    <3> QED
      BY <3>5, <3>6 DEF Numbered, v
  <2>10. CASE Pipe!Joins(v)
    <3>1. /\ collectedData' = Append(collectedData, c) /\ delivered' = <<>>
          /\ collecting' = collecting /\ pts' = pts
      BY <1>10, <1>15, <2>8, <2>10 DEF ES!StartPes, c
    <3>2. begun # 0 /\ pts = sent[begun + 1].pts
      BY <2>3, <2>6, <2>8, <2>10 DEF Pipe!Joins, ES!IsSameAccessUnit
    <3>3. /\ WellCollected(Append(collectedData, c), pts, sent, begun + 1, c.from + c.bytes)
          /\ HeldOf(Append(collectedData, c), sent)
               = Append(HeldOf(collectedData, sent), Numbered(sent, begun + 1))
      <4>1. WellCollected(collectedData, pts, sent, begun, PesLength(sent[begun]))
        BY <2>4, <3>2
      <4>2. c \in CollectedChunks /\ sent[begun + 1].pts = pts
        BY <1>7, <3>2
      <4> HIDE DEF c
      <4> QED
        BY <2>3, <4>1, <4>2, CollectsAnother
    <3>4. CollectInv'
      <4>1. WellCollected(collectedData, pts, sent, Begun, Gone)'
        BY <1>3, <1>13, <2>1, <3>1, <3>3
      <4> QED
        BY <1>2, <1>13, <2>4, <3>1, <3>2, <4>1 DEF CollectInv
    <3>5. Held' = Append(Held, Pipe!Entry(v))
      <4>1. Held = HeldOf(collectedData, sent)
        BY DEF Held, HeldOf
      <4>2. Held' = HeldOf(Append(collectedData, c), sent)
        BY <1>3, <3>1 DEF Held, HeldOf
      <4> QED
        BY <2>1, <2>9, <3>3, <4>1, <4>2
    <3>6. Pipe!Accept(v)
      BY <1>3, <2>9, <2>10, <3>1, <3>5 DEF Pipe!Accept
    <3> QED
      BY <1>2, <1>11, <1>13, <3>4, <3>6 DEF PathInv, Pipe!Next
  <2>11. CASE ~Pipe!Joins(v)
    <3>1. /\ ES!Deliver /\ collecting' = TRUE /\ collectedData' = <<c>> /\ pts' = u.pts
      BY <1>10, <1>15, <2>3, <2>8, <2>11 DEF ES!StartPes, c
    <3>2. /\ WellCollected(<<c>>, u.pts, sent, n, c.from + c.bytes)
          /\ HeldOf(<<c>>, sent) = <<Pipe!Entry(v)>>
      <4>1. /\ WellCollected(<<c>>, u.pts, sent, n, c.from + c.bytes)
            /\ HeldOf(<<c>>, sent) = <<Numbered(sent, n)>>
        BY <1>2, <1>7, <2>1, <2>3, CollectsAnew
      <4> QED
        BY <2>9, <4>1
    <3>3. CollectInv'
      <4>1. WellCollected(collectedData, pts, sent, Begun, Gone)'
        BY <1>3, <1>13, <3>1, <3>2
      <4> QED
        BY <1>2, <1>13, <3>1, <4>1 DEF CollectInv
    <3>4. Held' = <<Pipe!Entry(v)>>
      <4>1. Held' = HeldOf(<<c>>, sent)
        BY <1>3, <3>1 DEF Held, HeldOf
      <4> QED
        BY <3>2, <4>1
    <3>5. received' = IF Pipe!HasData(Held) THEN Append(received, Held) ELSE received
      <4>1. CASE ES!HasBytes
        <5>1. delivered' = <<[pts |-> pts, data |-> collectedData]>>
          BY <3>1, <4>1 DEF ES!Deliver
        <5>2. delivered' # <<>> /\ delivered'[1].data = collectedData /\ delivered'[1].pts = pts
          BY <5>1
        <5>3. UnitsReceived(collectedData, pts) = Held
          BY <2>5, <2>6, <4>1
        <5> QED
          BY <1>3, <2>7, <4>1, <5>2, <5>3
      <4>2. CASE ~ES!HasBytes
        BY <1>3, <2>7, <3>1, <4>2 DEF ES!Deliver
      <4> QED
        BY <4>1, <4>2
    <3>6. Pipe!Accept(v)
      BY <2>9, <2>11, <3>4, <3>5 DEF Pipe!Accept
    <3> QED
      BY <1>2, <1>11, <1>13, <3>3, <3>6 DEF PathInv, Pipe!Next
  <2> QED
    BY <2>10, <2>11
<1> QED
  BY <1>14, <1>15

\* Muxing and demuxing an elementary stream implements UnitPipe, whatever the sizes, the times
\* and the flags of its units, and whatever else is sent between their packets.
THEOREM PathImplementsPipe == Spec => UnitsComeOut
<1>1. Init => PathInv /\ Pipe!Init
  <2> SUFFICES ASSUME Init PROVE PathInv /\ Pipe!Init
    OBVIOUS
  <2>1. /\ esCc = 0 /\ pmtCc = 0 /\ lastEmittedCc = 0 /\ pcrSent = FALSE
        /\ unit = <<>> /\ pmt = <<>> /\ packet = <<>> /\ sent = <<>> /\ received = <<>>
        /\ esChecker = [hasLastCC |-> FALSE, lastCC |-> 0]
        /\ collecting = FALSE /\ collectedData = <<>>
    BY DEF Init, ES!BuilderInit, ES!NewChecker
  <2>2. WholeInv
    BY <2>1 DEF WholeInv, JobsInv, PacketsAreWhole
  <2>3. UnitInv /\ CounterInv
    BY <2>1 DEF UnitInv, CounterInv
  <2>4. CollectInv
    BY <2>1 DEF CollectInv, Begun
  <2>5. Held = <<>>
    <3>1. CountIn(collectedData) = 0
      BY <2>1 DEF CountIn
    <3> QED
      BY <3>1 DEF Held
  <2>6. WentIn = <<>>
    <3>1. Begun = 0
      BY <2>1 DEF Begun
    <3> QED
      BY <3>1 DEF WentIn
  <2> QED
    BY <2>1, <2>2, <2>3, <2>4, <2>5, <2>6 DEF PathInv, Pipe!Init
<1>2. PathInv /\ WholeInv' /\ [Next]_vars => PathInv' /\ [Pipe!Next]_<<WentIn, Held, received>>
  <2> SUFFICES ASSUME PathInv, WholeInv', [Next]_vars
               PROVE  PathInv' /\ [Pipe!Next]_<<WentIn, Held, received>>
    OBVIOUS
  <2>1. CASE BeginUnit
    BY <2>1, PathUnitBegins, UnitAssumption
  <2>2. CASE SendOfUnit
    BY <2>2, PathUnitSend, UnitAssumption
  <2>3. CASE SendPcr
    BY <2>3, PathPcrSend
  <2>4. CASE BeginPmt \/ SendOfPmt \/ UNCHANGED vars
    <3>1. UNCHANGED <<unit, sent, esCc, lastEmittedCc, pcrSent, received,
                      esChecker, collecting, collectedData, pts>>
      BY <2>4 DEF BeginPmt, SendOfPmt, vars, esVars
    <3> QED
      BY <3>1, PathKept
  <2> QED
    BY <2>1, <2>2, <2>3, <2>4 DEF Next
<1> QED
  BY <1>1, <1>2, PathIsWhole, PTL DEF Spec, UnitsComeOut, Pipe!Spec

-----------------------------------------------------------------------------
(* A packet of a PMT completes one section or none: what the table builder  *)
(* folds and flattens is a sequence of at most one element.                 *)

IsFlat(f, seqs) == f = [i \in 1 .. Len(seqs) |-> IF i = 1 THEN seqs[i] ELSE f[i-1] \o seqs[i]]

LEMMA FlattenOfNothing ==
  ASSUME NEW seqs, Len(seqs) = 0
  PROVE  PSI!FlattenSeq(seqs) = seqs
BY DEF PSI!FlattenSeq

\* One sequence in a sequence is flattened to itself.
LEMMA FlattenOfOne ==
  ASSUME NEW x
  PROVE  PSI!FlattenSeq(<<x>>) = x
<1> DEFINE seqs == <<x>>
           f == CHOOSE h : IsFlat(h, seqs)
<1>1. Len(seqs) = 1 /\ seqs[1] = x
  OBVIOUS
<1> HIDE DEF seqs
<1>2. PSI!FlattenSeq(seqs) = (CHOOSE h : IsFlat(h, seqs))[Len(seqs)]
  BY <1>1 DEF PSI!FlattenSeq, IsFlat
<1>3. IsFlat([i \in 1 .. 1 |-> x], seqs)
  BY <1>1 DEF IsFlat
<1>4. IsFlat(f, seqs)
  BY <1>3
<1> HIDE DEF f
<1>5. f[1] = x
  BY <1>1, <1>4 DEF IsFlat
<1> QED
  BY <1>1, <1>2, <1>5 DEF f, seqs

Delivering(f, base, seq) ==
  f = [s \in SUBSET DOMAIN seq |->
         IF s = {} THEN base
         ELSE PSI!DeliverCompletedSection(f[s \ {PSI!Max(s)}], seq[PSI!Max(s)])]

\* What CompletedIn is folded with.
LEMMA FoldDef ==
  ASSUME NEW base, NEW seq
  PROVE  PSI!FoldLeft(PSI!DeliverCompletedSection, base, seq)
           = (CHOOSE h : Delivering(h, base, seq))[DOMAIN seq]
BY DEF PSI!FoldLeft, PSI!MapThenFoldSet, Delivering

\* Without a section the tables stay as they are.
LEMMA FoldOfNothing ==
  ASSUME NEW base
  PROVE  PSI!FoldLeft(PSI!DeliverCompletedSection, base, <<>>) = base
<1> DEFINE f == CHOOSE h : Delivering(h, base, <<>>)
           g == [s \in SUBSET DOMAIN <<>> |-> base]
<1>1. DOMAIN <<>> = {} /\ SUBSET {} = {{}}
  OBVIOUS
<1>2. Delivering(g, base, <<>>)
  BY <1>1 DEF Delivering
<1>3. Delivering(f, base, <<>>)
  BY <1>2
<1> HIDE DEF f, g
<1>4. f[DOMAIN <<>>] = base
  BY <1>1, <1>3 DEF Delivering
<1> QED
  BY <1>4, FoldDef DEF f

\* One section is delivered once.
LEMMA FoldOfOne ==
  ASSUME NEW base, NEW s
  PROVE  PSI!FoldLeft(PSI!DeliverCompletedSection, base, <<s>>)
           = PSI!DeliverCompletedSection(base, s)
<1> DEFINE seq == <<s>>
           after == PSI!DeliverCompletedSection(base, s)
           f == CHOOSE h : Delivering(h, base, seq)
           g == [t \in SUBSET DOMAIN seq |-> IF t = {} THEN base ELSE after]
<1>1. DOMAIN seq = {1} /\ seq[1] = s /\ SUBSET {1} = {{}, {1}} /\ {1} # {} /\ {1} \ {1} = {}
  OBVIOUS
<1>2. PSI!Max({1}) = 1
  BY DEF PSI!Max
<1> HIDE DEF seq
<1>3. Delivering(g, base, seq)
  <2>1. ASSUME NEW t \in SUBSET DOMAIN seq
        PROVE  g[t] = IF t = {} THEN base
                      ELSE PSI!DeliverCompletedSection(g[t \ {PSI!Max(t)}], seq[PSI!Max(t)])
    BY <1>1, <1>2
  <2> QED
    BY <2>1 DEF Delivering
<1>4. Delivering(f, base, seq)
  BY <1>3
<1> HIDE DEF f, g
<1>5. f[{}] = base /\ {} \in SUBSET DOMAIN seq /\ {1} \in SUBSET DOMAIN seq
  BY <1>1, <1>4 DEF Delivering
<1>6. f[{1}] = PSI!DeliverCompletedSection(f[{1} \ {PSI!Max({1})}], seq[PSI!Max({1})])
  BY <1>1, <1>4, <1>5 DEF Delivering
<1>7. f[DOMAIN seq] = after
  BY <1>1, <1>2, <1>5, <1>6
<1> QED
  BY <1>7, FoldDef DEF f, seq

NoFlags == [pcr |-> FALSE, disc |-> FALSE, rai |-> FALSE]

\* A field without flags is as long as what is left does not fill.
LEMMA FieldFillsUp ==
  ASSUME NEW remaining \in Nat, remaining > 0, remaining < 184,
         NEW no \in BOOLEAN, ~no, NEW f, f = AdaptationField(no, no, no, remaining)
  PROVE  FieldBytes(<<f>>) = 184 - remaining
<1>1. <<f>> # <<>> /\ <<f>>[1] = f
  OBVIOUS
<1>2. PacketSpace = 184 /\ PcrBytes(no) = 0
  BY DEF PacketSpace, TS_PACKET_SIZE_188, TS_PACKET_HEADER_SIZE, PcrBytes
<1>3. CASE remaining = 183
  <2>1. f.length = 0
    BY <1>3 DEF AdaptationField
  <2> QED
    BY <1>1, <1>3, <2>1 DEF FieldBytes
<1>4. CASE remaining # 183
  <2> DEFINE space == PacketSpace - 2 - PcrBytes(no)
  <2>1. /\ f.length = 1 + PcrBytes(no) + f.stuffed /\ f.pcr = no
        /\ f.stuffed = space - Smaller(space, remaining)
    BY <1>4 DEF AdaptationField
  <2>2. f.stuffed = 182 - remaining
    BY <1>2, <1>4, <2>1 DEF Smaller
  <2>3. f.length # 0
    BY <1>2, <1>4, <2>1, <2>2
  <2>4. FieldBytes(<<f>>) = 2 + 0 + f.stuffed
    BY <1>1, <1>2, <2>1, <2>3 DEF FieldBytes
  <2> QED
    BY <1>4, <2>2, <2>4
<1> QED
  BY <1>3, <1>4

\* Without flags to carry, a packet is filled with payload, or takes all that is left.
LEMMA PmtPacketIsFull ==
  ASSUME NEW length \in Nat, NEW remaining \in Nat, NEW first \in BOOLEAN,
         NEW cc \in 0 .. 15, remaining > 0
  PROVE  PacketOf(length, remaining, first, NoFlags, cc).bytes = Smaller(184, remaining)
<1> DEFINE f == AdaptationField(FALSE, FALSE, FALSE, remaining)
           field == IF remaining < PacketSpace THEN <<f>> ELSE <<>>
           p == PacketOf(length, remaining, first, NoFlags, cc)
<1>1. PacketSpace = 184
  BY DEF PacketSpace, TS_PACKET_SIZE_188, TS_PACKET_HEADER_SIZE
<1>2. /\ (NoFlags.pcr /\ first) = FALSE /\ (NoFlags.disc /\ first) = FALSE
      /\ (NoFlags.rai /\ first) = FALSE
  BY DEF NoFlags
<1>3. p.bytes = Smaller(PacketSpace - FieldBytes(field), remaining)
  BY <1>2 DEF PacketOf
<1> HIDE DEF p
<1>4. CASE remaining < 184
  <2>1. field = <<f>>
    BY <1>1, <1>4
  <2>2. FieldBytes(<<f>>) = 184 - remaining
    BY <1>4, FieldFillsUp
  <2> HIDE DEF f, field
  <2>3. p.bytes = Smaller(184 - (184 - remaining), remaining)
    BY <1>1, <1>3, <2>1, <2>2
  <2> QED
    BY <1>4, <2>3 DEF Smaller, p
<1>5. CASE ~(remaining < 184)
  <2>1. FieldBytes(field) = 0
    BY <1>1, <1>5 DEF FieldBytes
  <2> HIDE DEF field
  <2>2. p.bytes = Smaller(184 - 0, remaining)
    BY <1>1, <1>3, <2>1
  <2> QED
    BY <1>5, <2>2 DEF Smaller, p
<1> QED
  BY <1>4, <1>5 DEF p

-----------------------------------------------------------------------------
(* Program map tables in the table builder *)

IsPmtSection(section) ==
  /\ section.number = 0 /\ section.last = 0 /\ section.streams \in Nat
  /\ section.length = 9 + 5 * section.streams + 4

\* What the builder has of a PMT of which `remaining' bytes are still to go out.
GoesOut(section, remaining) ==
  /\ IsPmtSection(section)
  /\ remaining \in 1 .. PmtLength(section)
  /\ remaining % 184 = PmtLength(section) % 184
  /\ IF remaining = PmtLength(section) THEN sectionInProgress = <<>>
     ELSE \E data : sectionInProgress = <<[section |-> section, data |-> data,
                                           length  |-> section.length - remaining]>>

\* The builder expects the next counter of the track.
PsiCounterInv ==
  /\ pmtCc \in 0 .. 15
  /\ psiChecker.hasLastCC => /\ psiChecker.lastCC \in 0 .. 15
                             /\ pmtCc = (psiChecker.lastCC + 1) % 16

TablesInv ==
  /\ PsiCounterInv
  /\ pendingSections = PSI!NoSections
  /\ IF pmt = <<>> THEN sectionInProgress = <<>>
     ELSE \E section, remaining : /\ pmt = <<[section |-> section, remaining |-> remaining]>>
                                  /\ GoesOut(section, remaining)

\* The tables that the last packet of a PMT completes.
Arrives(section) ==
  IF PmtLength(section) % PacketSpace \in 1 .. 3 THEN tables' = <<>>
  ELSE /\ Len(tables') = 1 /\ Len(tables'[1]) = 1
       /\ tables'[1][1].section = section
       /\ tables'[1][1].length = section.length
       /\ StreamsRead(tables'[1][1].section) = section.streams

\* A PMT has its streams, what frames them, and a pointer field before it.
LEMMA LengthOfPmt ==
  ASSUME NEW section, IsPmtSection(section)
  PROVE  /\ section.length \in Nat /\ section.length >= 13
         /\ PmtLength(section) = section.length + 4
         /\ PSI!Size(section) = section.length + 3
         /\ StreamsRead(section) = section.streams
<1>1. section.length \in Nat /\ section.length >= 13
  BY DEF IsPmtSection
<1>2. section.length - 4 - 9 = 5 * section.streams
  BY DEF IsPmtSection
<1>3. (5 * section.streams) \div 5 = section.streams
  BY DEF IsPmtSection
<1> QED
  BY <1>1, <1>2, <1>3 DEF PmtLength, PSI!Size, PSI!SectionHeaderLength, StreamsRead, PSI!PSI_CRC_LEN

\* A section that is its table alone goes to the delegate at once, and nothing is pending.
LEMMA DeliveredAlone ==
  ASSUME NEW s, s.section.number = 0, s.section.last = 0
  PROVE  PSI!DeliverCompletedSection([pending |-> PSI!NoSections, tables |-> <<>>], s)
           = [pending |-> PSI!NoSections, tables |-> <<<<s>>>>]
<1> DEFINE base == [pending |-> PSI!NoSections, tables |-> <<>>]
           one == <<s>>
<1>1. base.tables = <<>> /\ Append(<<>>, one) = <<one>>
  OBVIOUS
<1>2. [base EXCEPT !.tables = <<one>>] = [pending |-> PSI!NoSections, tables |-> <<one>>]
  OBVIOUS
<1> HIDE DEF base, one
<1>3. PSI!DeliverCompletedSection(base, s) = [base EXCEPT !.tables = Append(base.tables, one)]
  BY DEF PSI!DeliverCompletedSection, one
<1> QED
  BY <1>1, <1>2, <1>3 DEF base, one

\* The packet of a PMT, as the builder reads it.
IsPmtPacket(q, section, remaining, cc) ==
  LET first == (remaining = PmtLength(section))
      bytes == Smaller(184, remaining)
      place == PmtLength(section) - remaining
  IN  /\ q.cc = cc /\ q.payload = TRUE /\ q.disc = FALSE /\ q.pusi = first
      /\ q.cont = IF first THEN <<>>
                  ELSE <<[section |-> section, from |-> place - 1, bytes |-> bytes]>>
      /\ q.starts = IF first THEN <<[section |-> section, from |-> place, bytes |-> bytes - 1]>>
                    ELSE <<>>

\* A packet in which a PMT begins completes it or begins it.
LEMMA PmtStarts ==
  ASSUME NEW section, IsPmtSection(section), NEW q, NEW cc,
         IsPmtPacket(q, section, PmtLength(section), cc), PSI!Accept(q),
         sectionInProgress = <<>>, pendingSections = PSI!NoSections
  PROVE  /\ pendingSections' = PSI!NoSections
         /\ IF PmtLength(section) <= 184
            THEN Arrives(section) /\ sectionInProgress' = <<>>
            ELSE GoesOut(section, PmtLength(section) - 184)'
<1> DEFINE L == PmtLength(section)
           first == [section |-> section, from |-> L - L, bytes |-> Smaller(184, L) - 1]
<1>1. /\ section.length \in Nat /\ section.length >= 13 /\ L = section.length + 4
      /\ PSI!Size(section) = section.length + 3 /\ StreamsRead(section) = section.streams
  BY LengthOfPmt
<1>2. q.pusi = TRUE /\ q.cont = <<>> /\ q.starts = <<first>>
  BY DEF IsPmtPacket
<1>3. /\ q.starts # <<>> /\ Len(q.starts) = 1 /\ q.starts[1] = first /\ DOMAIN q.starts = {1}
  BY <1>2
<1> HIDE DEF L, first
<1>4. first.section = section /\ first.from = 0 /\ first.bytes = Smaller(184, L) - 1
  BY <1>1 DEF first
<1> DEFINE seqs == [i \in DOMAIN q.starts |->
                      IF PSI!Whole(q.starts[i]) THEN <<PSI!Begin(q.starts[i])>> ELSE <<>>]
           only == IF PSI!Whole(first) THEN <<PSI!Begin(first)>> ELSE <<>>
           base == [pending |-> PSI!NoSections, tables |-> <<>>]
<1>5. seqs = <<only>>
  <2>1. seqs = [i \in {1} |-> only]
    BY <1>3
  <2> HIDE DEF seqs, only
  <2> QED
    BY <2>1
<1>6. PSI!Finished(q) = <<>>
  BY <1>2 DEF PSI!Finished
<1>7. PSI!CompletedIn(q) = <<>> \o only
  <2>1. PSI!CompletedIn(q) = <<>> \o PSI!FlattenSeq(seqs)
    BY <1>6 DEF PSI!CompletedIn
  <2> HIDE DEF seqs, only
  <2> QED
    BY <1>5, <2>1, FlattenOfOne
<1>8. PSI!CompletedIn(q) = only
  BY <1>7
<1>9. /\ pendingSections' = PSI!FoldLeft(PSI!DeliverCompletedSection, base, only).pending
      /\ tables' = PSI!FoldLeft(PSI!DeliverCompletedSection, base, only).tables
      /\ sectionInProgress' = PSI!BegunIn(q)
  <2> HIDE DEF only, seqs
  <2> QED
    BY <1>2, <1>8 DEF PSI!Accept
<1>10. CASE L <= 184
  <2> DEFINE s == PSI!Begin(first)
  <2>1. PSI!Whole(first)
    BY <1>1, <1>4, <1>10 DEF PSI!Whole, Smaller
  <2>2. s.section = section /\ s.length = section.length
    BY <1>1, <1>4, <1>10 DEF PSI!Begin, PSI!SectionHeaderLength, Smaller
  <2>3. sectionInProgress' = <<>>
    BY <1>3, <1>9, <2>1 DEF PSI!BegunIn
  <2> HIDE DEF s
  <2>4. only = <<s>>
    BY <2>1 DEF s
  <2>5. PSI!FoldLeft(PSI!DeliverCompletedSection, base, only) = [pending |-> PSI!NoSections, tables |-> <<<<s>>>>]
    <3>1. PSI!FoldLeft(PSI!DeliverCompletedSection, base, only) = PSI!DeliverCompletedSection(base, s)
      BY ONLY <2>4, FoldOfOne
    <3>2. s.section.number = 0 /\ s.section.last = 0
      BY <2>2 DEF IsPmtSection
    <3> QED
      BY <3>1, <3>2, DeliveredAlone
  <2>6. pendingSections' = PSI!NoSections /\ tables' = <<<<s>>>>
    BY <1>9, <2>5
  <2>7. Len(tables') = 1 /\ Len(tables'[1]) = 1 /\ tables'[1][1] = s
    BY <2>6
  <2>8. ~(L % PacketSpace \in 1 .. 3)
    BY <1>1, <1>10 DEF PacketSpace, TS_PACKET_SIZE_188, TS_PACKET_HEADER_SIZE
  <2> QED
    BY <1>1, <1>10, <2>2, <2>3, <2>6, <2>7, <2>8 DEF Arrives, L
<1>11. CASE ~(L <= 184)
  <2>1. ~PSI!Whole(first) /\ first.bytes = 183
    BY <1>1, <1>4, <1>11 DEF PSI!Whole, Smaller
  <2>2. sectionInProgress' = <<PSI!Begin(first)>>
    BY <1>3, <1>9, <2>1 DEF PSI!BegunIn, PSI!SectionHeaderLength
  <2>3. PSI!Begin(first) = [section |-> section, data |-> <<first>>, length |-> section.length - (L - 184)]
    BY <1>1, <1>4, <1>11, <2>1 DEF PSI!Begin, PSI!SectionHeaderLength
  <2>4. pendingSections' = PSI!NoSections
    <3>1. only = <<>>
      BY <2>1
    <3>2. PSI!FoldLeft(PSI!DeliverCompletedSection, base, only) = base
      BY ONLY <3>1, FoldOfNothing
    <3> QED
      BY <1>9, <3>2
  <2>5. L - 184 \in 1 .. L /\ L - 184 # L /\ (L - 184) % 184 = L % 184
    BY <1>1, <1>11
  <2>6. GoesOut(section, L - 184)'
    <3>1. /\ L' = L /\ IsPmtSection(section)' 
      BY DEF L, IsPmtSection, PmtLength
    <3> QED
      BY <2>2, <2>3, <2>5, <3>1 DEF GoesOut, L
  <2> QED
    BY <1>11, <2>4, <2>6 DEF L
<1> QED
  BY <1>10, <1>11

\* A packet that continues a PMT completes it, goes on with it, or ends it without its CRC.
LEMMA PmtContinues ==
  ASSUME NEW section, IsPmtSection(section), NEW remaining \in 1 .. PmtLength(section),
         remaining # PmtLength(section), remaining % 184 = PmtLength(section) % 184,
         NEW q, NEW cc, IsPmtPacket(q, section, remaining, cc), PSI!Accept(q),
         NEW data, sectionInProgress = <<[section |-> section, data |-> data,
                                          length |-> section.length - remaining]>>,
         pendingSections = PSI!NoSections
  PROVE  /\ pendingSections' = PSI!NoSections
         /\ IF remaining <= 184
            THEN Arrives(section) /\ sectionInProgress' = <<>>
            ELSE GoesOut(section, remaining - 184)'
<1> DEFINE L == PmtLength(section)
           piece == [section |-> section, from |-> L - remaining - 1, bytes |-> Smaller(184, remaining)]
           begun == [section |-> section, data |-> data, length |-> section.length - remaining]
           more  == PSI!Collect(begun, piece)
           base  == [pending |-> PSI!NoSections, tables |-> <<>>]
<1>1. /\ section.length \in Nat /\ section.length >= 13 /\ L = section.length + 4
      /\ StreamsRead(section) = section.streams
  BY LengthOfPmt
<1>2. q.pusi = FALSE /\ q.cont = <<piece>> /\ q.starts = <<>>
  BY DEF IsPmtPacket
<1>3. /\ q.cont # <<>> /\ q.cont[1] = piece /\ DOMAIN q.starts = {}
      /\ sectionInProgress # <<>> /\ sectionInProgress[1] = begun
  BY <1>2
<1>4. piece.bytes = Smaller(184, remaining)
  OBVIOUS
<1>5. begun.section = section /\ begun.length = section.length - remaining
  OBVIOUS
<1>6. more = [section |-> section, data |-> Append(data, piece),
              length |-> section.length - remaining + Smaller(184, remaining)]
  <2>1. more = [begun EXCEPT !.data = Append(begun.data, piece), !.length = begun.length + piece.bytes]
    BY DEF PSI!Collect
  <2>2. begun.data = data
    OBVIOUS
  <2>3. more = [begun EXCEPT !.data = Append(data, piece),
                             !.length = section.length - remaining + Smaller(184, remaining)]
    <3> HIDE DEF begun, piece, more
    <3> QED
      BY <1>4, <1>5, <2>1, <2>2
  <2> HIDE DEF more, piece
  <2> QED
    BY <2>3
<1> HIDE DEF L, piece, begun, more
<1>7. remaining \in Nat /\ remaining > 0 /\ PSI!RemainingBytesInTable(begun) = remaining
  BY <1>1, <1>5 DEF PSI!RemainingBytesInTable, L
<1>8. PacketSpace = 184
  BY DEF PacketSpace, TS_PACKET_SIZE_188, TS_PACKET_HEADER_SIZE
<1>9. PSI!Completes(begun, PacketSpace) <=> remaining >= 4 /\ 184 >= remaining
  BY <1>7, <1>8 DEF PSI!Completes, PSI!PSI_CRC_LEN
<1>10. PSI!Finished(q) = IF remaining >= 4 /\ 184 >= remaining THEN <<more>> ELSE <<>>
  BY <1>2, <1>3, <1>9 DEF PSI!Finished, more
<1>11. PSI!CompletedIn(q) = PSI!Finished(q)
  <2> DEFINE seqs == [i \in DOMAIN q.starts |->
                        IF PSI!Whole(q.starts[i]) THEN <<PSI!Begin(q.starts[i])>> ELSE <<>>]
  <2>1. seqs = <<>>
    BY <1>3
  <2>2. PSI!CompletedIn(q) = PSI!Finished(q) \o PSI!FlattenSeq(seqs)
    BY DEF PSI!CompletedIn
  <2> HIDE DEF seqs
  <2>3. PSI!FlattenSeq(seqs) = <<>>
    <3>1. Len(seqs) = 0
      BY <2>1
    <3> QED
      BY <2>1, <3>1, FlattenOfNothing
  <2>4. CASE PSI!Finished(q) = <<>>
    BY <2>2, <2>3, <2>4
  <2>5. CASE PSI!Finished(q) = <<more>>
    BY <2>2, <2>3, <2>5
  <2> QED
    BY <1>10, <2>4, <2>5
<1>12. /\ pendingSections' = PSI!FoldLeft(PSI!DeliverCompletedSection, base, PSI!Finished(q)).pending
       /\ tables' = PSI!FoldLeft(PSI!DeliverCompletedSection, base, PSI!Finished(q)).tables
       /\ sectionInProgress' = PSI!ContinuedBy(q, begun)
  BY <1>2, <1>3, <1>11 DEF PSI!Accept
<1>13. CASE remaining <= 184
  <2>1. sectionInProgress' = <<>>
    BY <1>7, <1>9, <1>12, <1>13 DEF PSI!ContinuedBy, PSI!PSI_CRC_LEN
  <2>2. L % PacketSpace \in 1 .. 3 <=> remaining < 4
    BY <1>7, <1>8, <1>13 DEF L
  <2>3. CASE remaining < 4
    <3>1. PSI!Finished(q) = <<>>
      BY <1>7, <1>10, <2>3
    <3>2. PSI!FoldLeft(PSI!DeliverCompletedSection, base, PSI!Finished(q)) = base
      BY ONLY <3>1, FoldOfNothing
    <3>3. pendingSections' = PSI!NoSections /\ tables' = <<>>
      BY <1>12, <3>2
    <3> QED
      BY <1>13, <2>1, <2>2, <2>3, <3>3 DEF Arrives, L
  <2>4. CASE ~(remaining < 4)
    <3>1. PSI!Finished(q) = <<more>>
      BY <1>7, <1>10, <1>13, <2>4
    <3>2. PSI!FoldLeft(PSI!DeliverCompletedSection, base, PSI!Finished(q))
            = PSI!DeliverCompletedSection(base, more)
      BY ONLY <3>1, FoldOfOne
    <3>3. more.section = section /\ more.length = section.length
      <4>1. section.length - remaining + Smaller(184, remaining) = section.length
        BY <1>1, <1>7, <1>13 DEF Smaller
      <4> QED
        BY <1>6, <4>1
    <3>4. PSI!DeliverCompletedSection(base, more) = [pending |-> PSI!NoSections, tables |-> <<<<more>>>>]
      <4>1. more.section.number = 0 /\ more.section.last = 0
        BY <3>3 DEF IsPmtSection
      <4> QED
        BY <4>1, DeliveredAlone
    <3>5. pendingSections' = PSI!NoSections /\ tables' = <<<<more>>>>
      BY <1>12, <3>2, <3>4
    <3>6. Len(tables') = 1 /\ Len(tables'[1]) = 1 /\ tables'[1][1] = more
      BY <3>5
    <3> QED
      BY <1>1, <1>13, <2>1, <2>2, <2>4, <3>3, <3>5, <3>6 DEF Arrives, L
  <2> QED
    BY <2>3, <2>4
<1>14. CASE ~(remaining <= 184)
  <2>1. PSI!Finished(q) = <<>>
    BY <1>7, <1>10, <1>14
  <2>2. pendingSections' = PSI!NoSections
    <3>1. PSI!FoldLeft(PSI!DeliverCompletedSection, base, PSI!Finished(q)) = base
      BY ONLY <2>1, FoldOfNothing
    <3> QED
      BY <1>12, <3>1
  <2>3. sectionInProgress' = <<more>>
    BY <1>3, <1>7, <1>9, <1>12, <1>14 DEF PSI!ContinuedBy, PSI!PSI_CRC_LEN, more
  <2>4. more = [section |-> section, data |-> Append(data, piece),
                length |-> section.length - (remaining - 184)]
    <3>1. section.length - remaining + Smaller(184, remaining) = section.length - (remaining - 184)
      BY <1>1, <1>7, <1>14 DEF Smaller
    <3> QED
      BY <1>6, <3>1
  <2>5. remaining - 184 \in 1 .. L /\ remaining - 184 # L /\ (remaining - 184) % 184 = L % 184
    BY <1>1, <1>7, <1>14 DEF L
  <2>6. GoesOut(section, remaining - 184)'
    <3>1. L' = L /\ IsPmtSection(section)'
      BY DEF L, IsPmtSection, PmtLength
    <3> QED
      BY <2>3, <2>4, <2>5, <3>1 DEF GoesOut, L
  <2> QED
    BY <1>14, <2>2, <2>6
<1> QED
  BY <1>13, <1>14

\* What the builder reads of a packet of a PMT, and that it takes the packet.
LEMMA PmtPacketRead ==
  ASSUME NEW section, IsPmtSection(section), NEW remaining \in 1 .. PmtLength(section),
         NEW cc \in 0 .. 15, NEW p,
         p = PacketOf(PmtLength(section), remaining, remaining = PmtLength(section), NoFlags, cc)
  PROVE  /\ p.bytes = Smaller(184, remaining) /\ p.bytes \in 1 .. remaining
         /\ IsReceived(p) /\ IsPmtPacket(PsiPacketRead(section, Received(p)), section, remaining, cc)
<1> DEFINE L == PmtLength(section)
           first == (remaining = L)
           r == Received(p)
           q == PsiPacketRead(section, r)
<1>1. L \in Nat /\ remaining \in Nat /\ remaining > 0 /\ first \in BOOLEAN
  BY LengthOfPmt
<1>2. AreFlags(NoFlags) /\ NoFlags.disc = FALSE
  BY DEF AreFlags, NoFlags
<1>3. p = PacketOf(L, remaining, first, NoFlags, cc)
  OBVIOUS
<1> HIDE DEF L, first
<1>4. p.bytes = Smaller(184, remaining)
  <2>1. PacketOf(L, remaining, first, NoFlags, cc).bytes = Smaller(184, remaining)
    BY ONLY <1>1, cc \in 0 .. 15, PmtPacketIsFull
  <2> QED
    BY ONLY <1>3, <2>1
<1>5. IsReadAsCut(p, L, remaining, first, NoFlags, cc)
  BY <1>1, <1>2, <1>3, CutAndRead
<1>6. /\ p.bytes \in 1 .. remaining /\ IsReceived(p)
      /\ r.payload = TRUE /\ r.from = L - remaining /\ r.bytes = p.bytes /\ r.cc = cc
      /\ r.pusi = first /\ r.disc = FALSE
  BY <1>2, <1>5 DEF IsReadAsCut
<1> HIDE DEF r
<1>7. /\ q.cc = cc /\ q.payload = TRUE /\ q.disc = FALSE /\ q.pusi = first
      /\ q.cont = IF first THEN <<>>
                  ELSE <<[section |-> section, from |-> (L - remaining) - 1,
                          bytes |-> Smaller(184, remaining)]>>
      /\ q.starts = IF first THEN <<[section |-> section, from |-> L - remaining,
                                     bytes |-> Smaller(184, remaining) - 1]>> ELSE <<>>
  BY <1>4, <1>6 DEF PsiPacketRead
<1> HIDE DEF q
<1>8. IsPmtPacket(q, section, remaining, cc)
  BY <1>7 DEF IsPmtPacket, L, first
<1> QED
  BY <1>4, <1>6, <1>8 DEF q, r

\* Every packet of a PMT takes the builder on to where it is expected; the last one brings the
\* table.
LEMMA TablesPmtSend ==
  ASSUME TablesInv, SendOfPmt
  PROVE  TablesInv' /\ (pmt' = <<>> => Arrives(pmt[1].section))
<1>1. pmt # <<>> /\ PsiCounterInv /\ pendingSections = PSI!NoSections
  BY DEF TablesInv, SendOfPmt
<1>2. PICK section, remaining : /\ pmt = <<[section |-> section, remaining |-> remaining]>>
                                /\ GoesOut(section, remaining)
  BY <1>1 DEF TablesInv
<1> DEFINE job == [section |-> section, remaining |-> remaining]
           p == PacketOf(PmtLength(section), remaining, remaining = PmtLength(section), NoFlags, pmtCc)
           q == PsiPacketRead(section, Received(p))
<1>3. pmt[1] = job /\ job.section = section /\ job.remaining = remaining
  BY <1>2
<1>4. IsPmtSection(section) /\ remaining \in 1 .. PmtLength(section) /\ pmtCc \in 0 .. 15
  BY <1>1, <1>2 DEF GoesOut, PsiCounterInv
<1>5. /\ pmt' = IF remaining = p.bytes THEN <<>> ELSE <<[job EXCEPT !.remaining = remaining - p.bytes]>>
      /\ pmtCc' = IF p.bytes > 0 THEN (pmtCc + 1) % 16 ELSE pmtCc
      /\ IsReceived(p) => PSI!AddTsPacket(q)
  BY <1>3 DEF SendOfPmt, NoFlags
<1>6. /\ p.bytes = Smaller(184, remaining) /\ p.bytes \in 1 .. remaining
      /\ IsReceived(p) /\ IsPmtPacket(q, section, remaining, pmtCc)
  <2>1. p = PacketOf(PmtLength(section), remaining, remaining = PmtLength(section), NoFlags, pmtCc)
    OBVIOUS
  <2> HIDE DEF p
  <2> QED
    BY <1>4, <2>1, PmtPacketRead
<1>7. [job EXCEPT !.remaining = remaining - p.bytes] = [section |-> section, remaining |-> remaining - p.bytes]
  <2> HIDE DEF p
  <2> QED
    OBVIOUS
<1> HIDE DEF job, p, q
<1>8. q.cc = pmtCc /\ q.payload = TRUE /\ q.disc = FALSE
  BY <1>6 DEF IsPmtPacket
<1>9. PSI!Check(psiChecker, q) = "OK"
  <2>1. CASE psiChecker.hasLastCC
    <3>1. pmtCc # psiChecker.lastCC /\ pmtCc = (psiChecker.lastCC + 1) % 16
      BY <1>1, <2>1 DEF PsiCounterInv
    <3>2. q.cc # psiChecker.lastCC /\ q.cc = PSI!NextCC(psiChecker.lastCC)
      BY <1>8, <3>1 DEF PSI!NextCC
    <3> QED
      BY <1>8, <3>2 DEF PSI!Check
  <2>2. CASE ~psiChecker.hasLastCC
    BY <2>2 DEF PSI!Check
  <2> QED
    BY <2>1, <2>2
<1>10. psiChecker' = [hasLastCC |-> TRUE, lastCC |-> pmtCc] /\ PSI!Accept(q)
  BY <1>5, <1>6, <1>8, <1>9 DEF PSI!AddTsPacket, PSI!Checked
<1>11. PsiCounterInv'
  <2>1. pmtCc' = (pmtCc + 1) % 16
    BY <1>5, <1>6
  <2>2. psiChecker'.lastCC = pmtCc
    BY <1>10
  <2> QED
    BY <1>4, <2>1, <2>2 DEF PsiCounterInv
<1>12. /\ pendingSections' = PSI!NoSections
       /\ IF remaining <= 184 THEN Arrives(section) /\ sectionInProgress' = <<>>
          ELSE GoesOut(section, remaining - 184)'
  <2>1. CASE remaining = PmtLength(section)
    <3>1. sectionInProgress = <<>>
      BY <1>2, <2>1 DEF GoesOut
    <3>2. IsPmtPacket(q, section, PmtLength(section), pmtCc)
      BY <1>6, <2>1
    <3>3. /\ pendingSections' = PSI!NoSections
          /\ IF PmtLength(section) <= 184 THEN Arrives(section) /\ sectionInProgress' = <<>>
             ELSE GoesOut(section, PmtLength(section) - 184)'
      BY <1>1, <1>4, <1>10, <3>1, <3>2, PmtStarts
    <3> QED
      BY <2>1, <3>3
  <2>2. CASE remaining # PmtLength(section)
    <3>1. PICK data : sectionInProgress = <<[section |-> section, data |-> data,
                                             length  |-> section.length - remaining]>>
      BY <1>2, <2>2 DEF GoesOut
    <3>2. remaining % 184 = PmtLength(section) % 184
      BY <1>2 DEF GoesOut
    <3> QED
      BY <1>1, <1>4, <1>6, <1>10, <2>2, <3>1, <3>2, PmtContinues
  <2> QED
    BY <2>1, <2>2
<1>13. PmtLength(section) \in Nat
  BY <1>4, LengthOfPmt
<1>14. CASE remaining <= 184
  <2>1. pmt' = <<>>
    BY <1>4, <1>5, <1>6, <1>13, <1>14 DEF Smaller
  <2> QED
    BY <1>3, <1>11, <1>12, <1>14, <2>1 DEF TablesInv
<1>15. CASE ~(remaining <= 184)
  <2>1. p.bytes = 184 /\ remaining # p.bytes
    BY <1>4, <1>6, <1>13, <1>15 DEF Smaller
  <2>2. pmt' = <<[section |-> section, remaining |-> remaining - 184]>>
    BY <1>5, <1>7, <2>1
  <2>3. pmt' # <<>>
    BY <2>2
  <2>4. \E s, r : pmt' = <<[section |-> s, remaining |-> r]>> /\ GoesOut(s, r)'
    BY <1>12, <1>15, <2>2
  <2>5. TablesInv'
    BY <1>11, <1>12, <2>3, <2>4 DEF TablesInv
  <2> QED
    BY <2>3, <2>5
<1> QED
  BY <1>14, <1>15

\* A PMT starts in a builder that holds nothing, one too long for a section not at all.
LEMMA TablesPmtBegins ==
  ASSUME StreamAssumption, TablesInv, BeginPmt
  PROVE  TablesInv'
<1>1. PICK streams \in StreamCounts :
        LET section == PmtSection(budget.pmts, streams)
        IN  pmt' = IF section.length > 1021 THEN <<>>
                   ELSE <<[section |-> section, remaining |-> PmtLength(section)]>>
  BY DEF BeginPmt
<1>2. PICK section : section = PmtSection(budget.pmts, streams)
  OBVIOUS
<1>3. pmt' = IF section.length > 1021 THEN <<>>
             ELSE <<[section |-> section, remaining |-> PmtLength(section)]>>
  BY <1>1, <1>2
<1>4. IsPmtSection(section)
  BY <1>2, StreamAssumption DEF IsPmtSection, PmtSection, CommonSectionData, PSI!PSI_CRC_LEN
<1>5. UNCHANGED <<pmtCc, psiChecker, sectionInProgress, pendingSections>> /\ pmt = <<>>
  BY DEF BeginPmt, psiVars
<1>6. PsiCounterInv' /\ pendingSections' = PSI!NoSections /\ sectionInProgress' = <<>>
  BY <1>5 DEF TablesInv, PsiCounterInv
<1>7. CASE pmt' = <<>>
  BY <1>6, <1>7 DEF TablesInv
<1>8. CASE pmt' # <<>>
  <2>1. pmt' = <<[section |-> section, remaining |-> PmtLength(section)]>>
    BY <1>3, <1>8
  <2>2. PmtLength(section) \in 1 .. PmtLength(section)
    BY <1>4, LengthOfPmt
  <2>3. GoesOut(section, PmtLength(section))'
    <3>1. PmtLength(section)' = PmtLength(section) /\ IsPmtSection(section)'
      BY <1>4 DEF PmtLength, IsPmtSection
    <3> QED
      BY <1>6, <2>2, <3>1 DEF GoesOut
  <2>4. \E s, r : pmt' = <<[section |-> s, remaining |-> r]>> /\ GoesOut(s, r)'
    <3>1. PICK l : l = PmtLength(section)
      OBVIOUS
    <3>2. pmt' = <<[section |-> section, remaining |-> l]>> /\ GoesOut(section, l)'
      BY <2>1, <2>3, <3>1
    <3> QED
      BY <3>2
  <2> QED
    BY <1>6, <1>8, <2>4 DEF TablesInv
<1> QED
  BY <1>7, <1>8

\* Other steps leave the PMT and its builder as they are.
LEMMA TablesGoOn ==
  ASSUME TablesInv, UNCHANGED <<pmt, pmtCc, psiChecker, sectionInProgress, pendingSections>>
  PROVE  TablesInv'
<1>1. CASE pmt = <<>>
  BY <1>1 DEF TablesInv, PsiCounterInv
<1>2. CASE pmt # <<>>
  <2>1. PICK section, remaining : /\ pmt = <<[section |-> section, remaining |-> remaining]>>
                                  /\ GoesOut(section, remaining)
    BY <1>2 DEF TablesInv
  <2>2. GoesOut(section, remaining)'
    BY <2>1 DEF GoesOut, PmtLength, IsPmtSection
  <2> QED
    BY <1>2, <2>1, <2>2 DEF TablesInv, PsiCounterInv
<1> QED
  BY <1>1, <1>2

\* Whatever the number of its streams, a PMT that fits a section arrives with its last packet,
\* as it was sent, unless that packet has one to three bytes of it.
THEOREM ProgramMapsArrive == Spec => ProgramMapArrives
<1>1. Init => TablesInv
  BY DEF Init, PSI!BuilderInit, PSI!NewChecker, TablesInv, PsiCounterInv
<1>2. TablesInv /\ [Next]_vars => TablesInv'
  <2> SUFFICES ASSUME TablesInv, [Next]_vars PROVE TablesInv'
    OBVIOUS
  <2>1. CASE BeginUnit \/ SendOfUnit \/ SendPcr \/ UNCHANGED vars
    <3>1. UNCHANGED <<pmt, pmtCc, psiChecker, sectionInProgress, pendingSections>>
      BY <2>1 DEF BeginUnit, SendOfUnit, SendPcr, vars, psiVars
    <3> QED
      BY <3>1, TablesGoOn
  <2>2. CASE BeginPmt
    BY <2>2, TablesPmtBegins, StreamAssumption
  <2>3. CASE SendOfPmt
    BY <2>3, TablesPmtSend
  <2> QED
    BY <2>1, <2>2, <2>3 DEF Next
<1>3. TablesInv /\ [Next]_vars =>
        [pmt # <<>> /\ SendOfPmt /\ pmt' = <<>> => Arrives(pmt[1].section)]_vars
  BY TablesPmtSend
<1>4. [pmt # <<>> /\ SendOfPmt /\ pmt' = <<>> => Arrives(pmt[1].section)]_vars =>
        [pmt # <<>> /\ SendOfPmt /\ pmt' = <<>> =>
          LET section == pmt[1].section
          IN  IF PmtLength(section) % PacketSpace \in 1 .. 3 THEN tables' = <<>>
              ELSE /\ Len(tables') = 1 /\ Len(tables'[1]) = 1
                   /\ tables'[1][1].section = section
                   /\ tables'[1][1].length = section.length
                   /\ StreamsRead(tables'[1][1].section) = section.streams]_vars
  BY DEF Arrives
<1> QED
  BY <1>1, <1>2, <1>3, <1>4, PTL DEF Spec, ProgramMapArrives

=============================================================================
