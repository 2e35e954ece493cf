# TSMuxDemux in TLA+

TSMuxDemux is an MPEG transport stream muxer and demuxer in Objective-C. This directory models the
parts of it that keep state, checks them with TLC on small instances, and proves some of what the
checks show for every value of the constants with TLAPS. `PROJECT.json` has, for every definition,
the lines of the source that it stands for.

## The system

| component | state | operations | must hold |
|---|---|---|---|
| `TSMuxer` | queue of access units, packets of the unit in progress, counters of the tracks, PCR and PSI times, set of discontinuous PIDs, PMT version | `enqueueAccessUnit:`, `tick` (CBR, VBR) | continuous counters, whole units, pace, PSI and PCR in time, losses announced |
| `TSPacket` and its header and adaptation field | none | cut a payload, write a PCR packet, split a chunk, read a packet | 188 bytes, payload read where it was written, damage costs one packet |
| `TSAccessUnit`, `TSPesHeader`, `TSTimeUtil` | none | PES packet from a unit and back | what comes out is what went in, every bit of its times |
| `TSContinuityChecker` | last counter | `checkPacket:` | losses seen, copies skipped |
| `TSElementaryStreamBuilder` | collected data, its time and flags, a checker | `addTsPacket:` | no unit with a hole, no whole unit withheld |
| `TSPsiTableBuilder` | section in progress, pending sections, a checker | `addTsPacket:` | a table is one version, complete; complete tables are built |
| `TSDemuxer` | PAT, PMTs, their cache, SDT, VCT, builders, filter, completed sections, packet size | `demux:`, table callbacks, `setEsPidFilter:` | builders for exactly the offered streams, analysis with the current registry |
| `TSTr101290Analyzer` | sync counts, counter and times per PID, error counts | `analyzeTsPacket:`, `handleFilterChange` | no false errors, no missed ones |
| tables (PAT, PMT, PSI, SDT, VCT) | parsed values | write, read, `isEqual:` | read as written; damage stays where it is; reading ends |
| descriptors, `TSStreamType`, `TSElementaryStream` | none | make by tag, resolve a stream type | the first descriptor that tells decides |
| `TSBitReader` | place and error | read, skip, sub-reader | stays in its bytes, goes forward, errors stick |
| strings, CRC, log | none | conversion, checksum, output | not modelled |

A client enqueues units and calls `tick`; the muxer calls its delegate once per packet. On the other
side a client calls `demux:` with chunks of packets; each packet is routed by its PID to a table
builder, whose tables call back into the demuxer, then analyzed, then given to a stream builder,
whose units go to the delegate. All of it runs on one thread ("not thread safe. Ensure
enqueueAccessUnit: and tick are called from the same serial queue/thread"), so what interleaves is not
threads but calls: the delegate may call back into the object that called it, tables arrive in any
order between packets, filters change at any time, and the transport stream loses and repeats packets.

## The modules

| module | models | composed of |
|---|---|---|
| `TSConstants` | PIDs, table ids, `TSPidUtil` | |
| `TSContinuityChecker` | `checkPacket:` | |
| `TSMuxer` | the muxer | the two above |
| `MuxedStream` | the muxer with a client and a receiver that watches; the properties | `TSMuxer` |
| `TSElementaryStreamBuilder` | the stream builder | `TSContinuityChecker` |
| `PesChannel` | PES packets behind a lossy channel, into the stream builder | the builder |
| `TSPsiTableBuilder` | the table builder | `TSContinuityChecker` |
| `SectionChannel` | sections packed into packets behind a lossy channel, into the table builder | the builder |
| `PacketRouting` | where a PID goes, which streams pass a filter, PMTs by PID | `TSConstants` |
| `TSDemuxer` | the registry and the way of a packet | `PacketRouting` |
| `TSTr101290Analyzer` | the checks of priority 1 | `TSContinuityChecker`, `TSConstants` |
| `AnalyzedStream` | a stream behind a lossy channel, the demuxer as far as the analyzer sees it | `PacketRouting`, the analyzer |
| `TSPacket` | packets in places and lengths | |
| `TransportPath` | units and PMTs cut into packets and put together again | `TSPacket`, both builders by INSTANCE |
| `UnitPipe` | abstract: every unit that goes in comes out, once, in order | |
| `TSBitReader` | the bit reader | |
| `TSDescriptor`, `TSStreamType` | descriptors by tag, and what a stream is by its type and descriptors | `TSBitReader`, the one before |
| `TSProgramSpecificInformationTable`, `TSProgramTables`, `TSServiceTables` | the bytes of sections: their header, PAT and PMT, SDT and VCT | the three above |
| `SectionParsing` | a section, maybe damaged, on its way through the loops of its parser | the tables |
| `ByteStream` | abstract: readers that go forward in their bytes | |
| `TSPacketBytes`, `TSPesHeader` | the bytes of packets and of PES packets, written and read | `TSPacket`, `TSBitReader`, `TSStreamType` |
| `ChunkReception` | chunks of received bytes, up to packets and PES headers | the two above |
| `MC...` | constants for TLC | |
| `MuxerProofs` | theorems: types and pace, counters; units, clocks and tables | `MuxedStream` |
| `BuilderProofs` | theorems | `PesChannel` |
| `SectionProofs` | theorems | `SectionChannel` |
| `DemuxerProofs` | theorems | `TSDemuxer` |
| `AnalyzerProofs` | theorems | `AnalyzedStream` |
| `TransportProofs` | theorems | `TransportPath` |
| `ParsingProofs` | theorems | `SectionParsing` |
| `ReceptionProofs` | theorems | `ChunkReception` |

### TSMuxer

One step is one delegate callback, or one branch of the loop in `tick` that makes none, because the
delegate may enqueue from inside its callback (`ReentrantEnqueue`). `pc` is the place in the loop:
`loop` before an iteration, `pmt` between PAT and PMT; in VBR `au`, `drain` (packets of a unit),
`pcr` and `while` in the order of the code. `Iterate`/`MayIterate` are the loop condition, which is
evaluated at the end of the branch before. `Emit` is `emitPacket:` with its bookkeeping, and `out` is
the packet handed over in the step. In CBR the clock is the count of packets on the wire, so the
model counts time in packets: `cbrNanosElapsed` is `numTsPacketsEmitted` and `expectedPacketCount` is
the wall clock since the start; rounding of the two floating point conversions is left out. A unit
has one time (its DTS, or its PTS) or none. A unit takes any number of `AuPacketCounts` packets, a PAT
and a PMT one each (a PMT of up to 33 streams).

`MuxedStream` adds a client that keeps decode order per PID and a receiver with one continuity checker
per PID (the same `Check` as the demuxer's), and the times of the last PAT and PCR.

### The builders and their channels

`TSElementaryStreamBuilder` has the builder's fields, and `AddTsPacket` is one call, with its early
returns in order. A payload is a chunk that knows its PES packet and its part. `PesChannel` sends PES
packets of `PesSizes` packets with equal or new times, with and without the discontinuity flag and
with headers that parse or do not; it loses up to `MaxBurst` packets in a row and repeats packets.
`DeliveredWhole` names its exceptions: an unreadable header, and a discontinuity flag on the
packet behind a loss. `WholePesIsDelivered` is about what the channel brought, not about what the builder
has of it: `arrived` is a history of the channel, the time and all chunks of the last PES packets that came whole one
behind the other with one time, and when one of another time begins they must be delivered, to the last chunk.

`TSPsiTableBuilder` counts bytes: a payload is a list of pieces of sections, and `Accept` goes through
it as the loop of `addTsPacket:` does. `SectionChannel` packs sections back to back or with stuffing,
so that they start, end and are cut at every place of a packet. Another table may come into one, as a
whole or in turns with it, and one `table_id` may have sub-tables. Packets have 16 bytes and sections at
most 30 in its runs, in place of 183 and 1021; header and CRC have their real lengths.

### TSDemuxer

`routeTsPacket`, then any number of `didBuildTable` (what tables a packet completes is the table
builder's business, so it is a choice among `Tables`), then `demux`, the rest of the call.
`setEsPidFilter` may happen between calls and from a callback. When programs share a PMT PID the
order of a hash table decides, and the model chooses. `lapsed` is a history of streams that a filter
has excluded since their PMT was read: `OfferedStreamsAreDemuxed` holds for the others, and
`WhitelistIsProcessed`, without that exception, does not hold. `completed` is a history too, of the tables that
the packet in progress has completed: `TablesAreAnalyzedOnce` says that the analyzer is given exactly these with it.

### TSTr101290Analyzer

One call of `analyzeTsPacket:` is one step. `AnalyzedStream` has the PAT's PID, one PMT PID and one
video PID; packets are lost and copied, sync bytes corrupted, and the filter and the tables
change. It starts behind a PAT, a PMT and three null packets, in synchronization. The intervals of
500, 5000 and 200 ms are 3, 4 and 2, in the order of their differences to a packet's delay. Nothing is
scrambled: a scrambled packet only adds to the counts of that packet. The clock is monotonic.

### TransportPath

Both halves together, byte for byte: the lengths are the real ones, the bytes are told apart by
their places. A packet is cut when it is sent rather than with its unit, which gives the same packets. A
PMT goes out between two packets of a unit, as in the muxer. Standalone PCR packets follow the
first PCR in a unit, which the muxer sees to on a shared PID. `UnitsComeOut` says that this
implements `UnitPipe`. What went in (`WentIn`) is the muxer's side: the units whose first packet has left it, in
the order they left. `held` is what is in the builder and `out` what was delivered, each unit with its
number. A step that sends a first packet adds a unit to what went in, so that it must be held or come out from
then on: a unit lost wholly, one delivered twice and one out of its turn all break the refinement. The comparison
includes where the payload starts, how long it is, its time and its flags.

### SectionParsing

Bytes, as the parsers see them. `TSBitReader` is a record of bytes, place and error, and an operation
is the reader behind it, with the value it returned in `value` or `data`. A table is written by the
muxer's own `toTsPacketPayload` (PAT, PMT) or as other senders do (program descriptors, private streams,
services, channels); `Damages` then sets one byte to one of `DamagedBytes`, ends the section anywhere, or
adds bytes that are not its own. One turn of a loop is a step: `pc` is the loop (`programDescriptors`,
`entries`, `descriptors` inside an entry), `reader` and `descReader` are its two readers, `left` the count
of a PAT or VCT, and `entry` the one whose descriptors are being read. `Turn` has one action per loop
and table. What a step cannot do in the code it cannot do here: a sub-reader that fails leaves its
reader in place with the error set, and the loop over streams finds that in its next turn.

`ReadersGoForward` says that the parsers implement `ByteStream`, where a place only grows, stays inside
its bytes, and stops at an error. `turns` is a parity that makes a turn without any other change a
step, so that a loop that goes round without moving is seen as one that does not end.

### ChunkReception

`demux:` on bytes, before routing: detection of the packet size, `packetsFromChunkedTsData:` with its
skipped and its nil packets, header, adaptation field and clock reference bit by bit, and
`parseFromPacket:`. Chunks have packets of 188 bytes, or of 204 with parity behind each; a chunk may
be cut, or have one damaged byte in its second packet. `Packets` has those the muxer sends, made
by the same operators as in `TransportPath` and then written (`BytesOfPacket`), and those of other senders:
all flags of the adaptation field at once, header data longer than the times, a missing marker bit,
transport errors, fields that leave nothing for a payload. A 33-bit time is the three groups that are
on the wire; the arithmetic between them is in `TransportPath`. `isSizeTold` is a history of whether
the first chunk was one that tells the size: a whole number of packets, and of 204-byte packets not 47 or a
multiple. A caller that catches the exception of a nil packet may call again.

## The runs

| run | shows | bounds |
|---|---|---|
| `muxer_cbr` | `PacedToTarget`, `ContinuousOutput`, `LossIsSignalled`, `PcrIsTransportTime`, `PcrInTime`, `PsiInTime`, `PmtVersionTellsStreams` | ten ticks of the clock, three units of one or three packets on two PIDs, a queue of one; shared and dedicated PCR PID, two PSI intervals |
| `muxer_vbr` | `TypeOK`, `QueueInDtsOrder`, `ContinuousOutput`, `WholeUnits`, `TickFlushes`, `EveryUnitLeaves` | three units of six packets with two times or none, re-entrant enqueuing, a queue of one or without a limit |
| `es_builder` | `BuilderTypeOK`, `DeliveredWhole`, `WholePesIsDelivered` | PES packets of 1 and 16 packets, two times, two faults of up to 14 packets |
| `psi_builder` | `TableIsOneVersion`, `TableIsBuilt` | two versions of one table of two sections, a long sub-table of the same id, a table of one section; five sections, in turns or not, two faults |
| `demuxer` | `TypeOK`, `BuildersAreListed`, `AnalyzerSeesTheRegistry`, `OtherProgramsKeepTheirStreams`, `OfferedStreamsAreDemuxed`, `TablesAreAnalyzedOnce` | two programs, five PMTs, four PATs (one nil, one with a shared PID), two streams, two tables per packet, DVB and ATSC |
| `analyzer` | `PatSilenceIsReported`, `CcErrorsAreReal`, `LossIsCounted`, `IntervalErrorsAreReal` | four packets; either delays and two changes of filter or tables, or two faults, or one fault and two changes |
| `transport_path` | `PacketsAreWhole`, `UnitsComeOut`, `ProgramMapArrives` | three units around the ends of a packet, two PMTs of 1 to 202 streams, one PCR packet |
| `section_parsing` | `TypeOK`, `ReadAsWritten`, `EntriesBeforeTheDamageSurvive`, `DamageStaysInItsEntry`, `CodecSurvivesLaterDamage`, `ReadersGoForward`, `ParsingEnds` | two PATs, three PMTs, an SDT and a VCT of two or three entries with every descriptor class; any byte to one of seven values, any length, up to 12 bytes too many |
| `chunk_reception` | `ChunksAreReadAsSent`, `DamageCostsOnePacket` | all pairs of sixteen packets, chunks of 0 to 94 packets, cut chunks, nine values in the first 20 bytes of six packets |
| `psi_large`, `demux_filter`, `analyzer_sync` | that the code does not do what it says, see below | |

Why the bounds are enough. Losses: 14 is the longest loss that a counter of four bits shows, and 16
packets let a counter come round. Units: three let one be dropped while one is in progress and one is
to be announced, and let the next time, an equal time and no time meet in the queue. Faults: two let a
fault hit the recovery from another. Tables: two versions of a table, a table of another id and a
loss are what the version check and the counting of sections can confuse. Programs: two, with a shared
stream and a shared PMT PID, since every rule of the demuxer is about one program and the others. Sections: the seven values
of a damaged byte are the ends of a byte's range, lengths that are just too short or too long for what
follows, and tags that make another descriptor class of it; one damaged byte is enough, since the
parsers keep nothing between two sections. In `chunk_reception` 47 packets of 204 bytes are as many
bytes as 51 of 188, and 20 bytes hold the header and all of a field that decides how a packet is read. In
`transport_path` the lengths are those on both sides of every boundary that `TSAdaptationField`
computes. Counters that grow for ever in the code (units, packets, time) are bounded by
`MaxAccessUnits`, `MaxClock`, `MaxPes`, `MaxSections`, `MaxFaults` and the budgets; in the runs with
`CHECK_DEADLOCK FALSE` the model stops at such a bound. 32 versions of a PMT take 32 new streams
between two PMTs to confuse a receiver, which the run does not reach: `VersionsTellStreams` proves that
it takes no less.

Fairness: `EveryUnitLeaves` assumes that `tick` is called again and again (the README of the
repository: "The caller is responsible for calling tick at a regular interval") and that a call runs to
its end (one thread, no waiting in it). Nothing is assumed of the client's enqueuing or of the clock.
The property is for VBR. In CBR it depends on the bitrate, which the code leaves to the caller.
`ParsingEnds` assumes that a parser that has been called keeps running. Its `Fairness` is weak fairness
of `Next` with `ENABLED` written out (`[]<>HasReturned \/ []<><<Next>>_vars`), because evaluating
`ENABLED` through nested reads is slow; that a state that has not returned has a next step is
what the run's deadlock check shows.

### What the code does not do as it says

- `psi_large`: sections that are together longer than 1021 bytes are not built into a table; the
  demuxer then takes the nil table for a PAT (`TSPsiTableBuilder.m:296`).
- `demux_filter`: a stream that a filter excluded is not demuxed again when a later filter lets it pass
  (`TSDemuxer.m:135`).
- `analyzer_sync`: `syncByteError` cannot be counted (`TSTr101290Analyzer.m:189`).

Some properties of passing runs name exceptions that are worth knowing:

- `DeliveredWhole`: a retransmitted packet that carries the discontinuity flag is collected twice, and
  a flagged packet behind a loss continues the unit over the hole (`TSContinuityChecker.m:30`).
- `TableIsBuilt`, `ProgramMapArrives`: a section is dropped, without any loss, when a packet ends inside
  its CRC (`TSPsiTableBuilder.m:168`). The muxer's own PMTs of 34, 144 and 181 streams are among them.
- `TableIsOneVersion`: sub-tables of one `table_id` and version are not told apart
  (`TSPsiTableBuilder.m:237`). No fault is needed: who joins before the second section of one and then
  gets the first of another is given a table of both. When the sub-tables differ in their number of
  sections, the table may also be put together with a hole, since the count is compared with the
  `lastSectionNumber` of whichever section came last and not with that of section 0. The part of the
  property that says "in order and without a hole" is for sub-tables that agree in it (`AreAlike`); the
  attempt to prove the property without that found this.
- `TableIsBuilt`: two tables of several sections sent in turns discard each other's sections and neither is
  built (`crossed`). Once sections of two sub-tables were put together, what is left over of the second
  goes on to be put together with the next; and when the mixture is longer than a section may be, the
  delegate gets nil and the pending sections of both are lost (`mixed`). What holds also then is
  `IsItsOwn`: a table that the last section of a flawless transmission completes is that transmission.
- `CcErrorsAreReal`: a single copy may be counted when it is of a packet that was the first one checked
  behind unchecked ones. A packet with a bad sync byte, then 14 lost, and the next has by
  chance the counter that was checked last before: it looks like a copy itself, and its own copy like
  a second one (`TSTr101290Analyzer.m`, `validateContinuityCounter`). This takes three faults; the run's
  budgets have two, and the attempt to prove the property found it.
- `EntriesBeforeTheDamageSurvive`: a program whose number a later entry of the PAT has, by damage, is lost
  (`TSProgramAssociationTable.m:160`). So is a program with the number 65535 when the damage makes the section
  longer: the stuffing counted to it is read as entries of that number. The tables of the run do not have that
  number; the attempt to prove the property found it, and the theorem leaves it out.
- `DamageStaysInItsEntry`: in an SDT the length of a descriptor belongs to the framing, because descriptors
  are read with the reader of the section (`TSDvbServiceDescriptionTable.m:184`); in a PMT and a VCT it
  does not.
- `DamageCostsOnePacket`: damage that leaves a packet not full raises an exception for the whole chunk
  (`TSPacket.m:444`). That can also be a packet that its sender had marked as erroneous, when the damage
  takes the mark away; the attempt to prove the property found this.
- `ChunksAreReadAsSent`: after a first chunk of 47 packets of 204 bytes, or a cut one, nothing is promised
  (`TSDemuxer.m:325`).

Not a run, since nothing of it is behaviour: `TSMuxerCBRTests.m:144` expects a bitrate over 60000 kbit/s
to be refused, and `validateSettings:` does not look at it.

## The proofs

TLAPS proves, for every set of settings, PIDs, times, units and lengths and without the bounds being
small, what follows. The assumptions on the constants say that these are numbers and records of the
right kind: `ClockAssumption`, `InputAssumption` and `SettingsAssumption` in `TSMuxer`,
`ChannelAssumption` in `PesChannel`, `MaxSectionsAssumption` in `TSDemuxer`, `StreamAssumption` in
`AnalyzedStream` and `IntervalAssumption` in `TSTr101290Analyzer`, `UnitAssumption` and
`StreamAssumption` in `TransportPath`, `SectionAssumption` in `SectionChannel`, `TablesAssumption` in
`SectionParsing`, `PacketsAssumption` and `ChunksAssumption` in `ChunkReception`. Some theorems need more,
and say so: `PcrPidIsKnown`, `StreamsFitTheVersion`, `MaxBurst <= 14` three times, `IsReadAlone` twice, and
`IsPlain` with what goes with it four times, each explained below.

The muxer:

- `MuxerProofs!TypeCorrect`: `MSpec => []TypeOK`. `TypeOK` alone is not inductive: `TypeInv`
  adds that the anchor is not ahead of the loop's time, nor that of the transport time, nor the start
  of the wall clock (so that no PCR is negative), and that packets wait while a VBR tick drains.
- `MuxerProofs!Paced`: `MSpec => []PacedToTarget`. A PMT is sent without a look at the target,
  so `PaceInv` says that it only follows a PAT that was below the target, and that the target never
  falls behind what earlier ticks reached because it follows a monotonic clock.
- `MuxerProofs!OutputIsContinuous`: `ContinuousOutput`, given `PcrPidIsKnown` (a PCR PID
  with units is the video or the audio PID; `shouldSendStandalonePcr:` relies on it). Counters are
  given out when a unit is packetized and leave later, so the invariant speaks of the counter that
  leaves next (`NextOut`): the first of the waiting packets of that PID, or its track's. `PendingInv`
  says that what waits counts up to the track's counter, `CheckersInv` that a receiver's counter is one
  behind the next, and `FirstPcrInv` that the first packet of a shared PCR PID is never a PCR packet on
  its own: between the packetizing of the unit with the first PCR and the departure of its first
  packet no PCR is due, and PSI is not due either.
- `MuxerProofs` proves four properties from one invariant, `FlowInv`. Its parts: `QueueInv`, that
  every unit of the queue is one that was fed, that units of one PID wait in the order they were fed and
  units with times in the order of their times, and that the queue keeps its limit; `ModeInv`, where in
  `tick` packets may wait at all; `PartsInv`, that the waiting packets are consecutive parts up to the
  last of one unit; `UnitInv`, that the receiver has the parts before them, and whole units of the other
  PIDs; `SignalInv`, that `discontinuousPids` has a PID exactly when the last unit of it that has gone from
  the queue was dropped rather than packetized. From it:
  `QueueStaysInOrder` (`QueueInDtsOrder`; sortedness alone is not inductive, since the scan from the
  end stops at a unit without a time), `UnitsLeaveWhole` (`WholeUnits`), `LossesAreSignalled`
  (`LossIsSignalled`) and `TicksFlush` (`TickFlushes`).
- `MuxerProofs` also proves `PcrsTellTheTime`, `PcrsAreInTime` and `TablesAreInTime` from `ClockInv`.
  `InlinePcrInv` says that a packet waiting with a PCR is the very next to leave, with no table
  and no PCR due, so that its time is still right; `DueInv` that a PCR is due at most two packets too
  late, and only behind the pair of tables; `PsiInv` that the muxer's time of the tables is that of
  the last PAT as it was sent; `AnchorInv` that no PCR is sent before the anchor is set.
- `MuxerProofs!VersionsTellStreams`: `PmtVersionTellsStreams`, given `StreamsFitTheVersion` (at most 31
  PIDs have units). `VersionInv` says that the version counts the streams modulo 32, which only grow. With
  33 streams it is false: the 32nd new one brings back an earlier version.

The demuxer:

- `BuilderProofs`: `BuilderTypes`, `WholePesComesOut` (`WholePesIsDelivered`) and
  `DeliveredUnitsAreWhole` (`DeliveredWhole`), for PES packets of every size and any number of faults.
  The first needs `ArrivedIsCollected`: what the builder holds ends with what, by its history, the channel brought whole.
  `ChannelInv` relates the builder's checker to the channel (`CountersAgree`: the next counter is as
  far ahead as packets were lost) and what is collected to the place of the channel. `DeliveredWhole` is given
  `MaxBurst <= 14`: sixteen lost packets cannot be seen in a counter of four bits, and fifteen look like
  a copy. `FlawlessIsChained` speaks of the unit still being collected, of which `DeliveredWhole` says nothing.
- `SectionProofs!BuiltTablesAreOneVersion`: `TableIsOneVersion`, given `MaxBurst <= 14` like the theorem on
  units, for sections and packets of every size (so for 183 and 1021 bytes, where the run has 16 and 30)
  and any number of sub-tables and faults. `ChannelInv` says that counters agree as above (`CountersAgree`);
  that the section in progress, if no packet was lost since, is the one sent last, from its first byte up to
  where the sender is (`InProgressOK`); and that what is pending are complete sections of one table_id
  and version, each under its own number (`PendingOK`). A packet may complete several sections, which
  `Accept` folds into the builder: `OneByOne` turns the fold into the steps of `deliverCompletedSection:`,
  each of which keeps `PendingOK` and builds only tables as they should be (`DeliverStep`). That counting
  the sections is enough is `AllNumbers`: n different numbers below n are all of them. That the loop
  over the numbers then gives them in order is `InOrderOfAll`.
- `SectionProofs!WholeTablesAreBuilt`: `TableIsBuilt`, under the same hypothesis. `ChannelInv` speaks of what is
  pending only; that a table does come out needs, for every transmission under way, what has become of each of its
  sections. `FlowInv` says so of a set of known sections, those that arrived among them. `OrderOK`: what was
  sent of a transmission comes before what is to come of it, and its sections are of one table (`Kin`).
  `StackOK`: when one transmission came into another that is still open and is pending, both are spoilt, and below a
  section of a whole transmission nothing older is pending (`NoneOlder`). `FollowsOK`: of an open transmission that is
  not spoilt and whose first section arrived, all that arrived is pending, unless it is settled: built, or
  mixed with another. `BuiltOK`: one that arrived wholly is built or mixed. `OwnTable`: a
  table that its last section completes is its own. `LiveOK` and `SplitOK` are about the section on its way:
  if all that was sent of it arrived and it is not split, it is in progress, its header known
  and its CRC to come.
  A packet does to these what its pieces do, one after the other: a section ends (`FinishStep`) and another begins
  (`BeginStep`). `Folded` makes such steps of the fold in `Accept`, and `PacketFlow` puts them together for a packet
  that is taken; `FlowRestarts` and `FlowLoses` are the gap at which all that is pending is given up and the packet
  that never comes. `HasArrivedTo` turns the property's counting of sections into their numbers.
- `DemuxerProofs`: `RegistryTypes` (`TypeOK`), `BuildersFollowTheTables` (`BuildersAreListed`, together
  with `OfferedHaveBuilders`, the other direction), and from it `OfferedStreamsReachABuilder`
  (`OfferedStreamsAreDemuxed`); `StreamsOfOthersAreKept` (`OtherProgramsKeepTheirStreams`);
  `AnalyzerIsUpToDate` (`AnalyzerSeesTheRegistry`, for which `CacheIsFresh` speaks of the cache between two
  packets); `CompletedTablesGoWithTheirPacket` (`TablesAreAnalyzedOnce`, for which `PendingAreOfThePacket` says that the
  tables waiting are those that the packet in progress has completed, and none without one).
- `AnalyzerProofs` proves all four properties of the `analyzer` run, at any pace of packets and for any
  number of faults and changes. `IntervalErrorsFollowSilence` (`IntervalErrorsAreReal`) rests on `TimeInv`: what
  the analyzer remembers of a PID is never older than what was heard, and no report is later than
  the last check. `SilenceIsReported` (`PatSilenceIsReported`) adds `SilenceInv`: at the last check the PAT was no
  older than its interval or its lateness is on record, and a check follows within the throttle.
  `CountedErrorsAreReal` (`CcErrorsAreReal`) and `FollowedLossesAreCounted` (`LossIsCounted`) rest on
  `CounterInv`: for a PID that the analyzer follows, the losses since lead from its counter to the
  channel's and the trace of a copy is that of one; one it does not follow has a reason.
  The attempt to prove it is what found the exception above.

Both together:

- `TransportProofs!CutAndRead`: one packet that `packetizePayload:` cuts of a payload of any length has
  188 bytes, takes at least one byte, and `initWithTsPacketData:` reads it at the place, with the
  counter and with the flags it was written with. The cases are those of the code: no field, the field
  of a single byte, and the field with flags, PCR and stuffing.
- `TransportProofs!EveryPacketIsWhole`: `Spec => []PacketsAreWhole`. `JobsInv` adds that
  what is left of a unit or of a PMT is never empty when a packet is cut of it: an empty rest has no
  packet of 188 bytes unless it asks for a field.
- `TransportProofs!PathImplementsPipe`: `Spec => UnitsComeOut`, the refinement of `UnitPipe`: of the units whose
  first packet has left, none is lost, repeated or out of its turn on the way to the builder's delegate. A unit goes
  into the pipe with the step that sends its first packet, which makes `WentIn` longer by it (`Begun`); its other packets, PCR packets and the packets of
  tables are stutters. `PathInv` is what the mapping needs: `UnitInv`, what is left of the
  unit being sent; `CounterInv`, that the receiver has seen the counter that the sender gave out last, so that a
  standalone PCR, which repeats it, is taken for a copy and drops nothing; `CollectInv`, what the builder
  holds. The last is a statement about data (`WellCollected`): the chunks collected are of
  consecutive units with one time, and those of each unit follow each other without a gap from behind its
  PES header to its end, or for the last unit to what has gone of it. It survives each way a
  chunk can come (`CollectsMore`, `CollectsAnother`, `CollectsAnew`), and `CollectedIsHeld` turns it into
  the units delivered. That the builder finds the whole PES header in the first packet is not an
  assumption: `CutAndRead` adds that a packet takes all that is left or at least 176 bytes.
- `TransportProofs!ProgramMapsArrive`: `Spec => ProgramMapArrives`, for every number of streams. Packets of a PMT have no
  flags, so that each takes 184 bytes or all that is left (`PmtPacketIsFull`), and what is left has the remainder by
  184 of the whole: this is how the last packet comes to hold one to three bytes, less than the CRC, and only
  then. `TablesInv` says that the section in progress is the one going out and lacks what has not gone, that nothing is
  pending, and that the next counter is expected. Of the builder's folds only those of no section and of one
  are needed (`FoldOfNothing`, `FoldOfOne`): a PMT is a single section.

The parsers:

- `ParsingProofs!ParsersGoForward`: `Spec => ReadersGoForward`, the refinement of `ByteStream`, for every
  PAT, PMT, SDT and VCT, whatever byte of it is another, wherever it ends and whatever follows it.
  `Reads(r, s, n)` is what every call of the bit reader keeps: the reader `s` after a call that reads `n`
  bits has the same bytes and is `n` bits on, or has failed; one that had failed before has not moved. It composes
  (`ReadsOn`), so that a turn of a loop is its calls put together. `ReaderInv` adds what the mapping needs: nothing is
  set aside once the reader of the section has failed, because a length that does not fit makes an empty
  reader of descriptors with the same call (`SetAside`).
- `ParsingProofs!ReadValuesFit`: `Spec => []TypeOK`. A read of `n` bits returns a number of `n` bits wherever it begins
  (`BitsFit`), a text is cut out of bytes of the section, and a descriptor's length is that of the payload it
  was made of. `EntryOK` adds that the entry whose descriptors are read is one of its table, and that a
  channel being read was announced, so that the count of those to come never falls below zero;
  `IsMade` that only a descriptor with the tag of a service location is kept for one.
- `ParsingProofs!MuxedTablesAreRead`: `ReadAsWritten` for every PAT with any programs, no number twice, and
  every PMT with any streams, none twice and without descriptors (`IsPlain`), which are the tables that the muxer writes.
    The writer's fields are arithmetic on bytes that the reader's bits undo (`ByteGiven`, `WordGiven`,
  `BitsGiven`); `PlainInv` says that behind `k` turns the reader is `k` entries on and has the first `k`.
- `ParsingProofs!EarlyEntriesSurvive`, `DamageCostsOneEntry` and `CodecsSurvive`: `EntriesBeforeTheDamageSurvive`,
  `DamageStaysInItsEntry` and `CodecSurvivesLaterDamage` for the same tables, with any byte of the section another, any end
  and any stuffing. `DamageInv` has two parts. The entries of a PAT have one size, so that each turn reads the entry that was
    written there, or stuffing, and no other turn takes an unharmed one away (`PatState`). A PMT's are as long
  as they say, so that
  streams are read where they were written only until one whose descriptor length is another (`PmtState`); those before
  it are safe (`LinkedSurvive`), and that length is framing for the properties (`IsMarked`). The first of the three is
  without PATs that have a program 65535 (`HasNoStuffingNumber`), for the reason above.
- `ReceptionProofs!ReadAsSent`: `ChunksAreReadAsSent`, and `DamageIsLocal`: `DamageCostsOnePacket`, for any set of
  packets, chunks of any number of them, and any value at any place. Both are given that what the constants say is to be
  read of a packet is what the demuxer reads of it alone (`IsReadAlone`); `MCChunkReception` has TLC evaluate that for its
  packets (`PacketsAreReadAlone`). What is left is the business of a chunk. `ReceptionInv` says that the packet size is that
  of the stream once a first chunk has told it, for which a multiple of 204 bytes that is one of 188 must be a
  multiple of 47 packets (`FortySevenPackets`). By induction over the packets, packet `k` of the
  stream lies behind `(k - 1) * streamSize` bytes (`PacketAtIs`), so that each turn of the loop gets the packet that was
  sent (`WholeTurns`), and after damage each but one (`DamagedTurns`); `ThreeParts` puts what is read of those before it, of
  it and of those behind it together. That damage makes a nil packet only where the property says is
  `NilByDamage`: a mode is read of byte 4 alone (`ModeRead`) and the length of a field of byte 5 (`FieldRead`), so that
  a damaged byte elsewhere leaves the size of the packet, unless what was read before had no payload.
- `ReceptionProofs!PacketsAreRead`: every packet that `packetizePayload:` cuts, of any payload, with any PID, counter,
  flags and PCR, is read from its bytes as it was (`IsReadBack`), and `PcrPacketIsRead`: so is a PCR packet. The reader
  takes `n` bits from bit `b` behind `i` bytes (`BitsIn`), wherever it stands; what the writer put there is arithmetic on
  one, two or three bytes, so that each field is one lemma, and the header (`HeaderIsRead`), the adaptation field with its
  eight flags, its PCR and its stuffing, and the packet are put together of those. `IsCut` is what is used of the
  packet: the sizes add up to 188, a field of one byte has no flags, and one of more has a byte for them.
- `ReceptionProofs!TimesAreRead`: the PES header in the first packet of every access unit is read as it was written, its
  times to the last of their 33 bits. Each is forty bits in five bytes with a prefix and three markers; the first packet has
  at least 176 bytes of payload, so that a header of at most 19 fits. A decode time is written, and read, only behind a
  presentation time.
- `ReceptionProofs!MuxedChunksAreRead` puts these together: for chunks of packets that the muxer sends, null packets
  among them, `ReadAsSent` and `DamageIsLocal` have nothing more to assume (`SentIsReadAlone`).
- The lemmas on `FlattenSeq`, a recursive function, use that the natural numbers are well-founded
  (`InductionOverNat`): the set of the `n` that something holds of takes the place of the predicate.

Only model-checked:

- `EveryUnitLeaves` and `ParsingEnds`: liveness under fairness is out of the prover's reach.
- That the table parsers read what other senders write: `ReadAsWritten`, `EntriesBeforeTheDamageSurvive`,
  `DamageStaysInItsEntry` and `CodecSurvivesLaterDamage` of PMTs with descriptors, of SDTs and of VCTs. `TablesAssumption`
  says nothing of how the bytes of such a table and the values to be read of it go together: that is put together in
  `MCSectionParsing`, for the tables of the run, and every field of every table and descriptor has a width and a place
  of its own. What is proved of them is `ParsersGoForward` and `ReadValuesFit`.
- `IsReadAlone` of the packets of other senders, with fields and header data that the muxer does not write.
- The three violations, of course.

## Not modelled

Character sets of names (`TSStringEncodingUtil`), CRC, which is written and never verified, logging,
statistics, and all texts for display. Conversions between host time and the 90 kHz clock, but for
clamping. A `lastSectionNumber` of 255, where the loop of `aggregatePendingSections` does not end.
Packets with the discontinuity flag in `SectionChannel`; routing in `ChunkReception`, which is `TSDemuxer`'s;
more than one damaged byte.

## The plan

Done, in this order: the muxer with its stream, the two builders with their channels, the demuxer,
the analyzer, and the two halves together; the parsers over damaged sections, sub-tables and tables
sent among each other, and chunks of received bytes; the proofs of all properties of the muxer but its
liveness, of the stream builder, of the demuxer's registry and of the analyzer; whole packets for every
length, and that what the muxer sends of its units implements `UnitPipe` at the demuxer; that PMTs of every length arrive; that the parsers go
forward in their bytes and read values that fit, and that the muxer's
tables are read as they were written, and damaged ones but for what the damage hits; that the table builder
builds one version of one table, and every table that arrives wholly; that chunks are split into their packets, with and
without damage, and that every packet of the muxer is read as it was written.

1. Prove: that SDTs, VCTs and descriptors are read as they were written, with a writer for each in the model, on the lemmas
   of `MuxedTablesAreRead`.
2. Extend: PMTs of several packets in `TSMuxer`; the muxer's packets straight into the builders in one of
   its runs; flagged packets in `SectionChannel`.
