----------------------------- MODULE TSDemuxer -----------------------------
(***************************************************************************)
(* TSDemuxer: the registry of programs and elementary streams that the     *)
(* tables of a transport stream build up, and the way of a packet through  *)
(* it: to a table builder, whose tables call back into the demuxer, to the *)
(* TR 101 290 analyzer, and to an elementary stream builder.               *)
(*                                                                         *)
(* A table is a record with its kind and                                   *)
(*   "PAT"    programmes, <<[program -> PMT PID]>>, or <<>> for a table    *)
(*            that is nil (its tableId reads as 0, TABLE_ID_PAT)           *)
(*   "PMT"    program, version, streams, a function from PIDs to types     *)
(*   "SDT"    content (TABLE_ID_DVB_SDT_ACTUAL_TS)                         *)
(*   "VCT"    content (TABLE_ID_ATSC_TVCT, TABLE_ID_ATSC_CVCT)             *)
(*   "Other"  a table that the demuxer does not read                       *)
(* How packets become tables is TSPsiTableBuilder's business: here a       *)
(* packet comes with the tables it completes.                              *)
(***************************************************************************)
EXTENDS PacketRouting, Sequences, FiniteSets

CONSTANTS
    Tables,         \* the tables the transport stream may carry
    Filters,        \* what the client may set as the filter; {} is nil
    CustomPids,     \* the PIDs in use beside the reserved ones
    MaxSections     \* BOUND on the tables that a packet completes

\* A packet may complete tables, none of them among its cases.
ASSUME MaxSectionsAssumption == MaxSections \in Nat

VARIABLES
    mode,               \* of the broadcast standard: chosen once
    pat,                \* <<programmes>>, or <<>> for nil
    pmts,               \* the PMT of a program, for the programs that sent one
    pmtsByPid,          \* <<cached result>>, or <<>> for nil
    sdt, vct,           \* <<table>>, or <<>> for nil
    tableBuilders,      \* the PIDs that have a table builder
    streamBuilders,     \* the PIDs that have a stream builder, and its stream type
    esPidFilter,
    pendingCompletedSections,   \* the kind and the PID of each
    packet,     \* <<[pid, route]>> while a packet is in demux:
    completed,  \* history: the kind and the PID of each table which that packet completed
    callback,   \* the delegate was called in the step before this one
    analyzed,   \* <<context>> that this step gave to the analyzer
    demuxed,    \* <<pid>> of the packet that this step gave to a stream builder
    lapsed      \* listed streams that a filter excluded after their PMT was last read

registryVars == <<pat, pmts, pmtsByPid, sdt, vct, tableBuilders, streamBuilders, esPidFilter>>
outcomeVars == <<callback, analyzed, demuxed>>
vars == <<mode, registryVars, pendingCompletedSections, packet, completed, outcomeVars, lapsed>>

NoMap == [x \in {} |-> x]

Streams(pmt) == DOMAIN pmt.streams

\* The streams that the PMTs of a set of programs list.
Listed(programs) == UNION {Streams(pmts[n]) : n \in programs}

Init ==
    /\ mode \in Modes
    /\ pat = <<>> /\ pmts = NoMap /\ pmtsByPid = <<>> /\ sdt = <<>> /\ vct = <<>>
    /\ tableBuilders = {} /\ streamBuilders = NoMap /\ esPidFilter = {}
    /\ pendingCompletedSections = <<>> /\ packet = <<>> /\ completed = <<>>
    /\ callback = FALSE /\ analyzed = <<>> /\ demuxed = <<>> /\ lapsed = {}

-----------------------------------------------------------------------------
(* Tables: the callbacks of the table builders *)

\* A nil PAT is never equal to what was there before.
setPatKeepingCache(t) ==
    /\ pat' = t.programmes /\ callback' = (t.programmes = <<>> \/ t.programmes # pat)
    /\ UNCHANGED <<pmts, pmtsByPid, sdt, vct, streamBuilders, lapsed>>

isEqualToPat(a, b) == a # <<>> /\ a = b

setPat(t) ==
    LET same == isEqualToPat(t.programmes, pat)
    IN  /\ callback' = ~same
        /\ pat' = t.programmes
        /\ pmtsByPid' = IF same THEN pmtsByPid ELSE <<>>
        /\ UNCHANGED <<pmts, sdt, vct, streamBuilders, lapsed>>

setSdt(t) ==
    /\ sdt' = <<t>> /\ callback' = (sdt # <<t>>)
    /\ UNCHANGED <<pat, pmts, pmtsByPid, vct, streamBuilders, lapsed>>

setVct(t) ==
    /\ vct' = <<t>> /\ callback' = (vct # <<t>>)
    /\ UNCHANGED <<pat, pmts, pmtsByPid, sdt, streamBuilders, lapsed>>

AllWithNewBuilders(pmt) ==
    [pid \in DOMAIN streamBuilders \cup Streams(pmt) |->
        IF pid \in DOMAIN streamBuilders THEN streamBuilders[pid] ELSE pmt.streams[pid]]

\* The new streams that the filter lets pass get a builder, unless their PID has one.
WithNewBuilders(pmt) ==
    LET new == {pid \in Streams(pmt) : shouldProcessEsPid(esPidFilter, pid)}
    IN  [pid \in DOMAIN streamBuilders \cup new |->
            IF pid \in DOMAIN streamBuilders THEN streamBuilders[pid] ELSE pmt.streams[pid]]

PidsToRemoveEverywhere(pmt) ==
    (IF pmt.program \in DOMAIN pmts THEN Streams(pmts[pmt.program]) ELSE {}) \ Streams(pmt)

PidsToRemoveUnshared(pmt) ==
    (IF pmt.program \in DOMAIN pmts THEN Streams(pmts[pmt.program]) ELSE {})
        \ Listed(DOMAIN pmts \ {pmt.program})

\* The streams of the program's PMT so far that the new one drops, or that the filter
\* excludes, and that no other program lists.
PidsToRemove(pmt) ==
    LET prev  == IF pmt.program \in DOMAIN pmts THEN Streams(pmts[pmt.program]) ELSE {}
        kept  == {pid \in Streams(pmt) : shouldProcessEsPid(esPidFilter, pid)}
    IN  prev \ (kept \cup Listed(DOMAIN pmts \ {pmt.program}))

\* Its descriptors and its PCR PID do not count.
isEqualToPmt(a, b) == a.program = b.program /\ a.version = b.version /\ a.streams = b.streams

updatePmt(t) ==
    IF t.program \in DOMAIN pmts /\ isEqualToPmt(t, pmts[t.program])
    THEN /\ callback' = FALSE
         /\ UNCHANGED <<pat, pmts, pmtsByPid, sdt, vct, streamBuilders, lapsed>>
    ELSE /\ streamBuilders' =
                Restrict(WithNewBuilders(t), DOMAIN WithNewBuilders(t) \ PidsToRemove(t))
         /\ pmts' = [n \in DOMAIN pmts \cup {t.program} |-> IF n = t.program THEN t ELSE pmts[n]]
         /\ pmtsByPid' = <<>>
         /\ callback' = TRUE
         /\ lapsed' = {pid \in lapsed \cup Streams(t) :
                          pid \in Streams(t) => ~shouldProcessEsPid(esPidFilter, pid)}
         /\ UNCHANGED <<pat, sdt, vct>>

Ignored ==
    /\ callback' = FALSE
    /\ UNCHANGED <<pat, pmts, pmtsByPid, sdt, vct, streamBuilders, lapsed>>

didBuildTable ==
    /\ packet # <<>> /\ packet[1].route = "Table" /\ Len(pendingCompletedSections) < MaxSections
    /\ \E t \in Tables :
          /\ pendingCompletedSections' =
                Append(pendingCompletedSections, [kind |-> t.kind, pid |-> packet[1].pid])
          /\ \/ t.kind = "PAT" /\ setPat(t)
             \/ t.kind = "PMT" /\ updatePmt(t)
             \/ t.kind = "SDT" /\ mode = "DVB" /\ setSdt(t)
             \/ t.kind = "VCT" /\ mode = "ATSC" /\ setVct(t)
             \/ t.kind = "SDT" /\ mode # "DVB" /\ Ignored
             \/ t.kind = "VCT" /\ mode # "ATSC" /\ Ignored
             \/ t.kind = "Other" /\ Ignored
          /\ completed' = Append(completed, [kind |-> t.kind, pid |-> packet[1].pid])
    /\ analyzed' = <<>> /\ demuxed' = <<>>
    /\ UNCHANGED <<mode, tableBuilders, esPidFilter, packet>>

-----------------------------------------------------------------------------
(* The client *)

\* Between calls of demux:, or from a delegate callback inside it.
setEsPidFilter(filter) ==
    /\ packet = <<>> \/ callback
    /\ esPidFilter' = filter
    /\ streamBuilders' =
            Restrict(streamBuilders, {pid \in DOMAIN streamBuilders : shouldProcessEsPid(filter, pid)})
    /\ lapsed' = lapsed \cup {pid \in Listed(DOMAIN pmts) : ~shouldProcessEsPid(filter, pid)}
    /\ analyzed' = <<>> /\ demuxed' = <<>>
    /\ UNCHANGED <<mode, pat, pmts, pmtsByPid, sdt, vct, tableBuilders, pendingCompletedSections,
                   packet, completed, callback>>

-----------------------------------------------------------------------------
(* Packets *)

routeTsPacket(pid) ==
    /\ packet = <<>>
    /\ \E route \in RoutesOf(mode, pat, pid) :
          /\ tableBuilders' = IF route = "Table" THEN tableBuilders \cup {pid} ELSE tableBuilders
          /\ packet' = <<[pid |-> pid, route |-> route]>> /\ completed' = <<>>
    /\ callback' = FALSE /\ analyzed' = <<>> /\ demuxed' = <<>>
    /\ UNCHANGED <<mode, pat, pmts, pmtsByPid, sdt, vct, streamBuilders, esPidFilter,
                   pendingCompletedSections, lapsed>>

\* The cached map, or a new one, which is kept unless there is no PAT.
PmtsByPid ==
    IF pmtsByPid # <<>> THEN {pmtsByPid[1]} ELSE PmtMapsByPid(pat, pmts)

\* Mutant: the tables stay for the packets behind this one.
analyzeKeepingSections ==
    \E byPid \in PmtsByPid :
        /\ pmtsByPid' = IF pmtsByPid = <<>> /\ pat = <<>> THEN <<>> ELSE <<byPid>>
        /\ analyzed' = <<[pat |-> pat, pmts |-> byPid, esPidFilter |-> esPidFilter,
                          completedSections |-> pendingCompletedSections]>>
        /\ UNCHANGED pendingCompletedSections

analyzeTsPacket ==
    \E byPid \in PmtsByPid :
        /\ pmtsByPid' = IF pmtsByPid = <<>> /\ pat = <<>> THEN <<>> ELSE <<byPid>>
        /\ analyzed' = <<[pat |-> pat, pmts |-> byPid, esPidFilter |-> esPidFilter,
                          completedSections |-> pendingCompletedSections]>>
        /\ pendingCompletedSections' = <<>>

\* The rest of demux:, when the tables that the packet completes are built.
demux ==
    /\ packet # <<>>
    /\ LET p     == packet[1]
           isPes == p.route = "Pes"
       IN \/ /\ isPes /\ ~shouldProcessEsPid(esPidFilter, p.pid)
             /\ analyzed' = <<>> /\ demuxed' = <<>>
             /\ UNCHANGED <<pmtsByPid, pendingCompletedSections>>
          \/ /\ isPes => shouldProcessEsPid(esPidFilter, p.pid)
             /\ analyzeTsPacket
             /\ demuxed' = IF isPes /\ p.pid \in DOMAIN streamBuilders THEN <<p.pid>> ELSE <<>>
    /\ packet' = <<>> /\ completed' = <<>> /\ callback' = FALSE
    /\ UNCHANGED <<mode, pat, pmts, sdt, vct, tableBuilders, streamBuilders, esPidFilter, lapsed>>

Next ==
    \/ \E pid \in CustomPids \cup {PID_PAT, ServicePid(mode), PID_NULL_PACKET} : routeTsPacket(pid)
    \/ didBuildTable
    \/ demux
    \/ \E filter \in Filters : setEsPidFilter(filter)

Spec == Init /\ [][Next]_vars

-----------------------------------------------------------------------------
(* Properties *)

\* Type invariant.
TypeOK ==
    LET pids == CustomPids \cup {PID_PAT, ServicePid(mode), PID_NULL_PACKET}
    IN  /\ pat = <<>> \/ \E t \in Tables : t.kind = "PAT" /\ pat = t.programmes
        /\ \A n \in DOMAIN pmts : pmts[n] \in Tables /\ pmts[n].program = n
        /\ tableBuilders \subseteq pids /\ esPidFilter \in Filters \cup {{}}
        /\ packet # <<>> => packet[1].pid \in pids
        /\ callback \in BOOLEAN
        /\ Len(pendingCompletedSections) <= MaxSections
        /\ packet = <<>> => pendingCompletedSections = <<>>

\* Every stream builder serves a stream that some program's PMT lists and that the filter
\* lets pass: nothing that was removed, or filtered out, is still collected.
BuildersAreListed ==
    DOMAIN streamBuilders \subseteq
        {pid \in Listed(DOMAIN pmts) : shouldProcessEsPid(esPidFilter, pid)}

\* A new PMT of one program, and a filter that a stream passes, leave the builders of the
\* streams that another program's PMT lists as they are, with the data they have collected
\* (updatePmt: "Ensure no other program PMT references es-to-be-removed").
OtherProgramsKeepTheirStreams ==
    [][\A pid \in DOMAIN streamBuilders, n \in DOMAIN pmts :
          /\ pid \in Streams(pmts[n]) /\ n \in DOMAIN pmts' /\ pmts'[n] = pmts[n]
          /\ shouldProcessEsPid(esPidFilter', pid)
          => pid \in DOMAIN streamBuilders' /\ streamBuilders'[pid] = streamBuilders[pid]]_vars

\* A PES packet of a stream that a PMT lists and the filter lets pass reaches a builder,
\* unless a filter has excluded the stream since its PMT was last read.
OfferedStreamsAreDemuxed ==
    [][\A pid \in Listed(DOMAIN pmts) \ lapsed :
          /\ demux /\ packet[1].pid = pid /\ packet[1].route = "Pes"
          /\ shouldProcessEsPid(esPidFilter, pid)
          => demuxed' = <<pid>>]_vars

\* What the analyzer is told of the programs is what the demuxer holds at that moment, the
\* cache notwithstanding (pmtsByPid: "cached and invalidated when PAT or PMT changes").
AnalyzerSeesTheRegistry ==
    \A i \in DOMAIN analyzed :
        /\ analyzed[i].pat = pat
        /\ analyzed[i].pmts \in PmtMapsByPid(pat, pmts)

\* Every packet but one of an elementary stream is analyzed, whatever the filter, and every
\* packet that is analyzed comes with all the tables that it completed, in their order, and
\* with no table of an earlier packet, though a delegate may set the filter in between
\* (pendingCompletedSections; TSDemuxer.h: "PSI PIDs (PAT/PMT/etc) are always processed
\* regardless of this setting").
TablesAreAnalyzedOnce ==
    [][/\ demux /\ packet[1].route # "Pes" => analyzed' # <<>>
       /\ analyzed' # <<>> => analyzed'[1].completedSections = completed]_vars

\* Whatever the filter lets pass is processed (TSDemuxer.h: "Elementary stream PIDs to
\* process (whitelist). If nil, all ES PIDs are processed").
WhitelistIsProcessed ==
    [][\A pid \in Listed(DOMAIN pmts) :
          /\ demux /\ packet[1].pid = pid /\ packet[1].route = "Pes"
          /\ shouldProcessEsPid(esPidFilter, pid)
          => demuxed' = <<pid>>]_vars
=============================================================================
