--------------------------- MODULE DemuxerProofs ---------------------------
(* What holds of the demuxer's registry for every set of tables, filters and *)
(* PIDs.                                                                     *)
EXTENDS TSDemuxer, SequenceTheorems, TLAPS

\* What a step may do to the PMTs, the stream builders, the filter and the streams that
\* lapsed: a PMT is taken in, a filter is set, or nothing happens to them.
TakesInPmt(t) ==
    /\ streamBuilders' = Restrict(WithNewBuilders(t), DOMAIN WithNewBuilders(t) \ PidsToRemove(t))
    /\ pmts' = [n \in DOMAIN pmts \cup {t.program} |-> IF n = t.program THEN t ELSE pmts[n]]
    /\ lapsed' = {pid \in lapsed \cup Streams(t) :
                     pid \in Streams(t) => ~shouldProcessEsPid(esPidFilter, pid)}
    /\ pmtsByPid' = <<>>
    /\ UNCHANGED <<pat, esPidFilter>>

RegistryStep ==
    \/ \E t \in Tables : TakesInPmt(t)
    \/ /\ \E filter \in Filters : setEsPidFilter(filter)
       /\ UNCHANGED <<pat, pmts, pmtsByPid>>
    \/ UNCHANGED <<pmts, streamBuilders, esPidFilter, lapsed>>

\* Every step of the demuxer is one of the three.
LEMMA StepOfTheRegistry ==
  ASSUME [Next]_vars
  PROVE  RegistryStep
<1>1. ASSUME NEW pid, routeTsPacket(pid)
      PROVE  RegistryStep
  BY <1>1 DEF routeTsPacket, RegistryStep
<1>2. CASE didBuildTable
  <2>1. PICK t \in Tables :
            \/ setPat(t)
            \/ updatePmt(t)
            \/ setSdt(t)
            \/ setVct(t)
            \/ Ignored
    BY <1>2 DEF didBuildTable
  <2>2. UNCHANGED esPidFilter
    BY <1>2 DEF didBuildTable
  <2>3. CASE updatePmt(t)
    BY <2>2, <2>3 DEF updatePmt, TakesInPmt, RegistryStep
  <2> QED
    BY <2>1, <2>2, <2>3 DEF setPat, setSdt, setVct, Ignored, RegistryStep
<1>3. CASE demux
  BY <1>3 DEF demux, RegistryStep
<1>4. ASSUME NEW filter \in Filters, setEsPidFilter(filter)
      PROVE  RegistryStep
  BY <1>4 DEF setEsPidFilter, RegistryStep
<1>5. CASE UNCHANGED vars
  BY <1>5 DEF vars, registryVars, RegistryStep
<1> QED
  BY <1>1, <1>2, <1>3, <1>4, <1>5 DEF Next

\* Where the streams of a set of programs come from.
LEMMA ListedBy ==
  ASSUME NEW programs, NEW pid
  PROVE  pid \in Listed(programs) <=> \E n \in programs : pid \in Streams(pmts[n])
BY DEF Listed

\* The streams that the PMTs list once a PMT is taken in: its own, and those of the others.
LEMMA ListedAfter ==
  ASSUME NEW t, TakesInPmt(t), NEW pid
  PROVE  pid \in Listed(DOMAIN pmts)' <=>
            pid \in Streams(t) \/ pid \in Listed(DOMAIN pmts \ {t.program})
<1>1. DOMAIN pmts' = DOMAIN pmts \cup {t.program}
  BY DEF TakesInPmt
<1>2. pmts'[t.program] = t /\ \A n \in DOMAIN pmts \ {t.program} : pmts'[n] = pmts[n]
  BY DEF TakesInPmt
<1> QED
  BY <1>1, <1>2 DEF Listed, Streams

\* What updatePmt does to the stream builders: a stream has one afterwards if it had one or
\* if the PMT offers it, and if the PMT offers it or another program, or nobody, listed it.
LEMMA BuildersAfter ==
  ASSUME NEW t, TakesInPmt(t), NEW pid
  PROVE  LET offered == pid \in Streams(t) /\ shouldProcessEsPid(esPidFilter, pid)
             others  == pid \in Listed(DOMAIN pmts \ {t.program})
         IN  /\ pid \in DOMAIN streamBuilders' <=>
                   /\ pid \in DOMAIN streamBuilders \/ offered
                   /\ offered \/ others \/ pid \notin Listed(DOMAIN pmts)
             /\ pid \in DOMAIN streamBuilders \cap DOMAIN streamBuilders' =>
                   streamBuilders'[pid] = streamBuilders[pid]
<1> DEFINE new == {p \in Streams(t) : shouldProcessEsPid(esPidFilter, p)}
           prev == IF t.program \in DOMAIN pmts THEN Streams(pmts[t.program]) ELSE {}
<1>1. DOMAIN WithNewBuilders(t) = DOMAIN streamBuilders \cup new
  BY DEF WithNewBuilders
<1>2. DOMAIN streamBuilders' = DOMAIN WithNewBuilders(t) \ PidsToRemove(t)
  BY DEF TakesInPmt, Restrict
<1>3. PidsToRemove(t) = prev \ (new \cup Listed(DOMAIN pmts \ {t.program}))
  BY DEF PidsToRemove
<1>4. pid \in Listed(DOMAIN pmts) <=> pid \in prev \/ pid \in Listed(DOMAIN pmts \ {t.program})
  BY DEF Listed
<1>5. ASSUME pid \in DOMAIN streamBuilders, pid \in DOMAIN streamBuilders'
      PROVE  streamBuilders'[pid] = streamBuilders[pid]
  BY <1>1, <1>2, <1>5 DEF TakesInPmt, Restrict, WithNewBuilders
<1> QED
  BY <1>1, <1>2, <1>3, <1>4, <1>5

-----------------------------------------------------------------------------
(* The stream builders *)

\* Every listed stream that no filter excluded has a builder, whatever the filter is now.
OfferedHaveBuilders == Listed(DOMAIN pmts) \ lapsed \subseteq DOMAIN streamBuilders

\* A stream has a builder only if it is listed and passes the filter, and it has one if it is
\* listed and did not lapse: both survive a step of the demuxer (updatePmt:, setEsPidFilter:).
LEMMA BuildersStep ==
  ASSUME BuildersAreListed, OfferedHaveBuilders, [Next]_vars
  PROVE  BuildersAreListed' /\ OfferedHaveBuilders'
<1>1. RegistryStep
  BY StepOfTheRegistry
<1>2. ASSUME NEW t \in Tables, TakesInPmt(t)
      PROVE  BuildersAreListed' /\ OfferedHaveBuilders'
  <2>1. esPidFilter' = esPidFilter
    BY <1>2 DEF TakesInPmt
  <2>2. ASSUME NEW pid \in DOMAIN streamBuilders'
        PROVE  pid \in Listed(DOMAIN pmts)' /\ shouldProcessEsPid(esPidFilter, pid)
    <3>1. CASE pid \in Streams(t) /\ shouldProcessEsPid(esPidFilter, pid)
      BY <3>1, <1>2, ListedAfter
    <3>2. CASE ~(pid \in Streams(t) /\ shouldProcessEsPid(esPidFilter, pid))
      <4>1. /\ pid \in DOMAIN streamBuilders
            /\ pid \in Listed(DOMAIN pmts \ {t.program}) \/ pid \notin Listed(DOMAIN pmts)
        BY <1>2, <2>2, <3>2, BuildersAfter
      <4>2. pid \in Listed(DOMAIN pmts) /\ shouldProcessEsPid(esPidFilter, pid)
        BY <4>1 DEF BuildersAreListed
      <4> QED
        BY <1>2, <4>1, <4>2, ListedAfter
    <3> QED
      BY <3>1, <3>2
  <2>3. ASSUME NEW pid \in Listed(DOMAIN pmts)', pid \notin lapsed'
        PROVE  pid \in DOMAIN streamBuilders'
    <3>1. CASE pid \in Streams(t)
      <4>1. shouldProcessEsPid(esPidFilter, pid)
        BY <1>2, <2>3, <3>1 DEF TakesInPmt
      <4> QED
        BY <1>2, <3>1, <4>1, BuildersAfter
    <3>2. CASE pid \notin Streams(t)
      <4>1. pid \in Listed(DOMAIN pmts \ {t.program})
        BY <1>2, <2>3, <3>2, ListedAfter
      <4>2. pid \notin lapsed
        BY <1>2, <2>3, <3>2 DEF TakesInPmt
      <4>3. pid \in DOMAIN streamBuilders
        BY <4>1, <4>2 DEF OfferedHaveBuilders, Listed
      <4> QED
        BY <1>2, <4>1, <4>3, BuildersAfter
    <3> QED
      BY <3>1, <3>2
  <2> QED
    BY <2>1, <2>2, <2>3 DEF BuildersAreListed, OfferedHaveBuilders
<1>3. ASSUME NEW filter \in Filters, setEsPidFilter(filter)
      PROVE  BuildersAreListed' /\ OfferedHaveBuilders'
  <2>1. /\ DOMAIN streamBuilders' = {pid \in DOMAIN streamBuilders : shouldProcessEsPid(filter, pid)}
        /\ esPidFilter' = filter
        /\ lapsed' = lapsed \cup {pid \in Listed(DOMAIN pmts) : ~shouldProcessEsPid(filter, pid)}
        /\ Listed(DOMAIN pmts)' = Listed(DOMAIN pmts)
    BY <1>3 DEF setEsPidFilter, Restrict, Listed, Streams
  <2> QED
    BY <2>1 DEF BuildersAreListed, OfferedHaveBuilders
<1>4. CASE UNCHANGED <<pmts, streamBuilders, esPidFilter, lapsed>>
  BY <1>4 DEF BuildersAreListed, OfferedHaveBuilders, Listed, Streams
<1> QED
  BY <1>1, <1>2, <1>3, <1>4 DEF RegistryStep

\* Nothing that was removed or filtered out is still collected, and nothing that is offered
\* and never lapsed goes uncollected: for every set of tables and filters (updatePmt:,
\* setEsPidFilter:).
THEOREM BuildersFollowTheTables == Spec => [](BuildersAreListed /\ OfferedHaveBuilders)
<1>1. Init => BuildersAreListed /\ OfferedHaveBuilders
  BY DEF Init, NoMap, BuildersAreListed, OfferedHaveBuilders, Listed
<1>2. BuildersAreListed /\ OfferedHaveBuilders /\ [Next]_vars
        => (BuildersAreListed /\ OfferedHaveBuilders)'
  BY BuildersStep
<1> QED
  BY <1>1, <1>2, PTL DEF Spec

\* A PES packet of an offered stream that did not lapse is given to its builder (demux:).
THEOREM OfferedStreamsReachABuilder == Spec => OfferedStreamsAreDemuxed
<1> DEFINE Demuxed ==
             \A pid \in Listed(DOMAIN pmts) \ lapsed :
                /\ demux /\ packet[1].pid = pid /\ packet[1].route = "Pes"
                /\ shouldProcessEsPid(esPidFilter, pid)
                => demuxed' = <<pid>>
<1>1. ASSUME OfferedHaveBuilders
      PROVE  Demuxed
  BY <1>1 DEF OfferedHaveBuilders, demux
<1>2. OfferedHaveBuilders => [Demuxed]_vars
  BY <1>1
<1> QED
  BY <1>2, BuildersFollowTheTables, PTL DEF OfferedStreamsAreDemuxed

\* A PMT of one program leaves alone the builders of the streams that another one lists, and
\* a filter those of the streams that pass it (updatePmt:, setEsPidFilter:).
THEOREM StreamsOfOthersAreKept == Spec => OtherProgramsKeepTheirStreams
<1> DEFINE Kept ==
             \A pid \in DOMAIN streamBuilders, n \in DOMAIN pmts :
                /\ pid \in Streams(pmts[n]) /\ n \in DOMAIN pmts' /\ pmts'[n] = pmts[n]
                /\ shouldProcessEsPid(esPidFilter', pid)
                => pid \in DOMAIN streamBuilders' /\ streamBuilders'[pid] = streamBuilders[pid]
<1>1. ASSUME Next, NEW pid \in DOMAIN streamBuilders, NEW n \in DOMAIN pmts,
             pid \in Streams(pmts[n]), n \in DOMAIN pmts', pmts'[n] = pmts[n],
             shouldProcessEsPid(esPidFilter', pid)
      PROVE  pid \in DOMAIN streamBuilders' /\ streamBuilders'[pid] = streamBuilders[pid]
  <2>1. RegistryStep
    BY <1>1, StepOfTheRegistry
  <2>2. ASSUME NEW t \in Tables, TakesInPmt(t)
        PROVE  pid \in DOMAIN streamBuilders' /\ streamBuilders'[pid] = streamBuilders[pid]
    <3>1. esPidFilter' = esPidFilter /\ pmts'[t.program] = t
      BY <2>2 DEF TakesInPmt
    <3>2. \/ pid \in Streams(t) /\ shouldProcessEsPid(esPidFilter, pid)
          \/ pid \in Listed(DOMAIN pmts \ {t.program})
      BY <1>1, <3>1, ListedBy
    <3> QED
      BY <1>1, <2>2, <3>2, BuildersAfter
  <2>3. ASSUME NEW filter \in Filters, setEsPidFilter(filter)
        PROVE  pid \in DOMAIN streamBuilders' /\ streamBuilders'[pid] = streamBuilders[pid]
    BY <1>1, <2>3 DEF setEsPidFilter, Restrict
  <2> QED
    BY <1>1, <2>1, <2>2, <2>3 DEF RegistryStep
<1>2. [Next]_vars => [Kept]_vars
  BY <1>1
<1> QED
  BY <1>2, PTL DEF Spec, OtherProgramsKeepTheirStreams

-----------------------------------------------------------------------------
(* What the analyzer is told *)

\* The cached map of the PMTs is one that would be computed now.
CacheIsFresh == pmtsByPid # <<>> => pmtsByPid[1] \in PmtMapsByPid(pat, pmts)

\* What analyzeTsPacket hands over, and what it leaves in the cache.
LEMMA AnalyzedMap ==
  ASSUME CacheIsFresh, demux
  PROVE  CacheIsFresh' /\ AnalyzerSeesTheRegistry'
<1>1. UNCHANGED <<pat, pmts>>
  BY DEF demux
<1>2. CASE analyzed' = <<>> /\ UNCHANGED pmtsByPid
  BY <1>1, <1>2 DEF CacheIsFresh, AnalyzerSeesTheRegistry
<1>3. CASE analyzeTsPacket
  <2>1. PICK byPid \in PmtsByPid :
            /\ pmtsByPid' = IF pmtsByPid = <<>> /\ pat = <<>> THEN <<>> ELSE <<byPid>>
            /\ analyzed' = <<[pat |-> pat, pmts |-> byPid, esPidFilter |-> esPidFilter,
                              completedSections |-> pendingCompletedSections]>>
    BY <1>3 DEF analyzeTsPacket
  <2>2. byPid \in PmtMapsByPid(pat, pmts)
    BY <2>1 DEF PmtsByPid, CacheIsFresh
  <2> QED
    BY <1>1, <2>1, <2>2 DEF CacheIsFresh, AnalyzerSeesTheRegistry
<1> QED
  BY <1>2, <1>3 DEF demux

\* The cache never outlives what it was computed from: setPat: and updatePmt: drop it.
LEMMA CacheStep ==
  ASSUME CacheIsFresh, AnalyzerSeesTheRegistry, [Next]_vars
  PROVE  CacheIsFresh' /\ AnalyzerSeesTheRegistry'
<1>1. ASSUME NEW pid, routeTsPacket(pid)
      PROVE  CacheIsFresh' /\ AnalyzerSeesTheRegistry'
  BY <1>1 DEF routeTsPacket, CacheIsFresh, AnalyzerSeesTheRegistry
<1>2. CASE didBuildTable
  <2>1. PICK t \in Tables : setPat(t) \/ updatePmt(t) \/ setSdt(t) \/ setVct(t) \/ Ignored
    BY <1>2 DEF didBuildTable
  <2>2. AnalyzerSeesTheRegistry'
    BY <1>2 DEF didBuildTable, AnalyzerSeesTheRegistry
  <2>3. CASE setPat(t)
    BY <2>2, <2>3 DEF setPat, isEqualToPat, CacheIsFresh
  <2>4. CASE updatePmt(t)
    BY <2>2, <2>4 DEF updatePmt, CacheIsFresh
  <2>5. CASE setSdt(t) \/ setVct(t) \/ Ignored
    BY <2>2, <2>5 DEF setSdt, setVct, Ignored, CacheIsFresh
  <2> QED
    BY <2>1, <2>2, <2>3, <2>4, <2>5
<1>3. CASE demux
  BY <1>3, AnalyzedMap
<1>4. ASSUME NEW filter \in Filters, setEsPidFilter(filter)
      PROVE  CacheIsFresh' /\ AnalyzerSeesTheRegistry'
  BY <1>4 DEF setEsPidFilter, CacheIsFresh, AnalyzerSeesTheRegistry
<1>5. CASE UNCHANGED vars
  BY <1>5 DEF vars, registryVars, outcomeVars, CacheIsFresh, AnalyzerSeesTheRegistry
<1> QED
  BY <1>1, <1>2, <1>3, <1>4, <1>5 DEF Next

\* The analyzer is told of the PAT and the PMTs that the demuxer holds at that moment
\* (pmtsByPid, setPat:, updatePmt:).
THEOREM AnalyzerIsUpToDate == Spec => []AnalyzerSeesTheRegistry
<1>1. Init => CacheIsFresh /\ AnalyzerSeesTheRegistry
  BY DEF Init, CacheIsFresh, AnalyzerSeesTheRegistry
<1>2. CacheIsFresh /\ AnalyzerSeesTheRegistry /\ [Next]_vars
        => (CacheIsFresh /\ AnalyzerSeesTheRegistry)'
  BY CacheStep
<1> QED
  BY <1>1, <1>2, PTL DEF Spec

-----------------------------------------------------------------------------
(* Completed tables *)

AllPids == CustomPids \cup {PID_PAT, ServicePid(mode), PID_NULL_PACKET}

SectionEvents == [kind : {t.kind : t \in Tables}, pid : AllPids]

\* The tables that wait for the analyzer are all those, and only those, which the packet in
\* demux: has completed so far.
PendingAreOfThePacket ==
    /\ pendingCompletedSections = completed
    /\ completed # <<>> => packet # <<>> /\ packet[1].route = "Table"

\* What the types rest on: the tables that wait are a sequence of what packets complete.
TypeInv ==
    /\ TypeOK
    /\ pendingCompletedSections \in Seq(SectionEvents)
    /\ PendingAreOfThePacket

\* The tables that wait for the analyzer grow by one, during a packet of their PID, or are
\* gone (tableBuilder:didBuildTable:, analyzeTsPacket:).
LEMMA PendingStep ==
  ASSUME TypeInv, [Next]_vars
  PROVE  /\ pendingCompletedSections' \in Seq(SectionEvents)'
         /\ Len(pendingCompletedSections') <= MaxSections
         /\ PendingAreOfThePacket'
         /\ packet' = <<>> => pendingCompletedSections' = <<>>
<1> USE DEF TypeInv
<1>a. completed = <<>> <=> pendingCompletedSections = <<>>
  BY DEF PendingAreOfThePacket
<1>0. SectionEvents' = SectionEvents
  <2>1. mode' = mode
    BY DEF Next, routeTsPacket, didBuildTable, demux, setEsPidFilter, vars
  <2> QED
    BY <2>1 DEF SectionEvents, AllPids, ServicePid
<1>1. /\ pendingCompletedSections \in Seq(SectionEvents)
      /\ Len(pendingCompletedSections) <= MaxSections
      /\ packet = <<>> => pendingCompletedSections = <<>>
  BY DEF TypeOK
<1>2. <<>> \in Seq(SectionEvents) /\ Len(<<>>) <= MaxSections
  BY EmptySeq, MaxSectionsAssumption
<1>3. CASE didBuildTable
  <2>1. PICK t \in Tables :
            /\ pendingCompletedSections' =
                  Append(pendingCompletedSections, [kind |-> t.kind, pid |-> packet[1].pid])
            /\ completed' = Append(completed, [kind |-> t.kind, pid |-> packet[1].pid])
    BY <1>3 DEF didBuildTable
  <2>2. /\ packet # <<>> /\ packet[1].route = "Table" /\ packet' = packet
        /\ Len(pendingCompletedSections) < MaxSections
    BY <1>3 DEF didBuildTable
  <2> DEFINE event == [kind |-> t.kind, pid |-> packet[1].pid]
  <2>3. event \in SectionEvents
    BY <2>2 DEF SectionEvents, AllPids, TypeOK
  <2>4. /\ pendingCompletedSections' \in Seq(SectionEvents)
        /\ Len(pendingCompletedSections') = Len(pendingCompletedSections) + 1
        /\ Len(pendingCompletedSections) \in Nat
    BY <1>1, <2>1, <2>3, AppendProperties, LenProperties
  <2>5. pendingCompletedSections' = completed'
    BY <2>1 DEF PendingAreOfThePacket
  <2> QED
    BY <1>0, <2>2, <2>4, <2>5, MaxSectionsAssumption DEF PendingAreOfThePacket
<1>4. CASE demux
  <2>1. packet # <<>> /\ packet[1].route = "Pes" => pendingCompletedSections = <<>>
    BY <1>a DEF PendingAreOfThePacket
  <2>2. analyzeTsPacket => pendingCompletedSections' = <<>>
    BY DEF analyzeTsPacket
  <2>3. pendingCompletedSections' = <<>>
    BY <1>4, <2>1, <2>2 DEF demux
  <2>4. completed' = <<>>
    BY <1>4 DEF demux
  <2> QED
    BY <1>0, <1>2, <2>3, <2>4 DEF PendingAreOfThePacket
<1>5. ASSUME NEW pid, routeTsPacket(pid)
      PROVE  /\ UNCHANGED pendingCompletedSections /\ pendingCompletedSections = <<>>
             /\ completed' = <<>>
  BY <1>1, <1>5 DEF routeTsPacket
<1>6. CASE /\ UNCHANGED pendingCompletedSections /\ pendingCompletedSections = <<>>
           /\ completed' = <<>>
  BY <1>0, <1>2, <1>6 DEF PendingAreOfThePacket
<1>7. ASSUME NEW filter, setEsPidFilter(filter)
      PROVE  UNCHANGED <<pendingCompletedSections, packet, completed>>
  BY <1>7 DEF setEsPidFilter
<1>8. CASE UNCHANGED <<pendingCompletedSections, packet, completed>>
  BY <1>0, <1>1, <1>8 DEF PendingAreOfThePacket
<1>9. UNCHANGED vars => UNCHANGED <<pendingCompletedSections, packet, completed>>
  BY DEF vars
<1> QED
  BY <1>3, <1>4, <1>5, <1>6, <1>7, <1>8, <1>9 DEF Next

\* The rest of the types, action by action.
LEMMA TypeStep ==
  ASSUME TypeInv, [Next]_vars
  PROVE  TypeOK'
<1>1. /\ Len(pendingCompletedSections') <= MaxSections
      /\ packet' = <<>> => pendingCompletedSections' = <<>>
  BY PendingStep
<1>2. AllPids' = AllPids
  BY DEF Next, routeTsPacket, didBuildTable, demux, setEsPidFilter, vars, AllPids, ServicePid
<1> DEFINE PatOK      == pat = <<>> \/ \E t \in Tables : t.kind = "PAT" /\ pat = t.programmes
           PmtsOK     == \A n \in DOMAIN pmts : pmts[n] \in Tables /\ pmts[n].program = n
           BuildersOK == tableBuilders \subseteq AllPids
           PacketOK   == packet # <<>> => packet[1].pid \in AllPids
           FilterOK   == esPidFilter \in Filters \cup {{}}
           Rest       == PatOK /\ PmtsOK /\ BuildersOK /\ PacketOK /\ FilterOK
                            /\ callback \in BOOLEAN
<1>3. Rest
  BY DEF TypeInv, TypeOK, AllPids
<1>4. SUFFICES Rest'
  BY <1>1, <1>4 DEF TypeOK, AllPids
<1>5. ASSUME NEW pid \in AllPids, routeTsPacket(pid)
      PROVE  Rest'
  <2>1. PICK route \in RoutesOf(mode, pat, pid) :
            /\ tableBuilders' = IF route = "Table" THEN tableBuilders \cup {pid} ELSE tableBuilders
            /\ packet' = <<[pid |-> pid, route |-> route]>>
    BY <1>5 DEF routeTsPacket
  <2>2. BuildersOK' /\ PacketOK'
    BY <1>2, <1>3, <2>1
  <2>3. UNCHANGED <<pat, pmts, esPidFilter>> /\ callback' = FALSE
    BY <1>5 DEF routeTsPacket
  <2> QED
    BY <1>3, <2>2, <2>3
<1>6. CASE didBuildTable
  <2>1. PICK t \in Tables :
            \/ t.kind = "PAT" /\ setPat(t)
            \/ updatePmt(t)
            \/ setSdt(t)
            \/ setVct(t)
            \/ Ignored
    BY <1>6 DEF didBuildTable
  <2>2. BuildersOK' /\ PacketOK' /\ FilterOK'
    BY <1>2, <1>3, <1>6 DEF didBuildTable
  <2>3. PatOK'
    BY <1>3, <2>1 DEF setPat, updatePmt, setSdt, setVct, Ignored
  <2>4. CASE updatePmt(t)
    <3>1. PmtsOK'
      BY <1>3, <2>4 DEF updatePmt
    <3>2. callback' \in BOOLEAN
      BY <2>4 DEF updatePmt
    <3> QED
      BY <2>2, <2>3, <3>1, <3>2
  <2>5. CASE setPat(t) \/ setSdt(t) \/ setVct(t) \/ Ignored
    <3>1. UNCHANGED pmts
      BY <2>5 DEF setPat, setSdt, setVct, Ignored
    <3>2. callback' \in BOOLEAN
      BY <2>5 DEF setPat, isEqualToPat, setSdt, setVct, Ignored
    <3> QED
      BY <1>3, <2>2, <2>3, <3>1, <3>2
  <2> QED
    BY <2>1, <2>4, <2>5
<1>7. CASE demux
  BY <1>2, <1>3, <1>7 DEF demux
<1>8. ASSUME NEW filter \in Filters, setEsPidFilter(filter)
      PROVE  Rest'
  BY <1>2, <1>3, <1>8 DEF setEsPidFilter
<1>9. CASE UNCHANGED vars
  <2>1. UNCHANGED <<pat, pmts, tableBuilders, esPidFilter, packet, callback>>
    BY <1>9 DEF vars, registryVars, outcomeVars
  <2> QED
    BY <1>2, <1>3, <2>1
<1> QED
  BY <1>5, <1>6, <1>7, <1>8, <1>9 DEF Next, AllPids

\* The types of the registry and of the packet that is in demux:, for every set of tables.
THEOREM RegistryTypes == Spec => [](TypeOK /\ PendingAreOfThePacket)
<1>1. ASSUME Init
      PROVE  TypeInv
  <2>1. /\ pendingCompletedSections = <<>> /\ completed = <<>> /\ packet = <<>>
        /\ pat = <<>> /\ pmts = NoMap
    BY <1>1 DEF Init
  <2>2. tableBuilders = {} /\ esPidFilter = {} /\ callback = FALSE
    BY <1>1 DEF Init
  <2>3. <<>> \in Seq(SectionEvents) /\ Len(<<>>) <= MaxSections
    BY EmptySeq, MaxSectionsAssumption
  <2>4. \A n \in DOMAIN pmts : pmts[n] \in Tables /\ pmts[n].program = n
    BY <2>1 DEF NoMap
  <2>5. TypeOK
    BY <2>1, <2>2, <2>3, <2>4 DEF TypeOK
  <2> QED
    BY <2>1, <2>3, <2>5 DEF TypeInv, PendingAreOfThePacket
<1>2. TypeInv /\ [Next]_vars => TypeInv'
  BY TypeStep, PendingStep DEF TypeInv
<1>3. TypeInv => TypeOK /\ PendingAreOfThePacket
  BY DEF TypeInv
<1> QED
  BY <1>1, <1>2, <1>3, PTL DEF Spec

\* Every packet of a table PID is analyzed, and every packet that is analyzed comes with all
\* the tables that it completed and no others (analyzeTsPacket:, pendingCompletedSections).
THEOREM CompletedTablesGoWithTheirPacket == Spec => TablesAreAnalyzedOnce
<1> DEFINE Once ==
             /\ demux /\ packet[1].route # "Pes" => analyzed' # <<>>
             /\ analyzed' # <<>> => analyzed'[1].completedSections = completed
<1>1. demux /\ packet[1].route # "Pes" => analyzed' # <<>>
  BY DEF demux, analyzeTsPacket
<1>2. ASSUME PendingAreOfThePacket, demux, analyzed' # <<>>
      PROVE  analyzed'[1].completedSections = completed
  <2>1. analyzed'[1].completedSections = pendingCompletedSections
    BY <1>2 DEF demux, analyzeTsPacket
  <2> QED
    BY <1>2, <2>1 DEF PendingAreOfThePacket
<1>3. ASSUME PendingAreOfThePacket, Next
      PROVE  Once
  <2>1. CASE demux
    BY <1>1, <1>2, <1>3, <2>1
  <2>2. CASE ~demux
    <3>1. analyzed' = <<>>
      BY <1>3, <2>2 DEF Next, routeTsPacket, didBuildTable, setEsPidFilter
    <3> QED
      BY <2>2, <3>1
  <2> QED
    BY <2>1, <2>2
<1>4. PendingAreOfThePacket /\ [Next]_vars => [Once]_vars
  BY <1>3
<1>5. Spec => []PendingAreOfThePacket
  BY RegistryTypes, PTL
<1> QED
  BY <1>4, <1>5, PTL DEF Spec, TablesAreAnalyzedOnce

=============================================================================
