--------------------------- MODULE AnalyzerProofs ---------------------------
(***************************************************************************)
(* What the TR 101 290 analyzer counts is real, and what is real it        *)
(* counts, for all intervals, filters, losses and lengths of a stream.     *)
(***************************************************************************)
EXTENDS AnalyzedStream, FiniteSetTheorems, TLAPS

-----------------------------------------------------------------------------
(* Packets and their routes *)

Pats == {ThePat, <<NoTimes>>}
Pmts == {[n \in {1} |-> {}], [n \in {1} |-> {Video}]}

\* The PIDs of the stream are three, and none of them is the null PID.
LEMMA PidsDiffer ==
  ASSUME StreamAssumption
  PROVE  /\ Program # PID_PAT /\ Video # PID_PAT /\ Program # Video
         /\ PID_NULL_PACKET \notin Pids
         /\ Program \notin reservedPids /\ Video \notin reservedPids
BY DEF StreamAssumption, Pids, isCustomPidInvalid, isReservedPid, reservedPids, PID_PAT,
       PID_NULL_PACKET, PID_DVB_NIT_ST, PID_DVB_SIT, PID_ATSC_PSIP

\* The PAT is a table, the stream is a stream, and the PMT is a table while the PAT lists it.
LEMMA Routes ==
  ASSUME StreamAssumption, NEW t \in Pats
  PROVE  /\ "Pes" \notin RoutesOf(mode, t, PID_PAT)
         /\ RoutesOf(mode, t, Video) = {"Pes"}
         /\ "Table" \in RoutesOf(mode, t, Program) => t = ThePat
         /\ "Pes" \in RoutesOf(mode, t, Program) => "Table" \notin RoutesOf(mode, t, Program)
<1>1. ASSUME NEW pid \in {Program, Video}
      PROVE  pid \notin {PID_PAT, ServicePid(mode)} /\ pid \notin IgnoredPids(mode)
             /\ ~isReservedPid(pid)
  BY PidsDiffer
  DEF ServicePid, IgnoredPids, isReservedPid, reservedPids, PID_PAT, PID_CAT, PID_TSDT, PID_IPMP,
      PID_ASI, PID_NULL_PACKET, PID_DVB_NIT_ST, PID_DVB_SDT_BAT_ST, PID_DVB_SIT, PID_ATSC_PSIP
<1>2. ASSUME NEW pid \in {Program, Video}
      PROVE  RoutesOf(mode, t, pid) =
               IF programNumbersFromPid(t, pid) # {}
               THEN {IF n = PROGRAM_NUMBER_NETWORK_INFO THEN "Ignore" ELSE "Table" :
                        n \in programNumbersFromPid(t, pid)}
               ELSE {"Pes"}
  BY <1>1 DEF RoutesOf
<1>3. programNumbersFromPid(t, Video) = {}
      /\ (t = <<NoTimes>> => programNumbersFromPid(t, Program) = {})
  BY PidsDiffer DEF programNumbersFromPid, Pats, ThePat, NoTimes
<1>4. "Pes" \notin RoutesOf(mode, t, PID_PAT)
  BY DEF RoutesOf
<1> QED
  BY <1>2, <1>3, <1>4 DEF Pats

\* What may be read from a packet on pid.
LEMMA ReadingFields ==
  ASSUME StreamAssumption, pat \in Pats, pmts \in Pmts,
         NEW pid \in Pids, NEW r \in Readings(pid)
  PROVE  /\ r.pat \in Pats /\ r.pmts \in Pmts
         /\ \A i \in DOMAIN r.sections :
               /\ r.sections[i] = [kind |-> r.sections[i].kind, pid |-> pid]
               /\ r.sections[i].pid = pid
               /\ pid # PID_PAT => /\ r.sections[i].kind = "PMT" /\ pid = Program
                                   /\ r.pat = ThePat
                                   /\ "Table" \in RoutesOf(mode, pat, Program)
<1> DEFINE reading(sections, newPat, newPmts, change, fault) ==
             [sections |-> sections, pat |-> newPat, pmts |-> newPmts,
              change |-> change, fault |-> fault]
           on(kind) == <<[kind |-> kind, pid |-> pid]>>
<1>1. CASE r = reading(<<>>, pat, pmts, 0, 0)
  BY <1>1
<1>2. CASE /\ pid = PID_PAT
           /\ \/ \E t \in {ThePat, <<NoTimes>>} : r = reading(on("PAT"), t, pmts, Count(t # ThePat), 0)
              \/ r = reading(on("SDT"), pat, pmts, 0, 1)
  BY <1>2 DEF Pats
<1>3. CASE /\ pid # PID_PAT /\ "Table" \in RoutesOf(mode, pat, pid)
           /\ \E streams \in {{}, {Video}} :
                r = reading(on("PMT"), pat, [n \in {1} |-> streams], Count(streams = {}), 0)
  <2>1. pid = Program /\ pat = ThePat
    BY <1>3, Routes DEF Pids
  <2> QED
    BY <1>3, <2>1 DEF Pmts
<1> QED
  BY <1>1, <1>2, <1>3 DEF Readings

\* The packets the channel brings: with the next counter, with a flag, without payload and the
\* last counter, or a copy of the last.
LEMMA PacketFields ==
  ASSUME NEW pid \in Pids, cc[pid] \in CC, NEW p \in PacketsOn(pid)
  PROVE  /\ p.pid = pid /\ p.cc \in CC
         /\ p.disc \in BOOLEAN /\ p.payload \in BOOLEAN /\ p.sync \in BOOLEAN
         /\ \/ p.payload /\ ~p.disc /\ p.cc = NextCC(cc[pid])
            \/ p.disc
            \/ ~p.payload /\ ~p.disc /\ p.cc = cc[pid]
            \/ p.payload /\ ~p.disc /\ p.cc = cc[pid] /\ copies[pid] > 0 /\ lost[pid] = 0
<1> DEFINE packet(next, payload, disc, sync) ==
             [pid |-> pid, cc |-> next, sync |-> sync, scrambled |-> FALSE, payload |-> payload,
              disc |-> disc]
<1>1. NextCC(cc[pid]) \in CC /\ (cc[pid] + 5) % 16 \in CC
  BY DEF NextCC, CC
<1>2. \/ p = packet(NextCC(cc[pid]), TRUE, FALSE, TRUE)
      \/ p = packet(NextCC(cc[pid]), TRUE, FALSE, FALSE)
      \/ p = packet((cc[pid] + 5) % 16, TRUE, TRUE, TRUE)
      \/ p = packet(cc[pid], FALSE, FALSE, TRUE)
      \/ p = packet(cc[pid], TRUE, FALSE, TRUE) /\ copies[pid] > 0 /\ lost[pid] = 0
  BY DEF PacketsOn
<1>3. ASSUME NEW next \in CC, NEW payload \in BOOLEAN, NEW disc \in BOOLEAN,
             NEW sync \in BOOLEAN, p = packet(next, payload, disc, sync)
      PROVE  /\ p.pid = pid /\ p.cc \in CC /\ p.cc = next
             /\ p.disc \in BOOLEAN /\ p.payload \in BOOLEAN /\ p.sync \in BOOLEAN
             /\ p.disc = disc /\ p.payload = payload
  BY <1>3
<1> HIDE DEF packet
<1>5. CASE p = packet(NextCC(cc[pid]), TRUE, FALSE, TRUE)
             \/ p = packet(NextCC(cc[pid]), TRUE, FALSE, FALSE)
  BY <1>1, <1>3, <1>5
<1>6. CASE p = packet((cc[pid] + 5) % 16, TRUE, TRUE, TRUE)
  BY <1>1, <1>3, <1>6
<1>7. CASE p = packet(cc[pid], FALSE, FALSE, TRUE)
  BY <1>1, <1>3, <1>7
<1>8. CASE p = packet(cc[pid], TRUE, FALSE, TRUE) /\ copies[pid] > 0 /\ lost[pid] = 0
  BY <1>1, <1>3, <1>8
<1> QED
  BY <1>2, <1>5, <1>6, <1>7, <1>8

-----------------------------------------------------------------------------
(* The steps of a stream *)

StreamInv ==
    /\ DOMAIN budget = {"delays", "packets", "faults", "changes"} /\ budget.delays \subseteq Nat
    /\ now \in Nat
    /\ pat \in Pats /\ pmts \in Pmts
    /\ cc \in [Pids -> CC]

analyzerTimes == <<sectionLastSeenMs, intervalErrorLastReportedMs, pidLastSeenMs, lastIntervalCheckMs>>

\* A packet p arrives and its tables read r.
Arrives(p, r) ==
    /\ now' \in Nat /\ now' >= now
    /\ pat' = r.pat /\ pmts' = r.pmts
    /\ cc' = [cc EXCEPT ![p.pid] = p.cc]
    /\ esPidFilter' = esPidFilter

\* It passes the checks in the context c.
CheckedArrival(p, r, c) ==
    /\ Arrives(p, r)
    /\ "Pes" \in RoutesOf(mode, pat, p.pid) => shouldProcessEsPid(esPidFilter, p.pid)
    /\ isSyncAcquired(p)
    /\ c.pat = r.pat /\ c.pmts \in PmtMapsByPid(r.pat, r.pmts)
    /\ c.nowMs = now' /\ c.sections = r.sections /\ c.esPidFilter = esPidFilter
    /\ Prio1Analysis(p, c)
    /\ checked' = <<[pid |-> p.pid, counted |-> p.payload /\ ~p.disc]>>
    /\ History(p, r.sections, now', TRUE)

\* It does not, for want of synchronization or because the filter excludes it.
UncheckedArrival(p, r) ==
    /\ Arrives(p, r)
    /\ \/ ~isSyncAcquired(p)
       \/ "Pes" \in RoutesOf(mode, pat, p.pid) /\ ~shouldProcessEsPid(esPidFilter, p.pid)
    /\ UNCHANGED <<analyzerTimes, pidCcValidators>>
    /\ errors'["ccError"] = 0 /\ errors'["pidError"] = 0
    /\ checked' = <<>>
    /\ History(p, r.sections, now', FALSE)

CheckedStep ==
    \E pid \in Pids : \E p \in PacketsOn(pid), r \in Readings(pid) : \E c : CheckedArrival(p, r, c)

UncheckedStep ==
    \E pid \in Pids : \E p \in PacketsOn(pid), r \in Readings(pid) : UncheckedArrival(p, r)

\* Nothing that the analyzer looks at: a null packet, or nothing at all.
IdleStep ==
    /\ UNCHANGED <<analyzerTimes, pidCcValidators, now, demuxerVars, cc, historyVars>>
    /\ errors'["ccError"] > 0 => UNCHANGED vars
    /\ errors'["pidError"] > 0 => UNCHANGED vars
    /\ checked' = <<>> \/ UNCHANGED vars

LossStep ==
    \E pid \in Pids, burst \in Bursts :
        /\ lost[pid] = 0
        /\ cc' = [cc EXCEPT ![pid] = (@ + burst) % 16]
        /\ lost' = [lost EXCEPT ![pid] = burst]
        /\ errors' = NoErrors /\ checked' = <<>>
        /\ UNCHANGED <<analyzerTimes, pidCcValidators, now, demuxerVars, copies, unfollowed,
                       outOfSync, resumed, heard, watched>>

FilterStep ==
    \E filter \in Filters : SetEsPidFilter(filter)

LEMMA NoErrorsAreCounted ==
  \A e \in Errors : NoErrors[e] = 0 /\ NoErrors["ccError"] = 0 /\ NoErrors["pidError"] = 0
BY DEF NoErrors, Errors

\* A packet that arrives is checked, or not.
LEMMA Arrivals ==
  ASSUME StreamAssumption, StreamInv, NEW pid \in Pids, NEW p \in PacketsOn(pid),
         NEW r \in Readings(pid), NEW delay \in budget.delays, Arrive(p, r, delay)
  PROVE  CheckedStep \/ UncheckedStep
<1> DEFINE byPidContext(byPid) ==
             [pat |-> r.pat, pmts |-> byPid, nowMs |-> now + delay,
              sections |-> r.sections, esPidFilter |-> esPidFilter]
           isPes == "Pes" \in RoutesOf(mode, pat, p.pid)
           received == ~isPes \/ shouldProcessEsPid(esPidFilter, p.pid)
           isChecked == received /\ isSyncAcquired(p)
<1>1. /\ now' = now + delay /\ delay \in Nat /\ now \in Nat
      /\ pat' = r.pat /\ pmts' = r.pmts
      /\ cc' = [cc EXCEPT ![p.pid] = p.cc]
      /\ esPidFilter' = esPidFilter
  BY DEF Arrive, StreamInv
<1>2. Arrives(p, r)
  BY <1>1 DEF Arrives
<1>3. p.pid = pid /\ p.pid # PID_NULL_PACKET
  BY PacketFields, PidsDiffer DEF StreamInv
<1>4. /\ checked' = IF isChecked
                    THEN <<[pid |-> p.pid, counted |-> p.payload /\ ~p.disc]>> ELSE <<>>
      /\ History(p, r.sections, now + delay, isChecked)
  BY DEF Arrive
<1>5. CASE isChecked
  <2>1. PICK byPid \in PmtMapsByPid(r.pat, r.pmts) : analyzeTsPacket(p, byPidContext(byPid))
    BY <1>5 DEF Arrive
  <2>2. PICK c : c = byPidContext(byPid)
    OBVIOUS
  <2>3. Prio1Analysis(p, c)
    BY <1>3, <1>5, <2>1, <2>2 DEF analyzeTsPacket
  <2>4. /\ c.pat = r.pat /\ c.pmts \in PmtMapsByPid(r.pat, r.pmts)
        /\ c.nowMs = now' /\ c.sections = r.sections /\ c.esPidFilter = esPidFilter
    BY <1>1, <2>2
  <2>5. History(p, r.sections, now', TRUE)
    <3>1. History(p, r.sections, now', isChecked)
      BY <1>1, <1>4
    <3> HIDE DEF isChecked
    <3>2. isChecked = TRUE
      BY <1>5, Zenon DEF isChecked
    <3> QED
      BY ONLY <3>1, <1>5 DEF History
  <2>6. CheckedArrival(p, r, c)
    BY <1>2, <1>4, <1>5, <2>3, <2>4, <2>5 DEF CheckedArrival
  <2> QED
    BY <2>6 DEF CheckedStep
<1>6. CASE ~isChecked
  <2>1. UNCHANGED <<analyzerTimes, pidCcValidators>>
        /\ errors'["ccError"] = 0 /\ errors'["pidError"] = 0
    <3>1. CASE received
      <4>1. PICK byPid \in PmtMapsByPid(r.pat, r.pmts) : analyzeTsPacket(p, byPidContext(byPid))
        BY <3>1 DEF Arrive
      <4>2. errors' = [NoErrors EXCEPT !["tsSyncLoss"] =
                              Count(CorruptedSyncBytes(p) >= CorruptedToLose)]
            /\ UNCHANGED <<analyzerTimes, pidCcValidators>>
        BY <1>6, <3>1, <4>1 DEF analyzeTsPacket, analyzerTimes
      <4> QED
        BY <4>2, NoErrorsAreCounted DEF NoErrors, Errors
    <3>2. CASE ~received
      <4>1. errors' = NoErrors /\ UNCHANGED <<analyzerTimes, pidCcValidators>>
        BY <3>2 DEF Arrive, analyzerTimes
      <4> QED
        BY <4>1 DEF NoErrors, Errors
    <3> QED
      BY <3>1, <3>2
  <2>2. checked' = <<>>
    BY <1>4, <1>6
  <2>3. History(p, r.sections, now', FALSE)
    <3>1. History(p, r.sections, now', isChecked)
      BY <1>1, <1>4
    <3> HIDE DEF isChecked
    <3> QED
      BY ONLY <3>1, <1>6 DEF History
  <2>4. \/ ~isSyncAcquired(p)
        \/ "Pes" \in RoutesOf(mode, pat, p.pid) /\ ~shouldProcessEsPid(esPidFilter, p.pid)
    BY <1>6
  <2>5. UncheckedArrival(p, r)
    BY <1>2, <2>1, <2>2, <2>3, <2>4 DEF UncheckedArrival
  <2> QED
    BY <2>5 DEF UncheckedStep
<1> QED
  BY <1>5, <1>6

\* A null packet is never checked.
LEMMA NullPackets ==
  ASSUME NullPacket
  PROVE  IdleStep
<1> DEFINE p == [pid |-> PID_NULL_PACKET, cc |-> 0, sync |-> TRUE, scrambled |-> FALSE,
                 payload |-> TRUE, disc |-> FALSE]
<1>1. PICK c : analyzeTsPacket(p, c)
  BY DEF NullPacket
<1>2. errors' = [NoErrors EXCEPT !["tsSyncLoss"] = Count(CorruptedSyncBytes(p) >= CorruptedToLose)]
      /\ UNCHANGED <<analyzerTimes, pidCcValidators>>
  BY <1>1 DEF analyzeTsPacket, analyzerTimes
<1>3. errors'["ccError"] = 0 /\ errors'["pidError"] = 0
  BY <1>2 DEF NoErrors, Errors
<1>4. checked' = <<>> /\ UNCHANGED <<now, demuxerVars, cc, historyVars>>
  BY DEF NullPacket
<1> QED
  BY <1>2, <1>3, <1>4 DEF IdleStep

\* These are all the steps.
LEMMA Steps ==
  ASSUME StreamAssumption, StreamInv, [Next]_vars
  PROVE  CheckedStep \/ UncheckedStep \/ IdleStep \/ LossStep \/ FilterStep
<1>1. ASSUME NEW pid \in Pids, NEW p \in PacketsOn(pid), NEW r \in Readings(pid),
             NEW delay \in budget.delays, Arrive(p, r, delay)
      PROVE  CheckedStep \/ UncheckedStep
  BY <1>1, Arrivals
<1>2. CASE NullPacket
  BY <1>2, NullPackets
<1>3. ASSUME NEW pid \in Pids, NEW burst \in Bursts, Lose(pid, burst)
      PROVE  LossStep
  BY <1>3 DEF Lose, LossStep, analyzerTimes
<1>4. ASSUME NEW filter \in Filters, SetEsPidFilter(filter)
      PROVE  FilterStep
  BY <1>4 DEF FilterStep
<1>5. CASE UNCHANGED vars
  BY <1>5 DEF IdleStep, vars, analyzerVars, analyzerTimes
<1> QED
  BY <1>1, <1>2, <1>3, <1>4, <1>5 DEF Next

\* The state of the demuxer and the channel.
LEMMA StreamSteps ==
  ASSUME StreamAssumption, StreamInv, [Next]_vars
  PROVE  StreamInv'
<1>1. ASSUME NEW pid \in Pids, NEW p \in PacketsOn(pid), NEW r \in Readings(pid),
             NEW delay \in budget.delays, Arrive(p, r, delay)
      PROVE  StreamInv'
  <2>1. DOMAIN budget' = DOMAIN budget /\ budget'.delays = budget.delays
    BY <1>1 DEF Arrive, StreamInv
  <2>2. now' \in Nat
    BY <1>1 DEF Arrive, StreamInv
  <2>3. pat' \in Pats /\ pmts' \in Pmts
    BY <1>1, ReadingFields DEF Arrive, StreamInv
  <2>4. cc' \in [Pids -> CC]
    BY <1>1, PacketFields DEF Arrive, StreamInv
  <2> QED
    BY <2>1, <2>2, <2>3, <2>4 DEF StreamInv
<1>2. CASE NullPacket
  BY <1>2 DEF NullPacket, demuxerVars, StreamInv
<1>3. ASSUME NEW pid \in Pids, NEW burst \in Bursts, Lose(pid, burst)
      PROVE  StreamInv'
  <2>1. (cc[pid] + burst) % 16 \in CC
    BY DEF CC, StreamAssumption, StreamInv
  <2>2. cc' \in [Pids -> CC]
    BY <1>3, <2>1 DEF Lose, StreamInv
  <2> QED
    BY <1>3, <2>2 DEF Lose, StreamInv, demuxerVars
<1>4. ASSUME NEW filter \in Filters, SetEsPidFilter(filter)
      PROVE  StreamInv'
  BY <1>4 DEF SetEsPidFilter, StreamInv
<1>5. CASE UNCHANGED vars
  BY <1>5 DEF StreamInv, vars, demuxerVars
<1> QED
  BY <1>1, <1>2, <1>3, <1>4, <1>5 DEF Next

-----------------------------------------------------------------------------
(* Times *)

\* What Stamp makes of times.
LEMMA Stamped ==
  ASSUME NEW times, NEW pids, NEW t
  PROVE  /\ DOMAIN Stamp(times, pids, t) = DOMAIN times \cup pids
         /\ \A q \in DOMAIN times \cup pids :
               Stamp(times, pids, t)[q] = IF q \in pids THEN t ELSE times[q]
BY DEF Stamp

\* The PIDs in whose sections the analyzer is interested, and those that arrived: the history
\* of the tables notes the same ones.
LEMMA SectionsOfArrival ==
  ASSUME StreamAssumption, StreamInv, NEW pid \in Pids, NEW p \in PacketsOn(pid),
         NEW r \in Readings(pid), NEW c, CheckedArrival(p, r, c), heard \in [Pids -> Nat]
  PROVE  /\ PID_PAT \in SectionPids(c) /\ SectionPids(c) \subseteq {PID_PAT, Program}
         /\ SectionSeenOn(c) \subseteq {PID_PAT, Program}
         /\ \A q \in {PID_PAT, Program} :
               heard'[q] = IF q \in SectionSeenOn(c) THEN now' ELSE heard[q]
         /\ heard'[Video] = IF p.pid = Video THEN now' ELSE heard[Video]
         /\ heard' \in [Pids -> Nat]
<1>1. p.pid = pid /\ now' \in Nat /\ pat \in Pats /\ pmts \in Pmts
  BY PacketFields DEF StreamInv, CheckedArrival, Arrives
<1>2. c.sections = r.sections /\ c.pat = r.pat
  BY DEF CheckedArrival
<1>3. /\ r.pat \in Pats
      /\ \A i \in DOMAIN r.sections :
             /\ r.sections[i] = [kind |-> r.sections[i].kind, pid |-> pid]
             /\ r.sections[i].pid = pid
             /\ pid # PID_PAT => /\ r.sections[i].kind = "PMT" /\ pid = Program
                                 /\ r.pat = ThePat
  BY <1>1, ReadingFields
<1>4. PmtPids(c) \subseteq {Program} /\ (r.pat = ThePat => PmtPids(c) = {Program})
  <2>1. CASE r.pat = ThePat
    <3>1. c.pat = <<[n \in {1} |-> Program]>>
      BY <1>2, <2>1 DEF ThePat
    <3>2. /\ c.pat # <<>> /\ DOMAIN c.pat[1] \ {PROGRAM_NUMBER_NETWORK_INFO} = {1}
          /\ c.pat[1][1] = Program
      BY ONLY <3>1 DEF PROGRAM_NUMBER_NETWORK_INFO
    <3>3. PmtPids(c) = {c.pat[1][n] : n \in {1}}
      BY ONLY <3>2 DEF PmtPids
    <3> QED
      BY <3>2, <3>3
  <2>2. CASE r.pat = <<NoTimes>>
    <3>1. c.pat # <<>> /\ DOMAIN c.pat[1] = {}
      BY <1>2, <2>2 DEF NoTimes
    <3>2. PmtPids(c) = {}
      BY ONLY <3>1 DEF PmtPids
    <3>3. r.pat # ThePat
      <4>1. 1 \in DOMAIN ThePat[1]
        BY DEF ThePat
      <4> QED
        BY <1>2, <3>1, <4>1
    <3> QED
      BY <3>2, <3>3
  <2> QED
    BY <1>3, <2>1, <2>2 DEF Pats
<1>5. ASSUME NEW q \in {PID_PAT, Program}
      PROVE  q \in SectionSeenOn(c)
                <=> q = pid /\ \E i \in DOMAIN r.sections : r.sections[i].kind = TableOf(q)
  <2>1. ASSUME q \in SectionSeenOn(c)
        PROVE  q = pid /\ \E i \in DOMAIN r.sections : r.sections[i].kind = TableOf(q)
    <3>1. PICK i \in DOMAIN r.sections : r.sections[i] = [kind |-> TableOf(q), pid |-> q]
      BY <1>2, <2>1 DEF SectionSeenOn
    <3>2. r.sections[i].kind = TableOf(q) /\ r.sections[i].pid = q
      BY <3>1
    <3> QED
      BY <1>3, <3>2
  <2>2. ASSUME q = pid, NEW i \in DOMAIN r.sections, r.sections[i].kind = TableOf(q)
        PROVE  q \in SectionSeenOn(c)
    <3>1. r.sections[i] = [kind |-> TableOf(q), pid |-> q]
      BY <1>3, <2>2
    <3>2. q \in SectionPids(c)
      BY <1>3, <1>4, <2>2 DEF SectionPids
    <3> QED
      BY <1>2, <3>1, <3>2 DEF SectionSeenOn
  <2> QED
    BY <2>1, <2>2
<1>6. SectionPids(c) \subseteq {PID_PAT, Program} /\ PID_PAT \in SectionPids(c)
  BY <1>4 DEF SectionPids
<1>7. SectionSeenOn(c) \subseteq {PID_PAT, Program}
  BY <1>6 DEF SectionSeenOn
<1>8. DEFINE isHeard == p.pid = Video \/
                          \E i \in DOMAIN r.sections : r.sections[i].kind = TableOf(p.pid)
<1>9. heard' = IF isHeard THEN [heard EXCEPT ![p.pid] = now'] ELSE heard
  BY DEF CheckedArrival, History
<1>10. heard' \in [Pids -> Nat]
  BY <1>1, <1>9
<1>11. heard'[Video] = IF p.pid = Video THEN now' ELSE heard[Video]
  BY <1>1, <1>9 DEF Pids
<1>12. ASSUME NEW q \in {PID_PAT, Program}
       PROVE  heard'[q] = IF q \in SectionSeenOn(c) THEN now' ELSE heard[q]
  <2>1. q # Video /\ q \in Pids
    BY PidsDiffer DEF Pids
  <2>2. q = pid => (isHeard <=> \E i \in DOMAIN r.sections : r.sections[i].kind = TableOf(q))
    BY <1>1, <2>1
  <2>3. q = pid => (isHeard <=> q \in SectionSeenOn(c))
    BY <1>5, <2>2
  <2> HIDE DEF isHeard
  <2> QED
    BY <1>1, <1>5, <1>9, <2>1, <2>3
<1> QED
  BY <1>6, <1>7, <1>10, <1>11, <1>12

\* A packet that is not checked completes no table and is noted only on the stream's PID.
LEMMA UncheckedHistory ==
  ASSUME StreamAssumption, StreamInv, NEW pid \in Pids, NEW p \in PacketsOn(pid),
         NEW r \in Readings(pid), UncheckedArrival(p, r), heard \in [Pids -> Nat]
  PROVE  /\ heard' \in [Pids -> Nat]
         /\ \A q \in {PID_PAT, Program} : heard'[q] = heard[q]
         /\ heard'[Video] \in {heard[Video], now'}
         /\ heard'[Video] # heard[Video] => ~shouldProcessEsPid(esPidFilter, Video)
         /\ watched' = watched
<1>1. p.pid = pid /\ now' \in Nat /\ pat \in Pats /\ pmts \in Pmts
  BY PacketFields DEF StreamInv, UncheckedArrival, Arrives
<1>2. DEFINE isHeard == isSyncAcquired(p) /\ (p.pid = Video \/
                          \E i \in DOMAIN r.sections : r.sections[i].kind = TableOf(p.pid))
<1>3. /\ heard' = IF isHeard THEN [heard EXCEPT ![p.pid] = now'] ELSE heard
      /\ watched' = watched
  BY DEF UncheckedArrival, History
<1>4. heard' \in [Pids -> Nat]
  BY <1>1, <1>3
<1>5. isHeard => "Pes" \in RoutesOf(mode, pat, pid) /\ ~shouldProcessEsPid(esPidFilter, pid)
  BY <1>1 DEF UncheckedArrival
<1>6. isHeard => pid = Video
  <2>1. pid # PID_PAT \/ ~isHeard
    BY <1>1, <1>5, Routes
  <2>2. pid = Program => ~isHeard
    <3>1. ASSUME pid = Program, isHeard
          PROVE  FALSE
      <4>1. PICK i \in DOMAIN r.sections : r.sections[i].kind = TableOf(p.pid)
        BY <1>1, <3>1, PidsDiffer
      <4>2. "Table" \in RoutesOf(mode, pat, Program)
        BY <1>1, <3>1, <4>1, PidsDiffer, ReadingFields
      <4> QED
        BY <1>1, <1>5, <3>1, <4>2, Routes
    <3> QED
      BY <3>1
  <2> QED
    BY <2>1, <2>2 DEF Pids
<1> HIDE DEF isHeard
<1>7. \A q \in {PID_PAT, Program} : heard'[q] = heard[q]
  BY <1>1, <1>3, <1>6, PidsDiffer
<1>8. heard'[Video] \in {heard[Video], now'}
  BY <1>1, <1>3 DEF Pids
<1>9. heard'[Video] # heard[Video] => ~shouldProcessEsPid(esPidFilter, Video)
  BY <1>1, <1>3, <1>5, <1>6
<1> QED
  BY <1>3, <1>4, <1>7, <1>8, <1>9

\* The analyzer's times are of the past, none is missing that a packet or a table should have
\* left, and errors were reported at checks.
TimeInv ==
    /\ lastIntervalCheckMs \in Nat /\ lastIntervalCheckMs <= now
    /\ heard \in [Pids -> Nat] /\ \A q \in Pids : heard[q] <= now
    /\ \A q \in DOMAIN sectionLastSeenMs :
          sectionLastSeenMs[q] \in Nat /\ sectionLastSeenMs[q] <= now
    /\ \A q \in DOMAIN sectionLastSeenMs \cap {PID_PAT, Program} : heard[q] <= sectionLastSeenMs[q]
    /\ intervalErrorLastReportedMs =
          [q \in DOMAIN intervalErrorLastReportedMs |-> intervalErrorLastReportedMs[q]]
    /\ \A q \in DOMAIN intervalErrorLastReportedMs :
          /\ intervalErrorLastReportedMs[q] \in Nat
          /\ intervalErrorLastReportedMs[q] <= lastIntervalCheckMs
    /\ \A q \in DOMAIN pidLastSeenMs : pidLastSeenMs[q] \in Nat /\ pidLastSeenMs[q] <= now
    /\ Video \in DOMAIN pidLastSeenMs /\ shouldProcessEsPid(esPidFilter, Video)
       => heard[Video] <= pidLastSeenMs[Video]

LEMMA TimesInitially ==
  ASSUME StreamAssumption, Init
  PROVE  StreamInv /\ TimeInv
<1>1. StreamInv
  <2>1. DOMAIN budget = {"delays", "packets", "faults", "changes"} /\ budget.delays \subseteq Nat
    <3>1. budget \in [delays : SUBSET Nat, packets : Nat, faults : Nat, changes : Nat]
      BY DEF Init, StreamAssumption
    <3> QED
      BY ONLY <3>1
  <2> QED
    BY <2>1 DEF Init, StreamInv, Pats, Pmts, CC
<1>2. TimeInv
  BY DEF Init, AnalyzerInit, NoTimes, TimeInv
<1> QED
  BY <1>1, <1>2

\* What a checked arrival makes of the times.
LEMMA SectionTimesOfArrival ==
  ASSUME StreamAssumption, StreamInv, TimeInv, NEW pid \in Pids, NEW p \in PacketsOn(pid),
         NEW r \in Readings(pid), NEW c, CheckedArrival(p, r, c)
  PROVE  /\ \A q \in DOMAIN sectionLastSeenMs' :
               \/ sectionLastSeenMs'[q] = now'
               \/ /\ q \in DOMAIN sectionLastSeenMs /\ q \notin SectionSeenOn(c)
                  /\ sectionLastSeenMs'[q] = sectionLastSeenMs[q]
         /\ DOMAIN sectionLastSeenMs \subseteq DOMAIN sectionLastSeenMs'
         /\ SectionSeenOn(c) \subseteq DOMAIN sectionLastSeenMs'
         /\ \A q \in SectionSeenOn(c) : sectionLastSeenMs'[q] = now'
         /\ shouldRunIntervalCheck(now') => SectionPids(c) \subseteq DOMAIN sectionLastSeenMs'
         /\ ~shouldRunIntervalCheck(now')
            => DOMAIN sectionLastSeenMs' = DOMAIN sectionLastSeenMs \cup SectionSeenOn(c)
<1>1. c.nowMs = now' /\ Prio1Analysis(p, c)
  BY DEF CheckedArrival
<1>2. PICK started : /\ sectionLastSeenMs' = Stamp(SectionTimes(c), started, now')
                     /\ started = IF shouldRunIntervalCheck(now')
                                  THEN SectionPids(c) \ DOMAIN SectionTimes(c) ELSE {}
  BY <1>1 DEF Prio1Analysis
<1>3. SectionTimes(c) = Stamp(sectionLastSeenMs, SectionSeenOn(c), now')
  BY <1>1 DEF SectionTimes
<1> QED
  BY <1>2, <1>3 DEF Stamp

\* A PID that is reported is late: at a check nothing was seen of its table for the interval.
LEMMA LateAtArrival ==
  ASSUME StreamAssumption, StreamInv, TimeInv, NEW pid \in Pids, NEW p \in PacketsOn(pid),
         NEW r \in Readings(pid), NEW c, CheckedArrival(p, r, c)
  PROVE  /\ lastIntervalCheckMs' = IF shouldRunIntervalCheck(now') THEN now' ELSE lastIntervalCheckMs
         /\ intervalErrorLastReportedMs' =
               Stamp(intervalErrorLastReportedMs,
                     IF shouldRunIntervalCheck(now') THEN LateSections(c) ELSE {}, now')
         /\ \A q : q \in LateSections(c) <=>
               /\ q \in SectionPids(c) \cap DOMAIN sectionLastSeenMs /\ q \notin SectionSeenOn(c)
               /\ now' - sectionLastSeenMs[q] > TR101290_PAT_PMT_INTERVAL_MS
               /\ q \in DOMAIN intervalErrorLastReportedMs
                  => now' - intervalErrorLastReportedMs[q] > TR101290_PAT_PMT_INTERVAL_MS
<1>1. c.nowMs = now' /\ Prio1Analysis(p, c) /\ now' \in Nat
  BY DEF CheckedArrival, Arrives
<1>2. SectionTimes(c) = Stamp(sectionLastSeenMs, SectionSeenOn(c), now')
  BY <1>1 DEF SectionTimes
<1>3. ASSUME NEW q
      PROVE  q \in LateSections(c) <=>
               /\ q \in SectionPids(c) \cap DOMAIN sectionLastSeenMs /\ q \notin SectionSeenOn(c)
               /\ now' - sectionLastSeenMs[q] > TR101290_PAT_PMT_INTERVAL_MS
               /\ q \in DOMAIN intervalErrorLastReportedMs
                  => now' - intervalErrorLastReportedMs[q] > TR101290_PAT_PMT_INTERVAL_MS
  <2>1. q \in LateSections(c) <=>
           /\ q \in SectionPids(c) \cap DOMAIN SectionTimes(c)
           /\ now' - SectionTimes(c)[q] > TR101290_PAT_PMT_INTERVAL_MS
           /\ q \in DOMAIN intervalErrorLastReportedMs
              => now' - intervalErrorLastReportedMs[q] > TR101290_PAT_PMT_INTERVAL_MS
    BY <1>1 DEF LateSections, IsOlder
  <2>2. DOMAIN SectionTimes(c) = DOMAIN sectionLastSeenMs \cup SectionSeenOn(c)
        /\ \A s \in DOMAIN sectionLastSeenMs \cup SectionSeenOn(c) :
              SectionTimes(c)[s] = IF s \in SectionSeenOn(c) THEN now' ELSE sectionLastSeenMs[s]
    BY <1>2 DEF Stamp
  <2>3. q \in SectionSeenOn(c) => ~(now' - SectionTimes(c)[q] > TR101290_PAT_PMT_INTERVAL_MS)
    BY <1>1, <2>2, IntervalAssumption
  <2> QED
    BY <2>1, <2>2, <2>3
<1>4. /\ lastIntervalCheckMs' = IF shouldRunIntervalCheck(now') THEN now' ELSE lastIntervalCheckMs
      /\ intervalErrorLastReportedMs' =
               Stamp(intervalErrorLastReportedMs,
                     IF shouldRunIntervalCheck(now') THEN LateSections(c) ELSE {}, now')
  BY <1>1 DEF Prio1Analysis
<1> QED
  BY <1>3, <1>4

LEMMA PidTimesOfArrival ==
  ASSUME StreamInv, NEW p, NEW r, NEW c, CheckedArrival(p, r, c)
  PROVE  /\ \A q \in DOMAIN pidLastSeenMs' :
               \/ pidLastSeenMs'[q] = now'
               \/ q \in DOMAIN pidLastSeenMs /\ pidLastSeenMs'[q] = pidLastSeenMs[q]
         /\ p.pid \in DOMAIN pidLastSeenMs' /\ pidLastSeenMs'[p.pid] = now'
<1>1. c.nowMs = now' /\ Prio1Analysis(p, c)
  BY DEF CheckedArrival
<1>2. PICK seen : pidLastSeenMs' = Stamp(pidLastSeenMs, seen, now') /\ p.pid \in seen
  BY <1>1 DEF Prio1Analysis
<1> QED
  BY <1>2 DEF Stamp

LEMMA TimesAtCheckedArrival ==
  ASSUME StreamAssumption, StreamInv, TimeInv, NEW pid \in Pids, NEW p \in PacketsOn(pid),
         NEW r \in Readings(pid), NEW c, CheckedArrival(p, r, c)
  PROVE  TimeInv'
<1>1. /\ now' \in Nat /\ now' >= now /\ now \in Nat /\ esPidFilter' = esPidFilter
      /\ lastIntervalCheckMs \in Nat /\ lastIntervalCheckMs <= now
      /\ heard \in [Pids -> Nat] /\ \A q \in Pids : heard[q] <= now
  BY DEF CheckedArrival, Arrives, StreamInv, TimeInv
<1>2. lastIntervalCheckMs' \in Nat /\ lastIntervalCheckMs' <= now'
      /\ lastIntervalCheckMs' \in {lastIntervalCheckMs, now'}
  BY <1>1, LateAtArrival
<1>3. /\ heard' \in [Pids -> Nat]
      /\ \A q \in {PID_PAT, Program} :
            heard'[q] = IF q \in SectionSeenOn(c) THEN now' ELSE heard[q]
      /\ heard'[Video] = IF p.pid = Video THEN now' ELSE heard[Video]
  BY <1>1, SectionsOfArrival
<1>4. \A q \in Pids : heard'[q] <= now'
  BY <1>1, <1>3 DEF Pids
<1>5. ASSUME NEW q \in DOMAIN sectionLastSeenMs'
      PROVE  sectionLastSeenMs'[q] \in Nat /\ sectionLastSeenMs'[q] <= now'
  <2>1. \/ sectionLastSeenMs'[q] = now'
        \/ q \in DOMAIN sectionLastSeenMs /\ sectionLastSeenMs'[q] = sectionLastSeenMs[q]
    BY SectionTimesOfArrival
  <2>2. q \in DOMAIN sectionLastSeenMs
        => sectionLastSeenMs[q] \in Nat /\ sectionLastSeenMs[q] <= now
    BY DEF TimeInv
  <2> QED
    BY <1>1, <2>1, <2>2
<1>6. ASSUME NEW q \in DOMAIN sectionLastSeenMs' \cap {PID_PAT, Program}
      PROVE  heard'[q] <= sectionLastSeenMs'[q]
  <2>1. CASE sectionLastSeenMs'[q] = now'
    BY <1>4, <2>1 DEF Pids
  <2>2. CASE /\ q \in DOMAIN sectionLastSeenMs /\ q \notin SectionSeenOn(c)
             /\ sectionLastSeenMs'[q] = sectionLastSeenMs[q]
    BY <1>3, <2>2 DEF TimeInv
  <2> QED
    BY <2>1, <2>2, SectionTimesOfArrival
<1>7. PICK late : intervalErrorLastReportedMs' = Stamp(intervalErrorLastReportedMs, late, now')
                  /\ (late # {} => lastIntervalCheckMs' = now')
  BY LateAtArrival
<1>8. intervalErrorLastReportedMs' =
          [q \in DOMAIN intervalErrorLastReportedMs' |-> intervalErrorLastReportedMs'[q]]
  BY <1>7 DEF Stamp
<1>9. ASSUME NEW q \in DOMAIN intervalErrorLastReportedMs'
      PROVE  /\ intervalErrorLastReportedMs'[q] \in Nat
             /\ intervalErrorLastReportedMs'[q] <= lastIntervalCheckMs'
  <2>1. CASE q \in late
    BY <1>1, <1>7, <2>1 DEF Stamp
  <2>2. CASE q \notin late
    <3>1. q \in DOMAIN intervalErrorLastReportedMs
          /\ intervalErrorLastReportedMs'[q] = intervalErrorLastReportedMs[q]
      BY <1>7, <2>2 DEF Stamp
    <3>2. intervalErrorLastReportedMs[q] \in Nat /\ intervalErrorLastReportedMs[q] <= lastIntervalCheckMs
      BY <3>1 DEF TimeInv
    <3> QED
      BY <1>1, <1>2, <3>1, <3>2
  <2> QED
    BY <2>1, <2>2
<1>10. ASSUME NEW q \in DOMAIN pidLastSeenMs'
       PROVE  pidLastSeenMs'[q] \in Nat /\ pidLastSeenMs'[q] <= now'
  BY <1>1, PidTimesOfArrival DEF TimeInv
<1>11. ASSUME Video \in DOMAIN pidLastSeenMs', shouldProcessEsPid(esPidFilter', Video)
       PROVE  heard'[Video] <= pidLastSeenMs'[Video]
  <2>1. CASE pidLastSeenMs'[Video] = now'
    BY <1>4, <2>1 DEF Pids
  <2>2. CASE pidLastSeenMs'[Video] # now'
    <3>1. p.pid # Video /\ Video \in DOMAIN pidLastSeenMs
          /\ pidLastSeenMs'[Video] = pidLastSeenMs[Video]
      BY <1>11, <2>2, PidTimesOfArrival
    <3>2. heard[Video] <= pidLastSeenMs[Video]
      BY <1>1, <1>11, <3>1 DEF TimeInv
    <3> QED
      BY <1>3, <3>1, <3>2
  <2> QED
    BY <2>1, <2>2
<1> QED
  BY <1>2, <1>3, <1>4, <1>5, <1>6, <1>8, <1>9, <1>10, <1>11 DEF TimeInv

LEMMA TimesAtUncheckedArrival ==
  ASSUME StreamAssumption, StreamInv, TimeInv, NEW pid \in Pids, NEW p \in PacketsOn(pid),
         NEW r \in Readings(pid), UncheckedArrival(p, r)
  PROVE  TimeInv'
<1>1. now' \in Nat /\ now' >= now /\ now \in Nat /\ esPidFilter' = esPidFilter
      /\ UNCHANGED analyzerTimes
  BY DEF UncheckedArrival, Arrives, StreamInv
<1>2. /\ heard' \in [Pids -> Nat]
      /\ \A q \in {PID_PAT, Program} : heard'[q] = heard[q]
      /\ heard'[Video] \in {heard[Video], now'}
      /\ heard'[Video] # heard[Video] => ~shouldProcessEsPid(esPidFilter, Video)
  BY UncheckedHistory DEF TimeInv
<1>3. ASSUME NEW q \in Pids
      PROVE  heard'[q] <= now'
  <2>1. heard[q] \in Nat /\ heard[q] <= now
    BY DEF TimeInv
  <2> QED
    BY <1>1, <1>2, <2>1 DEF Pids
<1>4. /\ lastIntervalCheckMs' \in Nat /\ lastIntervalCheckMs' <= now'
      /\ \A q \in DOMAIN sectionLastSeenMs' :
            sectionLastSeenMs'[q] \in Nat /\ sectionLastSeenMs'[q] <= now'
      /\ \A q \in DOMAIN pidLastSeenMs' : pidLastSeenMs'[q] \in Nat /\ pidLastSeenMs'[q] <= now'
  BY <1>1 DEF TimeInv, analyzerTimes
<1>5. \A q \in DOMAIN sectionLastSeenMs' \cap {PID_PAT, Program} : heard'[q] <= sectionLastSeenMs'[q]
  BY <1>1, <1>2 DEF TimeInv, analyzerTimes
<1>6. Video \in DOMAIN pidLastSeenMs' /\ shouldProcessEsPid(esPidFilter', Video)
      => heard'[Video] <= pidLastSeenMs'[Video]
  BY <1>1, <1>2 DEF TimeInv, analyzerTimes
<1>7. /\ intervalErrorLastReportedMs' =
          [q \in DOMAIN intervalErrorLastReportedMs' |-> intervalErrorLastReportedMs'[q]]
      /\ \A q \in DOMAIN intervalErrorLastReportedMs' :
          /\ intervalErrorLastReportedMs'[q] \in Nat
          /\ intervalErrorLastReportedMs'[q] <= lastIntervalCheckMs'
  BY <1>1 DEF TimeInv, analyzerTimes
<1> QED
  BY <1>2, <1>3, <1>4, <1>5, <1>6, <1>7 DEF TimeInv

\* What a change of the filter forgets.
LEMMA FilterForgets ==
  ASSUME NEW filter, SetEsPidFilter(filter)
  PROVE  /\ esPidFilter' = filter
         /\ \A q \in DOMAIN pidLastSeenMs' :
               /\ q \in DOMAIN pidLastSeenMs /\ pidLastSeenMs'[q] = pidLastSeenMs[q]
               /\ shouldProcessEsPid(filter, q) => shouldProcessEsPid(esPidFilter, q)
         /\ \A q : q \in DOMAIN pidCcValidators' <=>
               /\ q \in DOMAIN pidCcValidators
               /\ shouldProcessEsPid(filter, q) => shouldProcessEsPid(esPidFilter, q)
         /\ \A q \in DOMAIN pidCcValidators' : pidCcValidators'[q] = pidCcValidators[q]
         /\ UNCHANGED <<sectionLastSeenMs, intervalErrorLastReportedMs, lastIntervalCheckMs>>
         /\ UNCHANGED <<now, cc, lost, copies, outOfSync, resumed, heard, watched>>
         /\ unfollowed' = unfollowed \cup Readmitted(Pids, esPidFilter, filter)
         /\ errors' = NoErrors /\ checked' = <<>>
<1>1. handleFilterChange(esPidFilter, filter)
  BY DEF SetEsPidFilter
<1>2. /\ pidCcValidators' =
           Without(pidCcValidators, Readmitted(DOMAIN pidCcValidators, esPidFilter, filter))
      /\ pidLastSeenMs' =
           Without(pidLastSeenMs, Readmitted(DOMAIN pidLastSeenMs, esPidFilter, filter))
      /\ UNCHANGED <<sectionLastSeenMs, intervalErrorLastReportedMs, lastIntervalCheckMs>>
      /\ errors' = NoErrors
  BY <1>1 DEF handleFilterChange
<1>3. /\ DOMAIN pidLastSeenMs' =
            {q \in DOMAIN pidLastSeenMs :
                shouldProcessEsPid(filter, q) => shouldProcessEsPid(esPidFilter, q)}
      /\ \A q \in DOMAIN pidLastSeenMs' : pidLastSeenMs'[q] = pidLastSeenMs[q]
  BY <1>2 DEF Without, Restrict, Readmitted
<1>4. /\ DOMAIN pidCcValidators' =
            {q \in DOMAIN pidCcValidators :
                shouldProcessEsPid(filter, q) => shouldProcessEsPid(esPidFilter, q)}
      /\ \A q \in DOMAIN pidCcValidators' : pidCcValidators'[q] = pidCcValidators[q]
  BY <1>2 DEF Without, Restrict, Readmitted
<1> QED
  BY <1>2, <1>3, <1>4 DEF SetEsPidFilter

LEMMA TimeSteps ==
  ASSUME StreamAssumption, StreamInv, TimeInv, [Next]_vars
  PROVE  TimeInv'
<1>1. CASE CheckedStep
  BY <1>1, TimesAtCheckedArrival DEF CheckedStep
<1>2. CASE UncheckedStep
  BY <1>2, TimesAtUncheckedArrival DEF UncheckedStep
<1>3. CASE IdleStep
  BY <1>3 DEF IdleStep, TimeInv, analyzerTimes, demuxerVars, historyVars
<1>4. CASE LossStep
  BY <1>4 DEF LossStep, TimeInv, analyzerTimes, demuxerVars
<1>5. CASE FilterStep
  <2>1. PICK filter \in Filters : SetEsPidFilter(filter)
    BY <1>5 DEF FilterStep
  <2>2. /\ UNCHANGED <<sectionLastSeenMs, intervalErrorLastReportedMs, lastIntervalCheckMs, now, heard>>
        /\ \A q \in DOMAIN pidLastSeenMs' :
               /\ q \in DOMAIN pidLastSeenMs /\ pidLastSeenMs'[q] = pidLastSeenMs[q]
               /\ shouldProcessEsPid(filter, q) => shouldProcessEsPid(esPidFilter, q)
        /\ esPidFilter' = filter
    BY <2>1, FilterForgets
  <2> QED
    BY <2>2 DEF TimeInv
<1> QED
  BY <1>1, <1>2, <1>3, <1>4, <1>5, Steps

-----------------------------------------------------------------------------
(* Interval and PID errors *)

OnlyRealIntervalErrors ==
    /\ \A pid \in {PID_PAT, Program} :
          /\ pid \in DOMAIN intervalErrorLastReportedMs'
          /\ intervalErrorLastReportedMs' # intervalErrorLastReportedMs
          /\ intervalErrorLastReportedMs'[pid] = now'
          => now' - heard'[pid] > TR101290_PAT_PMT_INTERVAL_MS
    /\ errors'["pidError"] > 0 => now' - heard[Video] > TR101290_PID_INTERVAL_MS

\* Of two times that differ by so much the first is the later.
LEMMA IsLater ==
  ASSUME NEW a \in Nat, NEW b \in Nat, NEW t \in Nat, t > 0, a - b >= t
  PROVE  a - b > 0
OBVIOUS

\* A PID error names a stream of the PMT that the filter lets pass and that was silent.
LEMMA SilentAtArrival ==
  ASSUME StreamAssumption, StreamInv, TimeInv, NEW pid \in Pids, NEW p \in PacketsOn(pid),
         NEW r \in Readings(pid), NEW c, CheckedArrival(p, r, c), errors'["pidError"] > 0
  PROVE  now' - heard[Video] > TR101290_PID_INTERVAL_MS
<1>1. c.nowMs = now' /\ Prio1Analysis(p, c) /\ c.esPidFilter = esPidFilter
      /\ c.pmts \in PmtMapsByPid(r.pat, r.pmts)
  BY DEF CheckedArrival
<1>2. PICK silent : errors'["pidError"] = Cardinality(silent) /\ silent \subseteq SilentPids(c)
  <2>1. errors'["pidError"] =
           Cardinality(IF shouldRunIntervalCheck(c.nowMs) THEN SilentPids(c) ELSE {})
    BY <1>1 DEF Prio1Analysis, NoErrors, Errors
  <2> QED
    BY <2>1
<1>3. silent # {}
  <2>1. Cardinality({}) = 0
    BY FS_EmptySet
  <2> QED
    BY <1>2, <2>1
<1>4. PICK q \in SilentPids(c) : TRUE
  BY <1>2, <1>3
<1>5. /\ q \in UNION Range(c.pmts) /\ shouldProcessEsPid(esPidFilter, q)
      /\ q \in DOMAIN pidLastSeenMs /\ now' - pidLastSeenMs[q] > TR101290_PID_INTERVAL_MS
  BY <1>1, <1>4 DEF SilentPids, MonitoredPids, IsOlder
<1>6. q = Video
  <2>1. r.pmts \in Pmts
    BY ReadingFields DEF StreamInv
  <2>2. \A n \in DOMAIN r.pmts : r.pmts[n] \subseteq {Video}
    BY <2>1 DEF Pmts
  <2> DEFINE known == IF r.pat = <<>> THEN {} ELSE DOMAIN r.pat[1] \cap DOMAIN r.pmts
             pids == {r.pat[1][n] : n \in known}
  <2>3. PICK of \in [pids -> known] : c.pmts = [s \in pids |-> r.pmts[of[s]]]
    <3>1. c.pmts \in {[s \in pids |-> r.pmts[of[s]]] :
                          of \in {f \in [pids -> known] : \A s \in pids : r.pat[1][f[s]] = s}}
      BY <1>1, Zenon DEF PmtMapsByPid
    <3> HIDE DEF pids, known
    <3> QED
      BY <3>1
  <2>5. known \subseteq DOMAIN r.pmts
    OBVIOUS
  <2> HIDE DEF pids, known
  <2>4. PICK s \in pids : q \in r.pmts[of[s]]
    BY <1>5, <2>3 DEF Range
  <2> QED
    BY <2>2, <2>3, <2>4, <2>5
<1>7. /\ heard[Video] \in Nat /\ pidLastSeenMs[Video] \in Nat /\ now' \in Nat
      /\ heard[Video] <= pidLastSeenMs[Video]
  BY <1>5, <1>6 DEF TimeInv, Pids, CheckedArrival, Arrives
<1> QED
  BY <1>5, <1>6, <1>7, IntervalAssumption

LEMMA IntervalErrorSteps ==
  ASSUME StreamAssumption, StreamInv, TimeInv, [Next]_vars
  PROVE  [OnlyRealIntervalErrors]_vars
<1>1. ASSUME NEW pid \in Pids, NEW p \in PacketsOn(pid), NEW r \in Readings(pid), NEW c,
             CheckedArrival(p, r, c)
      PROVE  OnlyRealIntervalErrors
  <2>1. ASSUME NEW q \in {PID_PAT, Program}, q \in DOMAIN intervalErrorLastReportedMs',
               intervalErrorLastReportedMs' # intervalErrorLastReportedMs,
               intervalErrorLastReportedMs'[q] = now'
        PROVE  now' - heard'[q] > TR101290_PAT_PMT_INTERVAL_MS
    <3>1. /\ now' \in Nat /\ lastIntervalCheckMs \in Nat /\ q \in Pids
          /\ heard \in [Pids -> Nat]
      BY <1>1 DEF CheckedArrival, Arrives, TimeInv, Pids
    <3>2. intervalErrorLastReportedMs' =
               Stamp(intervalErrorLastReportedMs,
                     IF shouldRunIntervalCheck(now') THEN LateSections(c) ELSE {}, now')
      BY <1>1, LateAtArrival
    <3>3. shouldRunIntervalCheck(now')
      <4>1. Stamp(intervalErrorLastReportedMs, {}, now') = intervalErrorLastReportedMs
        BY DEF Stamp, TimeInv
      <4> QED
        BY <2>1, <3>2, <4>1
    <3>4. now' - lastIntervalCheckMs > 0
      <4>1. intervalCheckThrottleMs \in Nat /\ intervalCheckThrottleMs > 0
        BY IntervalAssumption
      <4>2. now' - lastIntervalCheckMs >= intervalCheckThrottleMs
        BY <3>3 DEF shouldRunIntervalCheck
      <4>3. now' \in Nat /\ lastIntervalCheckMs \in Nat
        BY <3>1
      <4> QED
        BY <4>1, <4>2, <4>3, IsLater
    <3>5. q \in LateSections(c)
      <4>1. SUFFICES ASSUME q \notin LateSections(c)
                     PROVE  FALSE
        OBVIOUS
      <4>2. q \in DOMAIN intervalErrorLastReportedMs
            /\ intervalErrorLastReportedMs'[q] = intervalErrorLastReportedMs[q]
        BY <2>1, <3>2, <3>3, <4>1 DEF Stamp
      <4>3. intervalErrorLastReportedMs[q] \in Nat
            /\ intervalErrorLastReportedMs[q] <= lastIntervalCheckMs
        BY <4>2 DEF TimeInv
      <4> QED
        BY <2>1, <3>1, <3>4, <4>2, <4>3
    <3>6. /\ q \in DOMAIN sectionLastSeenMs /\ q \notin SectionSeenOn(c)
          /\ now' - sectionLastSeenMs[q] > TR101290_PAT_PMT_INTERVAL_MS
      BY <1>1, <3>5, LateAtArrival
    <3>7. heard'[q] = heard[q]
      BY <1>1, <3>1, <3>6, SectionsOfArrival
    <3>8. heard[q] \in Nat /\ sectionLastSeenMs[q] \in Nat /\ heard[q] <= sectionLastSeenMs[q]
      BY <3>1, <3>6 DEF TimeInv
    <3> QED
      BY <3>1, <3>6, <3>7, <3>8, IntervalAssumption
  <2> QED
    BY <1>1, <2>1, SilentAtArrival DEF OnlyRealIntervalErrors
<1>2. ASSUME UNCHANGED intervalErrorLastReportedMs, errors'["pidError"] = 0
      PROVE  OnlyRealIntervalErrors
  BY <1>2 DEF OnlyRealIntervalErrors
<1>3. CASE CheckedStep
  BY <1>1, <1>3 DEF CheckedStep
<1>4. CASE UncheckedStep
  BY <1>2, <1>4 DEF UncheckedStep, UncheckedArrival, analyzerTimes
<1>5. CASE IdleStep
  <2>1. UNCHANGED intervalErrorLastReportedMs
    BY <1>5 DEF IdleStep, analyzerTimes
  <2>2. CASE errors'["pidError"] > 0
    BY <1>5, <2>2 DEF IdleStep
  <2>3. CASE ~(errors'["pidError"] > 0)
    BY <2>1, <2>3 DEF OnlyRealIntervalErrors
  <2> QED
    BY <2>2, <2>3
<1>6. CASE LossStep
  BY <1>2, <1>6, NoErrorsAreCounted DEF LossStep, analyzerTimes, NoErrors, Errors
<1>7. CASE FilterStep
  <2>1. UNCHANGED intervalErrorLastReportedMs /\ errors' = NoErrors
    BY <1>7, FilterForgets DEF FilterStep
  <2> QED
    BY <1>2, <2>1 DEF NoErrors, Errors
<1> QED
  BY <1>3, <1>4, <1>5, <1>6, <1>7, Steps

\* The times of the analyzer are never ahead of the clock nor behind what arrived
\* (TSTr101290Analyzer: sectionLastSeenMs, pidLastSeenMs, lastIntervalCheckMs).
THEOREM TimesFit ==
  ASSUME StreamAssumption
  PROVE  Spec => [](StreamInv /\ TimeInv)
<1>1. Init => StreamInv /\ TimeInv
  BY TimesInitially
<1>2. StreamInv /\ TimeInv /\ [Next]_vars => (StreamInv /\ TimeInv)'
  BY StreamSteps, TimeSteps
<1> QED
  BY <1>1, <1>2, PTL DEF Spec

\* checkPidIntervalErrors and checkPidError never count a table or a stream that came in time,
\* whatever the intervals, the pace of the packets and the changes of the filter.
THEOREM IntervalErrorsFollowSilence ==
  ASSUME StreamAssumption
  PROVE  Spec => IntervalErrorsAreReal
<1>1. StreamInv /\ TimeInv /\ [Next]_vars => [OnlyRealIntervalErrors]_vars
  BY IntervalErrorSteps
<1>2. [][OnlyRealIntervalErrors]_vars => IntervalErrorsAreReal
  BY DEF OnlyRealIntervalErrors, IntervalErrorsAreReal
<1> QED
  BY <1>1, <1>2, TimesFit, PTL DEF Spec

-----------------------------------------------------------------------------
(* The silence of the PAT *)

\* At the last check the PAT was no older than the interval, or its lateness is on record.
PatIsFresh ==
    /\ PID_PAT \in DOMAIN sectionLastSeenMs
    /\ \/ lastIntervalCheckMs - sectionLastSeenMs[PID_PAT] <= TR101290_PAT_PMT_INTERVAL_MS
       \/ /\ PID_PAT \in DOMAIN intervalErrorLastReportedMs
          /\ lastIntervalCheckMs - intervalErrorLastReportedMs[PID_PAT] <= TR101290_PAT_PMT_INTERVAL_MS

\* Its time is that of the last PAT, or when the checks began to wait for the first one.
PatIsTimed ==
    PID_PAT \in DOMAIN sectionLastSeenMs =>
       \/ sectionLastSeenMs[PID_PAT] = heard[PID_PAT]
       \/ watched = <<sectionLastSeenMs[PID_PAT]>>

SilenceInv ==
    /\ \/ watched = <<>> /\ lastIntervalCheckMs = 0
       \/ (\E t \in Nat : watched = <<t>>) /\ PatIsFresh
    /\ PatIsTimed
    /\ checked # <<>> => now - lastIntervalCheckMs < intervalCheckThrottleMs

LEMMA SilenceInitially ==
  ASSUME Init
  PROVE  SilenceInv
BY DEF Init, AnalyzerInit, NoTimes, SilenceInv, PatIsTimed

\* A silence that has outlasted the interval and the time to the next check.
LEMMA LongSilence ==
  ASSUME NEW n \in Nat, NEW last \in Nat, NEW seen \in Nat, NEW heardAt \in Nat, NEW began \in Nat,
         seen = heardAt \/ seen = began,
         NEW interval \in Nat, NEW throttle \in Nat, n - last < throttle,
         n - began > interval + throttle, n - heardAt > interval + throttle
  PROVE  /\ ~(last - seen <= interval)
         /\ \A reported \in Nat : last - reported <= interval => n - reported <= interval + throttle
OBVIOUS

LEMMA SilenceIsOnRecord ==
  ASSUME StreamInv, TimeInv, SilenceInv
  PROVE  PatSilenceIsReported
<1> DEFINE span == TR101290_PAT_PMT_INTERVAL_MS + intervalCheckThrottleMs
<1>1. SUFFICES ASSUME checked # <<>>, watched # <<>>, now - watched[1] > span,
                      now - heard[PID_PAT] > span
               PROVE  /\ PID_PAT \in DOMAIN intervalErrorLastReportedMs
                      /\ now - intervalErrorLastReportedMs[PID_PAT] <= span
  BY DEF PatSilenceIsReported
<1>2. PICK began \in Nat : watched = <<began>>
  BY <1>1 DEF SilenceInv
<1>3. /\ PID_PAT \in DOMAIN sectionLastSeenMs
      /\ sectionLastSeenMs[PID_PAT] \in Nat /\ heard[PID_PAT] \in Nat
      /\ now \in Nat /\ lastIntervalCheckMs \in Nat
      /\ TR101290_PAT_PMT_INTERVAL_MS \in Nat /\ intervalCheckThrottleMs \in Nat
  BY <1>1, IntervalAssumption DEF SilenceInv, PatIsFresh, TimeInv, StreamInv, Pids
<1>4. sectionLastSeenMs[PID_PAT] = heard[PID_PAT] \/ sectionLastSeenMs[PID_PAT] = began
  BY <1>2, <1>3 DEF SilenceInv, PatIsTimed
<1>5. /\ now - lastIntervalCheckMs < intervalCheckThrottleMs
      /\ now - began > span
  BY <1>1, <1>2 DEF SilenceInv
<1>6. /\ ~(lastIntervalCheckMs - sectionLastSeenMs[PID_PAT] <= TR101290_PAT_PMT_INTERVAL_MS)
      /\ \A reported \in Nat :
            lastIntervalCheckMs - reported <= TR101290_PAT_PMT_INTERVAL_MS => now - reported <= span
  BY <1>1, <1>3, <1>4, <1>5, LongSilence
<1>7. /\ PID_PAT \in DOMAIN intervalErrorLastReportedMs
      /\ lastIntervalCheckMs - intervalErrorLastReportedMs[PID_PAT] <= TR101290_PAT_PMT_INTERVAL_MS
  BY <1>1, <1>6 DEF SilenceInv, PatIsFresh
<1>8. intervalErrorLastReportedMs[PID_PAT] \in Nat
  BY <1>7 DEF TimeInv
<1> QED
  BY <1>6, <1>7, <1>8

\* The time of a PID that has one stays while no table comes on it.
LEMMA OldTimesStay ==
  ASSUME NEW p, NEW r, NEW c, CheckedArrival(p, r, c), NEW q \in DOMAIN sectionLastSeenMs,
         q \notin SectionSeenOn(c)
  PROVE  q \in DOMAIN sectionLastSeenMs' /\ sectionLastSeenMs'[q] = sectionLastSeenMs[q]
<1>1. c.nowMs = now' /\ Prio1Analysis(p, c)
  BY DEF CheckedArrival
<1>2. SectionTimes(c) = Stamp(sectionLastSeenMs, SectionSeenOn(c), now')
  BY <1>1 DEF SectionTimes
<1>3. PICK started : /\ sectionLastSeenMs' = Stamp(SectionTimes(c), started, now')
                     /\ started \cap DOMAIN SectionTimes(c) = {}
  <2>1. sectionLastSeenMs' =
           Stamp(SectionTimes(c), IF shouldRunIntervalCheck(c.nowMs)
                                  THEN SectionPids(c) \ DOMAIN SectionTimes(c) ELSE {}, now')
    BY <1>1 DEF Prio1Analysis
  <2> QED
    BY <2>1
<1> QED
  BY <1>2, <1>3 DEF Stamp

LEMMA SilenceAtCheckedArrival ==
  ASSUME StreamAssumption, StreamInv, TimeInv, SilenceInv, NEW pid \in Pids,
         NEW p \in PacketsOn(pid), NEW r \in Readings(pid), NEW c, CheckedArrival(p, r, c)
  PROVE  SilenceInv'
<1>1. PICK time \in Nat : time = now'
  BY DEF CheckedArrival, Arrives
<1>2. PICK last \in Nat : last = lastIntervalCheckMs
  BY DEF TimeInv
<1>3. PICK interval \in Nat, throttle \in Nat :
         /\ interval = TR101290_PAT_PMT_INTERVAL_MS /\ throttle = intervalCheckThrottleMs
         /\ throttle > 0
  BY IntervalAssumption
<1>4. shouldRunIntervalCheck(now') <=> time - last >= throttle
  BY <1>1, <1>2, <1>3 DEF shouldRunIntervalCheck
<1>5. lastIntervalCheckMs' = IF time - last >= throttle THEN time ELSE last
  BY <1>1, <1>2, <1>4, LateAtArrival
<1>6. watched' = IF watched = <<>> /\ time >= throttle THEN <<time>> ELSE watched
  BY <1>1, <1>3 DEF CheckedArrival, History
<1>7. heard'[PID_PAT] = IF PID_PAT \in SectionSeenOn(c) THEN time ELSE heard[PID_PAT]
  BY <1>1, SectionsOfArrival DEF TimeInv
<1>8. PID_PAT \in SectionPids(c)
  BY SectionsOfArrival DEF TimeInv
<1>9. /\ \A q \in DOMAIN sectionLastSeenMs' :
            \/ sectionLastSeenMs'[q] = time
            \/ /\ q \in DOMAIN sectionLastSeenMs /\ q \notin SectionSeenOn(c)
               /\ sectionLastSeenMs'[q] = sectionLastSeenMs[q]
      /\ DOMAIN sectionLastSeenMs \subseteq DOMAIN sectionLastSeenMs'
      /\ \A q \in SectionSeenOn(c) : sectionLastSeenMs'[q] = time
      /\ time - last >= throttle => PID_PAT \in DOMAIN sectionLastSeenMs'
      /\ ~(time - last >= throttle)
         => DOMAIN sectionLastSeenMs' = DOMAIN sectionLastSeenMs \cup SectionSeenOn(c)
  BY <1>1, <1>4, <1>8, SectionTimesOfArrival
<1>10. now' - lastIntervalCheckMs' < intervalCheckThrottleMs
  <2>1. time - (IF time - last >= throttle THEN time ELSE last) < throttle
    BY <1>3
  <2> QED
    BY <1>1, <1>3, <1>5, <2>1
<1>11. CASE time - last >= throttle
  <2>1. \E t \in Nat : watched' = <<t>>
    <3>1. watched = <<>> => time >= throttle
      BY <1>2, <1>11 DEF SilenceInv
    <3> QED
      BY <1>6, <3>1 DEF SilenceInv
  <2>2. PatIsFresh'
    <3>1. PID_PAT \in DOMAIN sectionLastSeenMs' /\ lastIntervalCheckMs' = time
      BY <1>5, <1>9, <1>11
    <3>2. CASE sectionLastSeenMs'[PID_PAT] = time
      <4>1. time - time <= interval
        OBVIOUS
      <4> QED
        BY <1>3, <3>1, <3>2, <4>1 DEF PatIsFresh
    <3>3. CASE /\ PID_PAT \in DOMAIN sectionLastSeenMs /\ PID_PAT \notin SectionSeenOn(c)
               /\ sectionLastSeenMs'[PID_PAT] = sectionLastSeenMs[PID_PAT]
      <4>1. PICK seen \in Nat : seen = sectionLastSeenMs[PID_PAT]
        BY <3>3 DEF TimeInv
      <4>2. intervalErrorLastReportedMs' = Stamp(intervalErrorLastReportedMs, LateSections(c), time)
        BY <1>1, <1>4, <1>11, LateAtArrival
      <4>3. CASE time - seen <= interval
        BY <1>3, <3>1, <3>3, <4>1, <4>3 DEF PatIsFresh
      <4>4. CASE time - seen > interval /\ PID_PAT \in LateSections(c)
        <5>1. PID_PAT \in DOMAIN intervalErrorLastReportedMs'
              /\ intervalErrorLastReportedMs'[PID_PAT] = time
          BY <4>2, <4>4 DEF Stamp
        <5>2. time - time <= interval
          OBVIOUS
        <5> QED
          BY <1>3, <3>1, <5>1, <5>2 DEF PatIsFresh
      <4>5. CASE time - seen > interval /\ PID_PAT \notin LateSections(c)
        <5>1. PID_PAT \in DOMAIN intervalErrorLastReportedMs
              /\ ~(time - intervalErrorLastReportedMs[PID_PAT] > interval)
          BY <1>1, <1>3, <1>8, <3>3, <4>1, <4>5, LateAtArrival
        <5>2. intervalErrorLastReportedMs[PID_PAT] \in Nat
          BY <5>1 DEF TimeInv
        <5>3. time - intervalErrorLastReportedMs[PID_PAT] <= interval
          BY <5>1, <5>2
        <5>4. PID_PAT \in DOMAIN intervalErrorLastReportedMs'
              /\ intervalErrorLastReportedMs'[PID_PAT] = intervalErrorLastReportedMs[PID_PAT]
          BY <4>2, <4>5, <5>1 DEF Stamp
        <5> QED
          BY <1>3, <3>1, <5>3, <5>4 DEF PatIsFresh
      <4> QED
        BY <4>3, <4>4, <4>5
    <3> QED
      BY <1>9, <3>1, <3>2, <3>3
  <2>3. PatIsTimed'
    <3>1. ASSUME PID_PAT \in SectionSeenOn(c)
          PROVE  PatIsTimed'
      BY <1>7, <1>9, <3>1 DEF PatIsTimed
    <3>2. ASSUME PID_PAT \notin SectionSeenOn(c), PID_PAT \in DOMAIN sectionLastSeenMs,
                 sectionLastSeenMs'[PID_PAT] = sectionLastSeenMs[PID_PAT]
          PROVE  PatIsTimed'
      <4>1. watched = <<sectionLastSeenMs[PID_PAT]>> => watched' = watched
        BY <1>6
      <4> QED
        BY <1>7, <3>2, <4>1 DEF PatIsTimed, SilenceInv
    <3>3. ASSUME PID_PAT \notin SectionSeenOn(c), sectionLastSeenMs'[PID_PAT] = time
          PROVE  PatIsTimed'
      <4>1. CASE PID_PAT \notin DOMAIN sectionLastSeenMs
        <5>1. watched = <<>> /\ last = 0
          BY <1>2, <4>1 DEF SilenceInv, PatIsFresh
        <5>2. watched' = <<time>>
          BY <1>6, <1>11, <5>1
        <5> QED
          BY <3>3, <5>2 DEF PatIsTimed
      <4>2. CASE PID_PAT \in DOMAIN sectionLastSeenMs
        <5>1. sectionLastSeenMs'[PID_PAT] = sectionLastSeenMs[PID_PAT]
          BY <3>3, <4>2, SectionTimesOfArrival, OldTimesStay
        <5> QED
          BY <3>2, <3>3, <4>2, <5>1
      <4> QED
        BY <4>1, <4>2
    <3> QED
      BY <1>9, <1>11, <3>1, <3>2, <3>3
  <2> QED
    BY <1>10, <2>1, <2>2, <2>3 DEF SilenceInv
<1>12. CASE ~(time - last >= throttle)
  <2>1. watched' = watched /\ lastIntervalCheckMs' = lastIntervalCheckMs
    <3>1. watched = <<>> => ~(time >= throttle)
      BY <1>2, <1>12 DEF SilenceInv
    <3> QED
      BY <1>2, <1>5, <1>6, <1>12, <3>1
  <2>2. intervalErrorLastReportedMs' = intervalErrorLastReportedMs
    <3>1. intervalErrorLastReportedMs' = Stamp(intervalErrorLastReportedMs, {}, time)
      BY <1>1, <1>4, <1>12, LateAtArrival
    <3> QED
      BY <3>1 DEF Stamp, TimeInv
  <2>3. PatIsFresh => PatIsFresh'
    <3>1. SUFFICES ASSUME PatIsFresh
                   PROVE  PatIsFresh'
      OBVIOUS
    <3>2. PID_PAT \in DOMAIN sectionLastSeenMs'
      BY <1>9, <3>1 DEF PatIsFresh
    <3>3. CASE sectionLastSeenMs'[PID_PAT] = time
      <4>1. last <= time
        BY <1>1, <1>2 DEF TimeInv, CheckedArrival, Arrives, StreamInv
      <4>2. last - time <= interval
        BY <4>1
      <4> QED
        BY <1>2, <1>3, <2>1, <3>2, <3>3, <4>2 DEF PatIsFresh
    <3>4. CASE sectionLastSeenMs'[PID_PAT] = sectionLastSeenMs[PID_PAT]
      BY <2>1, <2>2, <3>1, <3>2, <3>4 DEF PatIsFresh
    <3> QED
      BY <1>9, <3>2, <3>3, <3>4
  <2>4. PatIsTimed'
    <3>1. ASSUME PID_PAT \in SectionSeenOn(c)
          PROVE  PatIsTimed'
      BY <1>7, <1>9, <3>1 DEF PatIsTimed
    <3>2. ASSUME PID_PAT \notin SectionSeenOn(c)
          PROVE  PatIsTimed'
      <4>1. PID_PAT \in DOMAIN sectionLastSeenMs'
            => /\ PID_PAT \in DOMAIN sectionLastSeenMs
               /\ sectionLastSeenMs'[PID_PAT] = sectionLastSeenMs[PID_PAT]
        BY <1>9, <1>12, <3>2, OldTimesStay
      <4> QED
        BY <1>7, <2>1, <3>2, <4>1 DEF PatIsTimed, SilenceInv
    <3> QED
      BY <3>1, <3>2
  <2> QED
    BY <1>10, <2>1, <2>3, <2>4 DEF SilenceInv
<1> QED
  BY <1>11, <1>12

LEMMA SilenceSteps ==
  ASSUME StreamAssumption, StreamInv, TimeInv, SilenceInv, [Next]_vars
  PROVE  SilenceInv'
<1>1. CASE CheckedStep
  BY <1>1, SilenceAtCheckedArrival DEF CheckedStep
<1>2. ASSUME UNCHANGED <<sectionLastSeenMs, intervalErrorLastReportedMs, lastIntervalCheckMs, watched>>,
             heard'[PID_PAT] = heard[PID_PAT], checked' = <<>>
      PROVE  SilenceInv'
  BY <1>2 DEF SilenceInv, PatIsFresh, PatIsTimed
<1>3. CASE UncheckedStep
  <2>1. PICK pid \in Pids : \E p \in PacketsOn(pid), r \in Readings(pid) : UncheckedArrival(p, r)
    BY <1>3 DEF UncheckedStep
  <2>2. PICK p \in PacketsOn(pid), r \in Readings(pid) : UncheckedArrival(p, r)
    BY <2>1
  <2>3. heard'[PID_PAT] = heard[PID_PAT] /\ watched' = watched
    BY <2>2, UncheckedHistory DEF TimeInv
  <2> QED
    BY <1>2, <2>2, <2>3 DEF UncheckedArrival, analyzerTimes
<1>4. CASE IdleStep
  <2>1. CASE checked' = <<>>
    BY <1>2, <1>4, <2>1 DEF IdleStep, analyzerTimes, historyVars
  <2>2. CASE UNCHANGED vars
    BY <2>2 DEF SilenceInv, PatIsFresh, PatIsTimed, vars, analyzerVars, historyVars
  <2> QED
    BY <1>4, <2>1, <2>2 DEF IdleStep
<1>5. CASE LossStep
  BY <1>2, <1>5 DEF LossStep, analyzerTimes
<1>6. CASE FilterStep
  BY <1>2, <1>6, FilterForgets DEF FilterStep
<1> QED
  BY <1>1, <1>3, <1>4, <1>5, <1>6, Steps

\* Once the sections are checked, a PAT that stays away for longer than the interval and the
\* time between two checks is reported, and again with every interval: checkPidIntervalErrors
\* never loses sight of it, at any pace of the packets.
THEOREM SilenceIsReported ==
  ASSUME StreamAssumption
  PROVE  Spec => []PatSilenceIsReported
<1>1. Init => StreamInv /\ TimeInv /\ SilenceInv
  BY TimesInitially, SilenceInitially
<1>2. StreamInv /\ TimeInv /\ SilenceInv /\ [Next]_vars => (StreamInv /\ TimeInv /\ SilenceInv)'
  BY StreamSteps, TimeSteps, SilenceSteps
<1>3. StreamInv /\ TimeInv /\ SilenceInv => PatSilenceIsReported
  BY SilenceIsOnRecord
<1> QED
  BY <1>1, <1>2, <1>3, PTL DEF Spec

-----------------------------------------------------------------------------
(* Continuity counters *)

\* What the analyzer keeps of a PID that it follows: the last counter, from which the packets
\* lost since lead to that of the channel, and no trace of a repetition that there was not.
Follows(v, pid) ==
    /\ v.hasLastCC /\ (v.lastCC + lost[pid]) % 16 = cc[pid]
    /\ copies[pid] >= 1
    /\ copies[pid] = 1 /\ pid \notin resumed => ~(v.hasSecondLastCC /\ v.secondLastCC = v.lastCC)

\* Why it does not follow a PID: for want of synchronization, or the PID has been, or may
\* become, that of a table, or nothing is kept of it, or the filter excludes its packets.
IsExcused(pid) ==
    \/ pid \in outOfSync \/ pid = Program \/ pid \notin DOMAIN pidCcValidators
    \/ pid = Video /\ ~shouldProcessEsPid(esPidFilter, Video)

CounterInv ==
    /\ lost \in [Pids -> 0 .. 14] /\ copies \in [Pids -> 0 .. 3]
    /\ \A q \in DOMAIN pidCcValidators : pidCcValidators[q] \in Validators
    /\ \A q \in Pids : q \notin unfollowed => q \in DOMAIN pidCcValidators
                                              /\ Follows(pidCcValidators[q], q)
    /\ \A q \in Pids : q \in unfollowed => IsExcused(q)

\* Counters that differ by up to 14 losses.
LEMMA LossesShow ==
  ASSUME NEW a \in CC, NEW n \in 0 .. 14
  PROVE  /\ (a + n) % 16 \in CC /\ (a + n + 1) % 16 \in CC
         /\ (a + n) % 16 = a <=> n = 0
         /\ (a + n + 1) % 16 # a
         /\ (a + n + 1) % 16 = NextCC(a) <=> n = 0
         /\ NextCC((a + n) % 16) = (a + n + 1) % 16
BY DEF CC, NextCC

LEMMA CountersInitially ==
  ASSUME StreamAssumption, Init
  PROVE  CounterInv
BY DEF Init, AnalyzerInit, NoTimes, CounterInv, Count, IsExcused

LEMMA ValidatedIsTyped ==
  ASSUME NEW v \in Validators, NEW p, p.cc \in CC, p.disc \in BOOLEAN
  PROVE  /\ Validated(v, p) \in Validators
         /\ Validated(v, p).hasLastCC /\ Validated(v, p).lastCC = p.cc
         /\ p.disc => ~Validated(v, p).hasSecondLastCC
         /\ ~p.disc => /\ Validated(v, p).hasSecondLastCC = v.hasLastCC
                       /\ Validated(v, p).secondLastCC = v.lastCC
BY DEF Validated, Validators

\* The history and the validators after a checked arrival.
LEMMA CheckedHistory ==
  ASSUME StreamAssumption, StreamInv, CounterInv, NEW pid \in Pids, NEW p \in PacketsOn(pid),
         NEW r \in Readings(pid), NEW c, CheckedArrival(p, r, c)
  PROVE  /\ p.pid = pid /\ p.cc \in CC /\ p.disc \in BOOLEAN /\ p.payload \in BOOLEAN
         /\ lost' = [lost EXCEPT ![pid] = 0]
         /\ copies' = [copies EXCEPT ![pid] =
                         IF p.cc = cc[pid] /\ lost[pid] = 0 THEN Minimum(copies[pid] + 1, 3) ELSE 1]
         /\ unfollowed' = unfollowed \ {pid} /\ outOfSync' = outOfSync \ {pid}
         /\ resumed' = IF pid \in Unchecked THEN resumed \cup {pid} ELSE resumed \ {pid}
         /\ cc' = [cc EXCEPT ![pid] = p.cc] /\ esPidFilter' = esPidFilter
         /\ DOMAIN pidCcValidators' = DOMAIN pidCcValidators \cup {pid}
         /\ pidCcValidators'[pid] = Validated(ValidatorOf(pid), p)
         /\ \A q \in DOMAIN pidCcValidators \ {pid} : pidCcValidators'[q] = pidCcValidators[q]
         /\ errors'["ccError"] = Count(IsCcError(ValidatorOf(pid), p))
         /\ checked' = <<[pid |-> pid, counted |-> p.payload /\ ~p.disc]>>
<1>1. cc[pid] \in CC
  BY DEF StreamInv
<1>2. p.pid = pid /\ p.cc \in CC /\ p.disc \in BOOLEAN /\ p.payload \in BOOLEAN
  BY <1>1, PacketFields
<1>3. Prio1Analysis(p, c) /\ isSyncAcquired(p) /\ Arrives(p, r)
  BY DEF CheckedArrival
<1>4. /\ pidCcValidators' =
            [q \in DOMAIN pidCcValidators \cup {pid} |->
                IF q = pid THEN Validated(ValidatorOf(q), p) ELSE pidCcValidators[q]]
      /\ errors'["ccError"] = Count(IsCcError(ValidatorOf(pid), p))
  BY <1>2, <1>3 DEF Prio1Analysis, NoErrors, Errors
<1>5. /\ lost' = [lost EXCEPT ![pid] = 0]
      /\ copies' = [copies EXCEPT ![pid] =
                         IF p.cc = cc[pid] /\ lost[pid] = 0 THEN Minimum(copies[pid] + 1, 3) ELSE 1]
      /\ unfollowed' = unfollowed \ {pid} /\ outOfSync' = outOfSync \ {pid}
      /\ resumed' = IF pid \in Unchecked THEN resumed \cup {pid} ELSE resumed \ {pid}
  BY <1>2, <1>3 DEF CheckedArrival, History
<1>6. cc' = [cc EXCEPT ![pid] = p.cc] /\ esPidFilter' = esPidFilter
  BY <1>2, <1>3 DEF Arrives
<1> QED
  BY <1>2, <1>4, <1>5, <1>6 DEF CheckedArrival

LEMMA ValidatorIsTyped ==
  ASSUME CounterInv, NEW pid
  PROVE  /\ ValidatorOf(pid) \in Validators
         /\ pid \in DOMAIN pidCcValidators => ValidatorOf(pid) = pidCcValidators[pid]
         /\ pid \notin DOMAIN pidCcValidators => ~ValidatorOf(pid).hasLastCC
BY DEF ValidatorOf, CounterInv, NewValidator, Validators, CC

\* A PID whose last counter the analyzer has when a packet of it is checked is one that it
\* follows, unless packets have gone by unchecked.
LEMMA KnownIsFollowed ==
  ASSUME StreamAssumption, StreamInv, CounterInv, NEW pid \in Pids, NEW p \in PacketsOn(pid),
         NEW r \in Readings(pid), NEW c, CheckedArrival(p, r, c),
         ValidatorOf(pid).hasLastCC, pid \notin Unchecked
  PROVE  /\ Follows(ValidatorOf(pid), pid)
         /\ pid \in DOMAIN pidCcValidators /\ ValidatorOf(pid) = pidCcValidators[pid]
<1>1. pid \in DOMAIN pidCcValidators /\ ValidatorOf(pid) = pidCcValidators[pid]
  BY ValidatorIsTyped
<1>2. p.pid = pid
  BY CheckedHistory
<1>3. pid = Video => shouldProcessEsPid(esPidFilter, Video)
  BY <1>2, Routes DEF CheckedArrival, StreamInv
<1>4. pid \notin unfollowed
  BY <1>1, <1>3 DEF CounterInv, IsExcused, Unchecked
<1> QED
  BY <1>1, <1>4 DEF CounterInv

\* How the packets of a PID that is followed continue its counter.
LEMMA FollowedPackets ==
  ASSUME StreamAssumption, StreamInv, CounterInv, NEW pid \in Pids, NEW p \in PacketsOn(pid),
         NEW v \in Validators, Follows(v, pid)
  PROVE  \/ p.disc
         \/ ~p.disc /\ p.payload /\ p.cc = (v.lastCC + lost[pid] + 1) % 16
         \/ ~p.disc /\ p.cc = cc[pid] /\ p.cc = (v.lastCC + lost[pid]) % 16
            /\ (p.payload => lost[pid] = 0)
<1>1. v.lastCC \in CC /\ lost[pid] \in 0 .. 14 /\ cc[pid] \in CC
  BY DEF Validators, CounterInv, StreamInv
<1>2. NextCC(cc[pid]) = (v.lastCC + lost[pid] + 1) % 16
  BY <1>1, LossesShow DEF Follows
<1> QED
  BY <1>1, <1>2, PacketFields DEF Follows

LEMMA CountersAtCheckedArrival ==
  ASSUME StreamAssumption, StreamInv, CounterInv, NEW pid \in Pids, NEW p \in PacketsOn(pid),
         NEW r \in Readings(pid), NEW c, CheckedArrival(p, r, c)
  PROVE  CounterInv'
<1>1. PICK v \in Validators : v = ValidatorOf(pid)
  BY ValidatorIsTyped
<1>2. /\ p.pid = pid /\ p.cc \in CC /\ p.disc \in BOOLEAN /\ p.payload \in BOOLEAN
      /\ lost' = [lost EXCEPT ![pid] = 0]
      /\ copies' = [copies EXCEPT ![pid] =
                         IF p.cc = cc[pid] /\ lost[pid] = 0 THEN Minimum(copies[pid] + 1, 3) ELSE 1]
      /\ unfollowed' = unfollowed \ {pid} /\ outOfSync' = outOfSync \ {pid}
      /\ resumed' = IF pid \in Unchecked THEN resumed \cup {pid} ELSE resumed \ {pid}
      /\ cc' = [cc EXCEPT ![pid] = p.cc] /\ esPidFilter' = esPidFilter
      /\ DOMAIN pidCcValidators' = DOMAIN pidCcValidators \cup {pid}
      /\ pidCcValidators'[pid] = Validated(v, p)
      /\ \A q \in DOMAIN pidCcValidators \ {pid} : pidCcValidators'[q] = pidCcValidators[q]
  BY <1>1, CheckedHistory
<1>3. lost \in [Pids -> 0 .. 14] /\ copies \in [Pids -> 0 .. 3] /\ cc \in [Pids -> CC]
  BY DEF CounterInv, StreamInv
<1>4. lost' \in [Pids -> 0 .. 14] /\ lost'[pid] = 0 /\ cc'[pid] = p.cc
  BY <1>2, <1>3
<1>5. /\ copies' \in [Pids -> 0 .. 3] /\ copies'[pid] >= 1
      /\ copies'[pid] = 1 => \/ p.cc # cc[pid] \/ lost[pid] # 0 \/ copies[pid] = 0
  <2>1. PICK n \in 0 .. 3 : n = copies[pid]
    BY <1>3
  <2>2. Minimum(n + 1, 3) \in 1 .. 3 /\ (Minimum(n + 1, 3) = 1 => n = 0)
    BY DEF Minimum
  <2> QED
    BY <1>2, <1>3, <2>1, <2>2
<1>6. Validated(v, p) \in Validators /\ Validated(v, p).hasLastCC /\ Validated(v, p).lastCC = p.cc
  BY <1>2, ValidatedIsTyped
<1>7. ASSUME NEW q \in DOMAIN pidCcValidators'
      PROVE  pidCcValidators'[q] \in Validators
  BY <1>2, <1>6 DEF CounterInv
<1>8. ASSUME copies'[pid] = 1, pid \notin resumed'
      PROVE  ~(Validated(v, p).hasSecondLastCC /\ Validated(v, p).secondLastCC = p.cc)
  <2>1. CASE p.disc
    BY <1>2, <2>1, ValidatedIsTyped
  <2>2. CASE ~p.disc /\ ~v.hasLastCC
    BY <1>2, <2>2, ValidatedIsTyped
  <2>3. CASE ~p.disc /\ v.hasLastCC
    <3>1. pid \notin Unchecked
      BY <1>2, <1>8
    <3>2. Follows(v, pid)
      BY <1>1, <2>3, <3>1, KnownIsFollowed
    <3>3. PICK a \in CC, n \in 0 .. 14 : a = v.lastCC /\ n = lost[pid]
      BY <1>3 DEF Validators
    <3>4. CASE p.cc = (a + n + 1) % 16
      <4>1. p.cc # a
        <5>1. (a + n + 1) % 16 # a
          BY LossesShow
        <5> QED
          BY <3>4, <5>1
      <4> QED
        BY <1>2, <2>3, <3>3, <4>1, ValidatedIsTyped
    <3>5. CASE p.cc = cc[pid] /\ p.cc = (a + n) % 16
      <4>1. n # 0
        BY <1>5, <1>8, <3>2, <3>3, <3>5 DEF Follows
      <4>2. p.cc # a
        BY <3>5, <4>1, LossesShow
      <4> QED
        BY <1>2, <2>3, <3>3, <4>2, ValidatedIsTyped
    <3> QED
      BY <2>3, <3>2, <3>3, <3>4, <3>5, FollowedPackets
  <2> QED
    BY <1>2, <2>1, <2>2, <2>3
<1>9. pid \in DOMAIN pidCcValidators' /\ Follows(pidCcValidators[pid], pid)'
  <2>1. (p.cc + 0) % 16 = p.cc
    BY <1>2 DEF CC
  <2>2. /\ pidCcValidators'[pid].hasLastCC
        /\ (pidCcValidators'[pid].lastCC + lost'[pid]) % 16 = cc'[pid]
        /\ copies'[pid] >= 1
        /\ copies'[pid] = 1 /\ pid \notin resumed'
           => ~(pidCcValidators'[pid].hasSecondLastCC
                /\ pidCcValidators'[pid].secondLastCC = pidCcValidators'[pid].lastCC)
    BY <1>2, <1>4, <1>5, <1>6, <1>8, <2>1
  <2> QED
    BY <1>2, <2>2 DEF Follows
<1>10. ASSUME NEW q \in Pids, q # pid
       PROVE  /\ lost'[q] = lost[q] /\ copies'[q] = copies[q] /\ cc'[q] = cc[q]
              /\ q \in resumed' <=> q \in resumed
              /\ q \in outOfSync' <=> q \in outOfSync
              /\ q \in unfollowed' <=> q \in unfollowed
              /\ q \in DOMAIN pidCcValidators' <=> q \in DOMAIN pidCcValidators
              /\ q \in DOMAIN pidCcValidators => pidCcValidators'[q] = pidCcValidators[q]
  BY <1>2, <1>3, <1>10
<1>11. ASSUME NEW q \in Pids, q \notin unfollowed'
       PROVE  q \in DOMAIN pidCcValidators' /\ Follows(pidCcValidators[q], q)'
  <2>1. CASE q # pid
    BY <1>10, <1>11, <2>1 DEF CounterInv, Follows
  <2> QED
    BY <1>9, <2>1
<1>12. ASSUME NEW q \in Pids, q \in unfollowed'
       PROVE  IsExcused(q)'
  <2>1. q # pid
    BY <1>2, <1>12
  <2> QED
    BY <1>2, <1>10, <1>12, <2>1 DEF CounterInv, IsExcused
<1> QED
  BY <1>4, <1>5, <1>7, <1>11, <1>12 DEF CounterInv

LEMMA CountersAtUncheckedArrival ==
  ASSUME StreamAssumption, StreamInv, CounterInv, NEW pid \in Pids, NEW p \in PacketsOn(pid),
         NEW r \in Readings(pid), UncheckedArrival(p, r)
  PROVE  CounterInv'
<1>1. cc[pid] \in CC
  BY DEF StreamInv
<1>2. /\ p.pid = pid /\ p.cc \in CC
      /\ cc' = [cc EXCEPT ![pid] = p.cc] /\ esPidFilter' = esPidFilter
      /\ pidCcValidators' = pidCcValidators
      /\ lost' = [lost EXCEPT ![pid] = 0]
      /\ copies' = [copies EXCEPT ![pid] =
                         IF p.cc = cc[pid] /\ lost[pid] = 0 THEN Minimum(copies[pid] + 1, 3) ELSE 1]
      /\ unfollowed' = unfollowed \cup {pid}
      /\ outOfSync' = IF isSyncAcquired(p) THEN outOfSync \ {pid} ELSE outOfSync \cup {pid}
      /\ resumed' = resumed \ {pid}
  BY <1>1, PacketFields DEF UncheckedArrival, Arrives, History
<1>3. lost \in [Pids -> 0 .. 14] /\ copies \in [Pids -> 0 .. 3] /\ cc \in [Pids -> CC]
  BY DEF CounterInv, StreamInv
<1>4. lost' \in [Pids -> 0 .. 14]
  BY <1>2, <1>3
<1>5. copies' \in [Pids -> 0 .. 3]
  <2>1. PICK n \in 0 .. 3 : n = copies[pid]
    BY <1>3
  <2>2. Minimum(n + 1, 3) \in 0 .. 3
    BY DEF Minimum
  <2> QED
    BY <1>2, <1>3, <2>1, <2>2
<1>6. ASSUME NEW q \in Pids, q # pid
      PROVE  /\ lost'[q] = lost[q] /\ copies'[q] = copies[q] /\ cc'[q] = cc[q]
             /\ q \in resumed' <=> q \in resumed
             /\ q \in outOfSync' <=> q \in outOfSync
             /\ q \in unfollowed' <=> q \in unfollowed
  BY <1>2, <1>3, <1>6
<1>7. ASSUME NEW q \in Pids, q \notin unfollowed'
      PROVE  q \in DOMAIN pidCcValidators' /\ Follows(pidCcValidators[q], q)'
  <2>1. q # pid
    BY <1>2, <1>7
  <2> QED
    BY <1>2, <1>6, <1>7, <2>1 DEF CounterInv, Follows
<1>8. IsExcused(pid)'
  <2>1. CASE ~isSyncAcquired(p)
    BY <1>2, <2>1 DEF IsExcused
  <2>2. CASE "Pes" \in RoutesOf(mode, pat, pid) /\ ~shouldProcessEsPid(esPidFilter, pid)
    <3>1. pid # PID_PAT
      BY <2>2, Routes DEF StreamInv
    <3> QED
      BY <1>2, <2>2, <3>1 DEF IsExcused, Pids
  <2> QED
    BY <1>2, <2>1, <2>2 DEF UncheckedArrival
<1>9. ASSUME NEW q \in Pids, q \in unfollowed'
      PROVE  IsExcused(q)'
  <2>1. CASE q # pid
    BY <1>2, <1>6, <1>9, <2>1 DEF CounterInv, IsExcused
  <2> QED
    BY <1>8, <2>1
<1> QED
  BY <1>2, <1>4, <1>5, <1>7, <1>9 DEF CounterInv

LEMMA CountersAtLoss ==
  ASSUME StreamAssumption, StreamInv, CounterInv, LossStep
  PROVE  CounterInv'
<1>1. PICK pid \in Pids, burst \in Bursts :
         /\ lost[pid] = 0
         /\ cc' = [cc EXCEPT ![pid] = (@ + burst) % 16]
         /\ lost' = [lost EXCEPT ![pid] = burst]
         /\ UNCHANGED <<pidCcValidators, demuxerVars, copies, unfollowed, outOfSync, resumed>>
  BY DEF LossStep
<1>2. burst \in 0 .. 14
  BY DEF StreamAssumption
<1>3. lost' \in [Pids -> 0 .. 14]
  BY <1>1, <1>2 DEF CounterInv
<1>4. ASSUME NEW q \in Pids, q \notin unfollowed'
      PROVE  q \in DOMAIN pidCcValidators' /\ Follows(pidCcValidators[q], q)'
  <2>1. q \in DOMAIN pidCcValidators /\ Follows(pidCcValidators[q], q)
        /\ pidCcValidators[q] \in Validators
    BY <1>1, <1>4 DEF CounterInv
  <2>2. (pidCcValidators[q].lastCC + lost'[q]) % 16 = cc'[q]
    <3>1. CASE q # pid
      BY <1>1, <2>1, <3>1 DEF Follows, CounterInv, StreamInv
    <3>2. CASE q = pid
      <4>1. PICK a \in CC : a = pidCcValidators[q].lastCC
        BY <2>1 DEF Validators
      <4>2. cc[q] = a
        BY <1>1, <2>1, <3>2, <4>1 DEF Follows, CC
      <4> QED
        BY <1>1, <3>2, <4>1, <4>2 DEF CounterInv, StreamInv
    <3> QED
      BY <3>1, <3>2
  <2> QED
    BY <1>1, <2>1, <2>2 DEF Follows
<1> QED
  BY <1>1, <1>3, <1>4 DEF CounterInv, IsExcused, demuxerVars

LEMMA CountersAtFilter ==
  ASSUME StreamAssumption, CounterInv, NEW filter, SetEsPidFilter(filter)
  PROVE  CounterInv'
<1>1. /\ esPidFilter' = filter
      /\ \A q : q \in DOMAIN pidCcValidators' <=>
               /\ q \in DOMAIN pidCcValidators
               /\ shouldProcessEsPid(filter, q) => shouldProcessEsPid(esPidFilter, q)
      /\ \A q \in DOMAIN pidCcValidators' : pidCcValidators'[q] = pidCcValidators[q]
      /\ UNCHANGED <<cc, lost, copies, outOfSync, resumed>>
      /\ unfollowed' = unfollowed \cup Readmitted(Pids, esPidFilter, filter)
  BY FilterForgets
<1>2. ASSUME NEW q \in Pids
      PROVE  q \in Readmitted(Pids, esPidFilter, filter)
                <=> shouldProcessEsPid(filter, q) /\ ~shouldProcessEsPid(esPidFilter, q)
  BY DEF Readmitted
<1>3. ASSUME NEW q \in Pids, q \notin unfollowed'
      PROVE  q \in DOMAIN pidCcValidators' /\ Follows(pidCcValidators[q], q)'
  <2>1. q \notin unfollowed /\ q \in DOMAIN pidCcValidators'
    BY <1>1, <1>2, <1>3 DEF CounterInv
  <2> QED
    BY <1>1, <2>1 DEF CounterInv, Follows
<1>4. ASSUME NEW q \in Pids, q \in unfollowed'
      PROVE  IsExcused(q)'
  <2>1. CASE q \in Readmitted(Pids, esPidFilter, filter)
    BY <1>1, <1>2, <2>1 DEF IsExcused
  <2>2. CASE q \in unfollowed /\ q \notin Readmitted(Pids, esPidFilter, filter)
    BY <1>1, <1>2, <2>2 DEF CounterInv, IsExcused
  <2> QED
    BY <1>1, <1>4, <2>1, <2>2
<1> QED
  BY <1>1, <1>3, <1>4 DEF CounterInv

LEMMA CounterSteps ==
  ASSUME StreamAssumption, StreamInv, CounterInv, [Next]_vars
  PROVE  CounterInv'
<1>1. CASE CheckedStep
  BY <1>1, CountersAtCheckedArrival DEF CheckedStep
<1>2. CASE UncheckedStep
  BY <1>2, CountersAtUncheckedArrival DEF UncheckedStep
<1>3. CASE IdleStep
  BY <1>3 DEF IdleStep, CounterInv, Follows, IsExcused, historyVars, demuxerVars
<1>4. CASE LossStep
  BY <1>4, CountersAtLoss
<1>5. CASE FilterStep
  BY <1>5, CountersAtFilter DEF FilterStep
<1> QED
  BY <1>1, <1>2, <1>3, <1>4, <1>5, Steps

OnlyRealCcErrors ==
    errors'["ccError"] > 0 =>
       \E pid \in Pids :
          /\ checked' # <<>> /\ checked'[1].pid = pid
          /\ \/ lost[pid] > 0 \/ copies'[pid] = 3
             \/ pid \in Unchecked
             \/ pid \in resumed /\ copies'[pid] = 2

OnlyCountedLosses ==
    \A pid \in Pids :
       /\ checked' = <<[pid |-> pid, counted |-> TRUE]>>
       /\ lost[pid] > 0 /\ pid \notin unfollowed
       => errors'["ccError"] = 1

\* A step that checks nothing counts no error.
LEMMA UncountedSteps ==
  ASSUME StreamAssumption, StreamInv, [Next]_vars, ~CheckedStep
  PROVE  UNCHANGED vars \/ (checked' = <<>> /\ ~(errors'["ccError"] > 0))
<1>1. CASE UncheckedStep
  BY <1>1 DEF UncheckedStep, UncheckedArrival
<1>2. CASE IdleStep
  BY <1>2 DEF IdleStep
<1>3. CASE LossStep
  BY <1>3 DEF LossStep, NoErrors, Errors
<1>4. CASE FilterStep
  <2>1. errors' = NoErrors /\ checked' = <<>>
    BY <1>4, FilterForgets DEF FilterStep
  <2> QED
    BY <2>1 DEF NoErrors, Errors
<1> QED
  BY <1>1, <1>2, <1>3, <1>4, Steps

LEMMA CcErrorsAtArrival ==
  ASSUME StreamAssumption, StreamInv, CounterInv, NEW pid \in Pids, NEW p \in PacketsOn(pid),
         NEW r \in Readings(pid), NEW c, CheckedArrival(p, r, c)
  PROVE  OnlyRealCcErrors
<1>1. PICK v \in Validators : v = ValidatorOf(pid)
  BY ValidatorIsTyped
<1>2. /\ errors'["ccError"] = Count(IsCcError(v, p))
      /\ checked' = <<[pid |-> pid, counted |-> p.payload /\ ~p.disc]>>
      /\ copies' = [copies EXCEPT ![pid] =
                         IF p.cc = cc[pid] /\ lost[pid] = 0 THEN Minimum(copies[pid] + 1, 3) ELSE 1]
  BY <1>1, CheckedHistory
<1>3. checked' # <<>> /\ checked'[1].pid = pid
  BY <1>2
<1>4. SUFFICES ASSUME errors'["ccError"] > 0, ~(lost[pid] > 0), copies'[pid] # 3,
                      pid \notin Unchecked, ~(pid \in resumed /\ copies'[pid] = 2)
               PROVE  FALSE
  BY <1>3 DEF OnlyRealCcErrors
<1>5. IsCcError(v, p)
  BY <1>2, <1>4 DEF Count
<1>6. v.hasLastCC /\ ~p.disc
  BY <1>5 DEF IsCcError
<1>7. Follows(v, pid)
  BY <1>1, <1>4, <1>6, KnownIsFollowed
<1>8. PICK a \in CC : a = v.lastCC
  BY DEF Validators
<1>9. lost[pid] = 0 /\ copies \in [Pids -> 0 .. 3]
  BY <1>4 DEF CounterInv
<1>10. /\ a % 16 = a /\ (a + 0) % 16 = a /\ (a + 0 + 1) % 16 = NextCC(a)
  BY DEF CC, NextCC
<1>11. cc[pid] = a
  BY <1>7, <1>8, <1>9, <1>10 DEF Follows
<1>12. \/ p.payload /\ p.cc = NextCC(a)
       \/ p.cc = a
  BY <1>6, <1>7, <1>8, <1>9, <1>10, FollowedPackets
<1>13. CASE p.payload /\ p.cc = NextCC(a)
  BY <1>5, <1>8, <1>13 DEF IsCcError
<1>14. CASE p.cc = a
  <2>1. p.payload /\ v.hasSecondLastCC /\ v.secondLastCC = v.lastCC
    BY <1>5, <1>8, <1>14 DEF IsCcError
  <2>2. PICK n \in 0 .. 3 : n = copies[pid]
    BY <1>9
  <2>3. copies'[pid] = Minimum(n + 1, 3)
    BY <1>2, <1>9, <1>11, <1>14, <2>2
  <2>4. Minimum(n + 1, 3) = 3 \/ n = 1 \/ n = 0
    BY DEF Minimum
  <2>5. Minimum(1 + 1, 3) = 2
    BY DEF Minimum
  <2>6. n = 1 /\ pid \notin resumed
    BY <1>4, <1>7, <2>2, <2>3, <2>4, <2>5 DEF Follows
  <2> QED
    BY <1>7, <2>1, <2>2, <2>6 DEF Follows
<1> QED
  BY <1>12, <1>13, <1>14

LEMMA LossesAtArrival ==
  ASSUME StreamAssumption, StreamInv, CounterInv, NEW pid \in Pids, NEW p \in PacketsOn(pid),
         NEW r \in Readings(pid), NEW c, CheckedArrival(p, r, c)
  PROVE  OnlyCountedLosses
<1>1. PICK v \in Validators : v = ValidatorOf(pid)
  BY ValidatorIsTyped
<1>2. /\ errors'["ccError"] = Count(IsCcError(v, p))
      /\ checked' = <<[pid |-> pid, counted |-> p.payload /\ ~p.disc]>>
      /\ p.payload \in BOOLEAN /\ p.disc \in BOOLEAN
  BY <1>1, CheckedHistory
<1>3. SUFFICES ASSUME NEW q \in Pids, checked' = <<[pid |-> q, counted |-> TRUE]>>,
                      lost[q] > 0, q \notin unfollowed
               PROVE  errors'["ccError"] = 1
  BY DEF OnlyCountedLosses
<1>4. q = pid /\ p.payload /\ ~p.disc
  <2>1. checked'[1].pid = pid /\ checked'[1].counted = (p.payload /\ ~p.disc)
    BY <1>2
  <2>2. checked'[1].pid = q /\ checked'[1].counted = TRUE
    BY <1>3
  <2> QED
    BY <1>2, <2>1, <2>2
<1>5. pid \in DOMAIN pidCcValidators /\ Follows(v, pid)
  BY <1>1, <1>3, <1>4, ValidatorIsTyped DEF CounterInv
<1>6. PICK a \in CC, n \in 0 .. 14 : a = v.lastCC /\ n = lost[pid]
  BY DEF Validators, CounterInv
<1>7. p.cc = (a + n + 1) % 16 /\ n # 0
  BY <1>3, <1>4, <1>5, <1>6, FollowedPackets
<1>8. p.cc # a /\ p.cc # NextCC(a)
  <2>1. (a + n + 1) % 16 # a /\ ((a + n + 1) % 16 = NextCC(a) <=> n = 0)
    BY LossesShow
  <2> QED
    BY <1>7, <2>1
<1>9. IsCcError(v, p)
  BY <1>4, <1>5, <1>6, <1>8 DEF IsCcError, Follows
<1> QED
  BY <1>2, <1>9 DEF Count

\* The counters that the analyzer keeps are those of the channel, up to what was lost since
\* (TSContinuityCounter: lastCC, secondLastCC).
THEOREM CountersFollowTheChannel ==
  ASSUME StreamAssumption
  PROVE  Spec => [](StreamInv /\ CounterInv)
<1>1. Init => StreamInv /\ CounterInv
  BY TimesInitially, CountersInitially
<1>2. StreamInv /\ CounterInv /\ [Next]_vars => (StreamInv /\ CounterInv)'
  BY StreamSteps, CounterSteps
<1> QED
  BY <1>1, <1>2, PTL DEF Spec

\* validateContinuityCounter counts an error only for a loss, a third copy, or a PID of which
\* packets went by unchecked, for any number of losses, copies, corrupted packets and changes
\* of the filter.
THEOREM CountedErrorsAreReal ==
  ASSUME StreamAssumption
  PROVE  Spec => CcErrorsAreReal
<1>1. StreamInv /\ CounterInv /\ [Next]_vars => [OnlyRealCcErrors]_vars
  <2>1. SUFFICES ASSUME StreamInv, CounterInv, [Next]_vars
                 PROVE  [OnlyRealCcErrors]_vars
    OBVIOUS
  <2>2. CASE CheckedStep
    BY <2>1, <2>2, CcErrorsAtArrival DEF CheckedStep
  <2>3. CASE ~CheckedStep
    BY <2>1, <2>3, UncountedSteps DEF OnlyRealCcErrors
  <2> QED
    BY <2>2, <2>3
<1>2. [][OnlyRealCcErrors]_vars => CcErrorsAreReal
  BY DEF OnlyRealCcErrors, CcErrorsAreReal
<1> QED
  BY <1>1, <1>2, CountersFollowTheChannel, PTL DEF Spec

\* No loss of up to 14 packets of a PID that is followed goes uncounted with the next payload
\* packet without the discontinuity flag, however the bursts, copies and filters come.
THEOREM FollowedLossesAreCounted ==
  ASSUME StreamAssumption
  PROVE  Spec => LossIsCounted
<1>1. StreamInv /\ CounterInv /\ [Next]_vars => [OnlyCountedLosses]_vars
  <2>1. SUFFICES ASSUME StreamInv, CounterInv, [Next]_vars
                 PROVE  [OnlyCountedLosses]_vars
    OBVIOUS
  <2>2. CASE CheckedStep
    BY <2>1, <2>2, LossesAtArrival DEF CheckedStep
  <2>3. CASE ~CheckedStep
    BY <2>1, <2>3, UncountedSteps DEF OnlyCountedLosses
  <2> QED
    BY <2>2, <2>3
<1>2. [][OnlyCountedLosses]_vars => LossIsCounted
  BY DEF OnlyCountedLosses, LossIsCounted
<1> QED
  BY <1>1, <1>2, CountersFollowTheChannel, PTL DEF Spec

=============================================================================
