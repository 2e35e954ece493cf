------------------------- MODULE TSTr101290Analyzer -------------------------
(***************************************************************************)
(* TSTr101290Analyzer: the first priority checks of ETSI TR 101 290 on the *)
(* packets that a demuxer receives.                                        *)
(*                                                                         *)
(* A packet is a record with the fields                                    *)
(*   pid, cc     of its header                                             *)
(*   sync        its sync byte is 0x47                                     *)
(*   scrambled   its scrambling control field is not 00                    *)
(*   payload     its adaptation mode has a payload (and is not reserved)   *)
(*   disc        the discontinuity flag of its adaptation field            *)
(* and its context a record with                                           *)
(*   pat         <<programmes>>, or <<>> for nil                           *)
(*   pmts        the streams of every PMT, by the PID of the PMT           *)
(*   nowMs       the time of its arrival                                   *)
(*   sections    <<[kind, pid]>>, those that it completed                  *)
(*   esPidFilter                                                           *)
(* Of the streams of a PMT only those that checkPidError monitors count:   *)
(* video, and audio without an ISO 639 audio type.  Times come from a      *)
(* monotonic clock: nowMs never falls behind a time kept here.             *)
(***************************************************************************)
EXTENDS TSContinuityChecker, PacketRouting, Sequences, FiniteSets

CONSTANTS
    TR101290_PAT_PMT_INTERVAL_MS,
    TR101290_PID_INTERVAL_MS,
    intervalCheckThrottleMs

ASSUME IntervalAssumption ==
    /\ {TR101290_PAT_PMT_INTERVAL_MS, TR101290_PID_INTERVAL_MS} \subseteq Nat \ {0}
    /\ intervalCheckThrottleMs \in Nat \ {0}

VARIABLES
    numConsecutiveSyncBytes,            \* counted up to SyncBytesToAcquire
    numConsecutiveCorruptedSyncBytes,   \* counted up to CorruptedToLose
    sectionLastSeenMs,                  \* the time per PID, for the PIDs that have one
    intervalErrorLastReportedMs,
    pidLastSeenMs,
    pidCcValidators,                    \* the TSContinuityCounter of a PID that has one
    lastIntervalCheckMs,
    errors                              \* what this step adds to stats.prio1

analyzerVars == <<numConsecutiveSyncBytes, numConsecutiveCorruptedSyncBytes, sectionLastSeenMs,
                  intervalErrorLastReportedMs, pidLastSeenMs, pidCcValidators,
                  lastIntervalCheckMs, errors>>

SyncBytesToAcquire == 5
CorruptedToLose == 2

Errors == {"tsSyncLoss", "syncByteError", "patError", "pmtError", "ccError", "pidError"}
NoErrors == [e \in Errors |-> 0]

NoTimes == [pid \in {} |-> 0]

\* init, and nothing but so many sync bytes since.
AnalyzerInit(syncBytes) ==
    /\ numConsecutiveSyncBytes = syncBytes /\ numConsecutiveCorruptedSyncBytes = 0
    /\ sectionLastSeenMs = NoTimes /\ intervalErrorLastReportedMs = NoTimes
    /\ pidLastSeenMs = NoTimes /\ pidCcValidators = NoTimes
    /\ lastIntervalCheckMs = 0 /\ errors = NoErrors

\* times, with the PIDs of a set at time t.
Stamp(times, pids, t) ==
    [pid \in DOMAIN times \cup pids |-> IF pid \in pids THEN t ELSE times[pid]]

Without(times, pids) == Restrict(times, DOMAIN times \ pids)

Count(condition) == IF condition THEN 1 ELSE 0

Minimum(a, b) == IF a < b THEN a ELSE b

-----------------------------------------------------------------------------
(* TSContinuityCounter *)

Validators == [hasLastCC : BOOLEAN, hasSecondLastCC : BOOLEAN, lastCC : CC, secondLastCC : CC]

NewValidator ==
    [hasLastCC |-> FALSE, hasSecondLastCC |-> FALSE, lastCC |-> 0, secondLastCC |-> 0]

IsCcErrorBehind(v, p) ==
    v.hasLastCC /\ ~p.disc /\ p.payload /\ (16 + p.cc - v.lastCC) % 16 > 8

\* A payload packet follows the last one, or is its second copy, never its third; another
\* packet repeats the counter.
IsCcError(v, p) ==
    LET isDuplicate       == p.cc = v.lastCC
        tooManyDuplicates == v.hasSecondLastCC /\ v.secondLastCC = v.lastCC
    IN  /\ v.hasLastCC /\ ~p.disc
        /\ IF p.payload THEN p.cc # NextCC(v.lastCC) /\ (isDuplicate => tooManyDuplicates)
                        ELSE ~isDuplicate

\* Whatever the verdict; a discontinuity starts over.
Validated(v, p) ==
    IF p.disc
    THEN [v EXCEPT !.hasSecondLastCC = FALSE, !.hasLastCC = TRUE, !.lastCC = p.cc]
    ELSE [hasLastCC |-> TRUE, hasSecondLastCC |-> v.hasLastCC,
          lastCC |-> p.cc, secondLastCC |-> v.lastCC]

ValidatorOf(pid) == IF pid \in DOMAIN pidCcValidators THEN pidCcValidators[pid] ELSE NewValidator

-----------------------------------------------------------------------------
(* The checks *)

SyncBytes(p) == IF p.sync THEN Minimum(numConsecutiveSyncBytes + 1, SyncBytesToAcquire) ELSE 0

CorruptedSyncBytes(p) ==
    IF p.sync THEN 0 ELSE Minimum(numConsecutiveCorruptedSyncBytes + 1, CorruptedToLose)

\* Asked when the sync byte of p has been counted.
isSyncAcquired(p) == SyncBytes(p) >= SyncBytesToAcquire

shouldRunIntervalCheck(nowMs) == nowMs - lastIntervalCheckMs >= intervalCheckThrottleMs

\* The PIDs that carry a PMT according to the PAT, the network PID excepted.
PmtPids(c) ==
    IF c.pat = <<>> THEN {}
    ELSE {c.pat[1][n] : n \in DOMAIN c.pat[1] \ {PROGRAM_NUMBER_NETWORK_INFO}}

SectionPids(c) == {PID_PAT} \cup PmtPids(c)

TableOf(pid) == IF pid = PID_PAT THEN "PAT" ELSE "PMT"

\* The PIDs on which p completed a section of their table, and how many others it did on PID 0.
SectionSeenOn(c) ==
    {pid \in SectionPids(c) : \E i \in DOMAIN c.sections :
        c.sections[i] = [kind |-> TableOf(pid), pid |-> pid]}

WrongSections(c) ==
    Cardinality({i \in DOMAIN c.sections : c.sections[i].pid = PID_PAT /\ c.sections[i].kind # "PAT"})

IsOlder(times, pid, nowMs, thresholdMs) == nowMs - times[pid] > thresholdMs

SectionTimesBefore(c) == sectionLastSeenMs

\* Sections are stamped before they are missed; a PID that never had one is given time.
SectionTimes(c) == Stamp(sectionLastSeenMs, SectionSeenOn(c), c.nowMs)

LateSectionsOnce(c) ==
    {pid \in SectionPids(c) \cap DOMAIN SectionTimes(c) :
        /\ IsOlder(SectionTimes(c), pid, c.nowMs, TR101290_PAT_PMT_INTERVAL_MS)
        /\ pid \notin DOMAIN intervalErrorLastReportedMs}

LateSections(c) ==
    {pid \in SectionPids(c) \cap DOMAIN SectionTimes(c) :
        /\ IsOlder(SectionTimes(c), pid, c.nowMs, TR101290_PAT_PMT_INTERVAL_MS)
        /\ pid \in DOMAIN intervalErrorLastReportedMs =>
              IsOlder(intervalErrorLastReportedMs, pid, c.nowMs, TR101290_PAT_PMT_INTERVAL_MS)}

MonitoredPids(c) ==
    {pid \in UNION Range(c.pmts) : shouldProcessEsPid(c.esPidFilter, pid)}

SilentPids(c) ==
    {pid \in MonitoredPids(c) \cap DOMAIN pidLastSeenMs :
        IsOlder(pidLastSeenMs, pid, c.nowMs, TR101290_PID_INTERVAL_MS)}

\* performPrio1Analysis on a packet that is not a null packet, in synchronization.
Prio1Analysis(p, c) ==
    LET check   == shouldRunIntervalCheck(c.nowMs)
        late    == IF check THEN LateSections(c) ELSE {}
        silent  == IF check THEN SilentPids(c) ELSE {}
        started == IF check THEN SectionPids(c) \ DOMAIN SectionTimes(c) ELSE {}
        sighted == IF check THEN MonitoredPids(c) \ DOMAIN pidLastSeenMs ELSE {}
    IN  /\ lastIntervalCheckMs' = IF check THEN c.nowMs ELSE lastIntervalCheckMs
        /\ sectionLastSeenMs' = Stamp(SectionTimes(c), started, c.nowMs)
        /\ intervalErrorLastReportedMs' = Stamp(intervalErrorLastReportedMs, late, c.nowMs)
        /\ pidCcValidators' =
              [pid \in DOMAIN pidCcValidators \cup {p.pid} |->
                  IF pid = p.pid THEN Validated(ValidatorOf(pid), p) ELSE pidCcValidators[pid]]
        /\ pidLastSeenMs' = Stamp(pidLastSeenMs, silent \cup sighted \cup {p.pid}, c.nowMs)
        /\ errors' =
              [NoErrors EXCEPT
                  !["syncByteError"] = Count(~p.sync),
                  !["patError"] = WrongSections(c) + Count(PID_PAT \in late)
                                      + Count(p.scrambled /\ p.pid = PID_PAT),
                  !["pmtError"] = Cardinality(late \ {PID_PAT})
                                      + Count(p.scrambled /\ p.pid \in PmtPids(c)),
                  !["ccError"] = Count(IsCcError(ValidatorOf(p.pid), p)),
                  !["pidError"] = Cardinality(silent)]

analyzeTsPacket(p, c) ==
    /\ numConsecutiveSyncBytes' = SyncBytes(p)
    /\ numConsecutiveCorruptedSyncBytes' = CorruptedSyncBytes(p)
    /\ IF p.pid # PID_NULL_PACKET /\ isSyncAcquired(p)
       THEN Prio1Analysis(p, c)
       ELSE /\ errors' = [NoErrors EXCEPT !["tsSyncLoss"] =
                              Count(CorruptedSyncBytes(p) >= CorruptedToLose)]
            /\ UNCHANGED <<sectionLastSeenMs, intervalErrorLastReportedMs, pidLastSeenMs,
                           pidCcValidators, lastIntervalCheckMs>>

ReadmittedToFilter(pids, oldFilter, newFilter) ==
    {pid \in pids \cap newFilter : ~shouldProcessEsPid(oldFilter, pid)}

\* What is kept of the PIDs that the old filter excluded and the new one lets pass is stale.
Readmitted(pids, oldFilter, newFilter) ==
    {pid \in pids : ~shouldProcessEsPid(oldFilter, pid) /\ shouldProcessEsPid(newFilter, pid)}

handleFilterChange(oldFilter, newFilter) ==
    /\ pidCcValidators' =
          Without(pidCcValidators, Readmitted(DOMAIN pidCcValidators, oldFilter, newFilter))
    /\ pidLastSeenMs' =
          Without(pidLastSeenMs, Readmitted(DOMAIN pidLastSeenMs, oldFilter, newFilter))
    /\ errors' = NoErrors
    /\ UNCHANGED <<numConsecutiveSyncBytes, numConsecutiveCorruptedSyncBytes, sectionLastSeenMs,
                   intervalErrorLastReportedMs, lastIntervalCheckMs>>

=============================================================================
