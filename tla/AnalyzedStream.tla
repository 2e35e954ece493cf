--------------------------- MODULE AnalyzedStream ---------------------------
(***************************************************************************)
(* A program with one video stream, over a channel that loses, repeats and *)
(* corrupts packets, as the demuxer hands it to the TR 101 290 analyzer:   *)
(* the packets of a stream that the filter excludes are kept from it, and  *)
(* the client changes the filter.                                          *)
(***************************************************************************)
EXTENDS TSTr101290Analyzer

CONSTANTS
    mode,
    Program,        \* the PID of the PMT
    Video,          \* the PID of the stream
    Filters,        \* what the client may set as the filter; {} is nil
    Bursts,         \* how many packets in a row are lost
    Budgets         \* BOUNDS, one of which a behaviour keeps: [delays, how much time may pass
                    \* before a packet, packets, faults of the channel, changes of the filter]

ASSUME StreamAssumption ==
    /\ mode \in Modes /\ Program # Video /\ ~isCustomPidInvalid(Program) /\ ~isCustomPidInvalid(Video)
    /\ Bursts \subseteq 1 .. 14
    /\ Budgets \subseteq [delays : SUBSET Nat, packets : Nat, faults : Nat, changes : Nat]

Pids == {PID_PAT, Program, Video}

VARIABLES
    now,
    pat, pmts, esPidFilter,     \* of the demuxer
    cc,             \* of the last packet sent on a PID
    budget,         \* what is left of it
    checked,        \* <<[pid, counted]>> for the packet that passed the checks in this step, and
                    \* whether its counter was to follow the one before
    lost,           \* packets of a PID lost since the last one that arrived
    copies,         \* packets of a PID, up to 3, that came in a row with the same counter
    unfollowed,     \* PIDs whose last packet was not checked, or whose state was reset since
    outOfSync,      \* PIDs whose last packet arrived while there was no synchronization
    resumed,        \* PIDs whose last packet was the first one checked behind unchecked ones
    heard,          \* when the table of a PID, or a packet of the stream, arrived last in sync
    watched         \* <<when the sections were first checked>>

demuxerVars == <<pat, pmts, esPidFilter>>
historyVars == <<lost, copies, unfollowed, outOfSync, resumed, heard, watched>>
vars == <<analyzerVars, now, demuxerVars, cc, budget, checked, historyVars>>

\* The program comes and goes with the PAT, the stream with the PMT.
ThePat == <<[n \in {1} |-> Program]>>

\* A PAT, a PMT and three null packets came first: no packet is checked before the fifth, and
\* null packets never are.
Init ==
    /\ AnalyzerInit(SyncBytesToAcquire)
    /\ now = 0 /\ pat = ThePat /\ pmts = [n \in {1} |-> {Video}] /\ esPidFilter = {}
    /\ cc = [pid \in Pids |-> 0] /\ budget \in Budgets /\ checked = <<>>
    /\ lost = [pid \in Pids |-> 0] /\ copies = [pid \in Pids |-> Count(pid # Video)]
    /\ unfollowed = Pids /\ outOfSync = Pids \ {Video} /\ resumed = {}
    /\ heard = [pid \in Pids |-> 0] /\ watched = <<>>

-----------------------------------------------------------------------------
(* Packets *)

\* What the tables in a packet make of the demuxer's PAT and PMTs.  Taking the program or the
\* stream away is one of the changes, a table on the wrong PID one of the faults.
Readings(pid) ==
    LET reading(sections, newPat, newPmts, change, fault) ==
            [sections |-> sections, pat |-> newPat, pmts |-> newPmts,
             change |-> change, fault |-> fault]
        on(kind) == <<[kind |-> kind, pid |-> pid]>>
    IN  {reading(<<>>, pat, pmts, 0, 0)} \cup
        IF pid = PID_PAT
        THEN {reading(on("PAT"), t, pmts, Count(t # ThePat), 0) : t \in {ThePat, <<NoTimes>>}}
                \cup {reading(on("SDT"), pat, pmts, 0, 1)}
        ELSE IF "Table" \in RoutesOf(mode, pat, pid)
        THEN {reading(on("PMT"), pat, [n \in {1} |-> streams], Count(streams = {}), 0) :
                 streams \in {{}, {Video}}}
        ELSE {}

\* A packet arrives, on a PID, with the next counter, or without payload with the last one,
\* or as a copy of the last one; a discontinuity flag comes with any counter.
PacketsOn(pid) ==
    LET packet(next, payload, disc, sync) ==
            [pid |-> pid, cc |-> next, sync |-> sync, scrambled |-> FALSE, payload |-> payload,
             disc |-> disc]
    IN  {packet(NextCC(cc[pid]), TRUE, FALSE, TRUE)}
            \cup IF budget.faults = 0 THEN {}
                 ELSE {packet(NextCC(cc[pid]), TRUE, FALSE, FALSE),
                       packet((cc[pid] + 5) % 16, TRUE, TRUE, TRUE),
                       packet(cc[pid], FALSE, FALSE, TRUE)}
                        \cup IF copies[pid] > 0 /\ lost[pid] = 0
                             THEN {packet(cc[pid], TRUE, FALSE, TRUE)} ELSE {}

IsFault(p) == ~p.sync \/ p.disc \/ p.cc = cc[p.pid]

\* PIDs whose packets go by unchecked while the state of their counter is kept.
Unchecked == outOfSync \cup (unfollowed \cap {Program})

History(p, sections, time, isChecked) ==
    LET isHeard == isSyncAcquired(p) /\ (p.pid = Video \/
                     \E i \in DOMAIN sections : sections[i].kind = TableOf(p.pid))
    IN  /\ lost' = [lost EXCEPT ![p.pid] = 0]
        /\ copies' = [copies EXCEPT ![p.pid] =
                         IF p.cc = cc[p.pid] /\ lost[p.pid] = 0 THEN Minimum(@ + 1, 3) ELSE 1]
        /\ unfollowed' = IF isChecked THEN unfollowed \ {p.pid} ELSE unfollowed \cup {p.pid}
        /\ outOfSync' = IF isSyncAcquired(p) THEN outOfSync \ {p.pid} ELSE outOfSync \cup {p.pid}
        /\ resumed' = IF isChecked /\ p.pid \in Unchecked
                      THEN resumed \cup {p.pid} ELSE resumed \ {p.pid}
        /\ heard' = IF isHeard THEN [heard EXCEPT ![p.pid] = time] ELSE heard
        /\ watched' = IF watched = <<>> /\ isChecked /\ time >= intervalCheckThrottleMs
                      THEN <<time>> ELSE watched

\* routeTsPacket and the rest of demux.
Arrive(p, reading, delay) ==
    LET isPes    == "Pes" \in RoutesOf(mode, pat, p.pid)
        received == ~isPes \/ shouldProcessEsPid(esPidFilter, p.pid)
        context(byPid) == [pat |-> reading.pat, pmts |-> byPid, nowMs |-> now + delay,
                           sections |-> reading.sections, esPidFilter |-> esPidFilter]
        spent    == [budget EXCEPT !.packets = @ - 1, !.changes = @ - reading.change,
                                   !.faults = @ - Count(IsFault(p)) - reading.fault]
    IN  /\ {spent.packets, spent.changes, spent.faults} \subseteq Nat
        /\ now' = now + delay
        /\ pat' = reading.pat /\ pmts' = reading.pmts
        /\ cc' = [cc EXCEPT ![p.pid] = p.cc]
        /\ budget' = spent
        /\ \/ /\ received
              /\ \E byPid \in PmtMapsByPid(reading.pat, reading.pmts) : analyzeTsPacket(p, context(byPid))
           \/ /\ ~received
              /\ errors' = NoErrors
              /\ UNCHANGED <<numConsecutiveSyncBytes, numConsecutiveCorruptedSyncBytes,
                             sectionLastSeenMs, intervalErrorLastReportedMs, pidLastSeenMs,
                             pidCcValidators, lastIntervalCheckMs>>
        /\ LET isChecked == received /\ isSyncAcquired(p)
           IN  /\ checked' = IF isChecked
                             THEN <<[pid |-> p.pid, counted |-> p.payload /\ ~p.disc]>> ELSE <<>>
               /\ History(p, reading.sections, now + delay, isChecked)
        /\ UNCHANGED esPidFilter

NullPacket ==
    LET p == [pid |-> PID_NULL_PACKET, cc |-> 0, sync |-> TRUE, scrambled |-> FALSE,
              payload |-> TRUE, disc |-> FALSE]
    IN  /\ \E byPid \in PmtMapsByPid(pat, pmts) :
              analyzeTsPacket(p, [pat |-> pat, pmts |-> byPid, nowMs |-> now, sections |-> <<>>,
                                  esPidFilter |-> esPidFilter])
        /\ checked' = <<>>
        /\ UNCHANGED <<now, demuxerVars, cc, budget, historyVars>>

Lose(pid, burst) ==
    /\ budget.faults > 0 /\ lost[pid] = 0
    /\ cc' = [cc EXCEPT ![pid] = (@ + burst) % 16]
    /\ lost' = [lost EXCEPT ![pid] = burst]
    /\ budget' = [budget EXCEPT !.faults = @ - 1] /\ errors' = NoErrors /\ checked' = <<>>
    /\ UNCHANGED <<numConsecutiveSyncBytes, numConsecutiveCorruptedSyncBytes, sectionLastSeenMs,
                   intervalErrorLastReportedMs, pidLastSeenMs, pidCcValidators,
                   lastIntervalCheckMs, now, demuxerVars, copies, unfollowed,
                   outOfSync, resumed, heard, watched>>

\* setEsPidFilter
SetEsPidFilter(filter) ==
    /\ budget.changes > 0
    /\ handleFilterChange(esPidFilter, filter)
    /\ esPidFilter' = filter /\ budget' = [budget EXCEPT !.changes = @ - 1]
    /\ unfollowed' = unfollowed \cup Readmitted(Pids, esPidFilter, filter)
    /\ checked' = <<>>
    /\ UNCHANGED <<now, pat, pmts, cc, lost, copies, outOfSync, resumed, heard, watched>>

Next ==
    \/ \E pid \in Pids : \E p \in PacketsOn(pid), reading \in Readings(pid), delay \in budget.delays :
          Arrive(p, reading, delay)
    \/ NullPacket
    \/ \E pid \in Pids, burst \in Bursts : Lose(pid, burst)
    \/ \E filter \in Filters \ {esPidFilter} : SetEsPidFilter(filter)

Spec == Init /\ [][Next]_vars

-----------------------------------------------------------------------------
(* Properties *)

\* A continuity error is counted only where the channel lost a packet, or delivered the same
\* counter three times, or where packets went by unchecked without synchronization: never for
\* the packets of a stream that a filter kept from the analyzer (handleFilterChange:
\* "preventing false positives from stale CC and last-seen state").  A PID whose packets the
\* filter kept from it and that a PAT then makes the PID of a PMT is not reset.  The second
\* packet behind unchecked ones is an error, too, if it is the copy of the first and that has
\* by chance the counter that was checked last before them.
CcErrorsAreReal ==
    [][errors'["ccError"] > 0 =>
          \E pid \in Pids :
             /\ checked' # <<>> /\ checked'[1].pid = pid
             /\ \/ lost[pid] > 0 \/ copies'[pid] = 3
                \/ pid \in Unchecked
                \/ pid \in resumed /\ copies'[pid] = 2]_vars

\* A loss of up to 14 packets is counted with the next payload packet, unless that carries the
\* discontinuity flag, or the PID was not followed: its last packet was not checked, or a
\* change of the filter has reset its state.
LossIsCounted ==
    [][\A pid \in Pids :
          /\ checked' = <<[pid |-> pid, counted |-> TRUE]>>
          /\ lost[pid] > 0 /\ pid \notin unfollowed
          => errors'["ccError"] = 1]_vars

\* An interval error is counted for a table that did not come for the interval, and a PID
\* error for a stream of which no packet came, whether or not the filter excluded some.
IntervalErrorsAreReal ==
    [][/\ \A pid \in {PID_PAT, Program} :
             /\ pid \in DOMAIN intervalErrorLastReportedMs'
             /\ intervalErrorLastReportedMs' # intervalErrorLastReportedMs
             /\ intervalErrorLastReportedMs'[pid] = now'
             => now' - heard'[pid] > TR101290_PAT_PMT_INTERVAL_MS
       /\ errors'["pidError"] > 0 => now' - heard[Video] > TR101290_PID_INTERVAL_MS]_vars

\* While packets pass the checks, a PAT that has been missing for longer than the interval and
\* the time between two checks is on record: an error was counted in the last such time.
PatSilenceIsReported ==
    LET span == TR101290_PAT_PMT_INTERVAL_MS + intervalCheckThrottleMs
    IN  /\ checked # <<>> /\ watched # <<>>
        /\ now - watched[1] > span /\ now - heard[PID_PAT] > span
        => /\ PID_PAT \in DOMAIN intervalErrorLastReportedMs
           /\ now - intervalErrorLastReportedMs[PID_PAT] <= span

\* In synchronization a sync byte that is not 0x47 is counted (TSTr101290Statistics.h: "Ts
\* packet header sync byte not 0x47").
SyncByteErrorsAreCounted ==
    [][/\ numConsecutiveSyncBytes = SyncBytesToAcquire
       /\ numConsecutiveCorruptedSyncBytes' > numConsecutiveCorruptedSyncBytes
       => errors'["syncByteError"] = 1]_vars

=============================================================================
