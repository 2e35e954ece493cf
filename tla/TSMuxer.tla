------------------------------ MODULE TSMuxer ------------------------------
(***************************************************************************)
(* TSMuxer: access units are queued in DTS order and leave as 188-byte     *)
(* transport packets, one delegate callback each.  A tick in VBR mode      *)
(* flushes the queue; a tick in CBR mode emits as many packets as the      *)
(* target bitrate has had time for, and the byte position is the clock.    *)
(*                                                                         *)
(* One step of the specification is one delegate callback or one branch of *)
(* the loop of tick that makes none, so that the client may be given       *)
(* control inside a tick (ReentrantEnqueue).  `pc` says where tick is.     *)
(*                                                                         *)
(* Units.  CBR: transport time is counted in packets on the wire, so that  *)
(* cbrNanosElapsed is numTsPacketsEmitted and expectedPacketCount is the   *)
(* wall clock since the start.  VBR: any unit of the wall clock.           *)
(***************************************************************************)
EXTENDS Integers, Sequences, FiniteSets, TSConstants, TSContinuityChecker

CONSTANTS
    SettingsSpace,     \* the settings a client may pass to initWithSettings
    AuPids,            \* the PIDs of the access units it enqueues
    Times,             \* the decode times of those units
    AuPacketCounts,    \* how many transport packets a unit may take
    ReentrantEnqueue,  \* may the delegate enqueue from inside its callback?
    StartClocks,       \* what the wall clock may read at first
    MaxClock,          \* BOUND on the wall clock
    MaxAccessUnits     \* BOUND on the number of units enqueued

\* PMT and null packets carry no time; an access unit may have neither DTS nor PTS.
NoTime == -1
NeverSent == -1    \* kNeverSent
NoPcr == -1        \* kNoPcr

ASSUME ClockAssumption ==
    /\ MaxClock \in Nat /\ StartClocks \subseteq 0 .. MaxClock
    /\ MaxAccessUnits \in Nat
ASSUME InputAssumption ==
    /\ AuPids \subseteq Nat
    /\ Times \subseteq Nat
    /\ AuPacketCounts \subseteq Nat \ {0}
    /\ ReentrantEnqueue \in BOOLEAN

\* A target bitrate above 0 is cbr, and its value is the unit of time; the intervals are in
\* that unit.
TSMuxerSettings ==
    [pmtPid : Nat, pcrPid : Nat, videoPid : Nat, audioPid : Nat, cbr : BOOLEAN,
     psiInterval : Nat, pcrInterval : Nat, maxNumQueuedAccessUnits : Nat]

ASSUME SettingsAssumption == SettingsSpace \subseteq TSMuxerSettings

VARIABLES
    settings,              \* copied at init, never changed afterwards
    wallClock,             \* what wallClockNanos() returns
    pc,                    \* where tick is, "idle" outside it
    now,                   \* nowNanos of the current loop iteration
    expected,              \* expectedNumTsPacketsEmitted of the current CBR tick
    accessUnits,           \* the queue
    versionNumber,         \* version of the PMT, a 5-bit field
    elementaryStreams,     \* the PIDs listed in the PMT
    continuityCounter,     \* next counter of each track: PAT, PMT, elementary streams
    pcr,                   \* TSPcrState
    ptsAnchor,             \* _ptsAnchor
    psiSendTime,           \* psiSendTimeNanos
    numTsPacketsEmitted,
    startTime,             \* startTimeWallClockNanos, 0 = not set
    pendingTsPackets,      \* CBR: packets to pace out; VBR: the array the for loop walks
    discontinuousPids,
    out,                   \* the packet handed to the delegate in this step, if any
    numEnqueued            \* how many access units the client has enqueued

tickVars  == <<pc, now, expected>>
queueVars == <<accessUnits, versionNumber, elementaryStreams, numEnqueued>>
sendVars  == <<continuityCounter, pcr, ptsAnchor, psiSendTime, numTsPacketsEmitted,
               startTime, pendingTsPackets>>
vars == <<settings, wallClock, tickVars, queueVars, sendVars, discontinuousPids, out>>

-----------------------------------------------------------------------------
(* Data *)

AccessUnits == [id : Nat, pid : AuPids, time : Times \cup {NoTime}]

\* What a receiver sees of a packet. au is 0 and part is 1 outside elementary
\* streams; streams and version are the content of a PMT.
Packets == [pid : Nat, cc : CC, payload : BOOLEAN, disc : BOOLEAN, pcr : Nat \cup {NoPcr},
            au : Nat, part : Nat, of : Nat, pts : Nat \cup {NoTime},
            version : 0 .. 31, streams : SUBSET AuPids]

PlainPacket(pid, cc) ==
    [pid |-> pid, cc |-> cc, payload |-> TRUE, disc |-> FALSE, pcr |-> NoPcr,
     au |-> 0, part |-> 1, of |-> 1, pts |-> NoTime, version |-> 0, streams |-> {}]

TrackPids == {PID_PAT, settings.pmtPid} \cup AuPids

ValidSettings(s) ==
    /\ \A pid \in {s.pmtPid, s.pcrPid, s.videoPid, s.audioPid} : ~isCustomPidInvalid(pid)
    /\ s.pmtPid # s.pcrPid
    /\ s.audioPid # s.videoPid
    /\ s.pmtPid \notin {s.audioPid, s.videoPid}
    /\ s.psiInterval > 0 /\ s.pcrInterval > 0

Init ==
    /\ settings \in {s \in SettingsSpace : ValidSettings(s)}
    /\ wallClock \in StartClocks
    /\ pc = "idle" /\ now = 0 /\ expected = 0
    /\ accessUnits = <<>> /\ versionNumber = 0 /\ elementaryStreams = {} /\ numEnqueued = 0
    /\ continuityCounter = [pid \in TrackPids |-> 0]
    /\ pcr = [lastEmissionTime |-> NeverSent, anchor |-> 0, lastEmittedCc |-> 0]
    /\ ptsAnchor = NoTime /\ psiSendTime = NeverSent
    /\ numTsPacketsEmitted = 0 /\ startTime = 0
    /\ pendingTsPackets = <<>> /\ discontinuousPids = {} /\ out = <<>>

-----------------------------------------------------------------------------
(* The client *)

\* Mutant: a unit overtakes the units of its own time.
UnstableScan(existing, time) == existing.time = NoTime \/ existing.time < time

\* Where a unit goes: behind the last unit that is not later than it, or that
\* has no time (the scan from the end stops there).  Without a time: at the end.
StopsScan(existing, time) == existing.time = NoTime \/ existing.time <= time

InsertionPoint(queue, time, i) ==
    IF time = NoTime THEN i = Len(queue)
    ELSE /\ i > 0 => StopsScan(queue[i], time)
         /\ \A j \in i + 1 .. Len(queue) : ~StopsScan(queue[j], time)

InsertAfter(queue, i, au) ==
    [k \in 1 .. Len(queue) + 1 |->
        IF k <= i THEN queue[k] ELSE IF k = i + 1 THEN au ELSE queue[k - 1]]

IsFull ==
    /\ settings.maxNumQueuedAccessUnits > 0
    /\ Len(accessUnits) >= settings.maxNumQueuedAccessUnits

\* Mutant: a stream is added without a new version.
AddElementaryStreamSilently(pid) ==
    elementaryStreams' = elementaryStreams \cup {pid} /\ UNCHANGED versionNumber

\* addElementaryStream of an unknown PID gives the PMT a new version.
AddElementaryStream(pid) ==
    /\ elementaryStreams' = elementaryStreams \cup {pid}
    /\ versionNumber' = IF pid \in elementaryStreams THEN versionNumber
                        ELSE (versionNumber + 1) % 32

\* Mutant: the drop is forgotten.
DropUnmarked == UNCHANGED discontinuousPids

\* A full queue loses its first unit, and the PID of that unit owes the receiver a flag.
DropOldest ==
    IF IsFull
    THEN discontinuousPids' = discontinuousPids \cup {Head(accessUnits).pid}
    ELSE UNCHANGED discontinuousPids

EnqueueAccessUnit(pid, time) ==
    LET kept == IF IsFull THEN Tail(accessUnits) ELSE accessUnits
        au   == [id |-> numEnqueued + 1, pid |-> pid, time |-> time]
    IN  /\ pc = "idle" \/ (ReentrantEnqueue /\ out # <<>>)
        /\ numEnqueued < MaxAccessUnits
        /\ ~isCustomPidInvalid(pid) /\ pid # settings.pmtPid
        /\ AddElementaryStream(pid)
        /\ DropOldest
        /\ \E i \in 0 .. Len(kept) :
              /\ InsertionPoint(kept, time, i)
              /\ accessUnits' = InsertAfter(kept, i, au)
        /\ numEnqueued' = numEnqueued + 1
        /\ out' = <<>>
        /\ UNCHANGED <<settings, wallClock, tickVars, sendVars>>

\* The wall clock is monotonic.  It is read when a tick begins, in VBR at every iteration.
AdvanceClock ==
    /\ pc = "idle" \/ (pc = "loop" /\ ~settings.cbr)
    /\ wallClock < MaxClock
    /\ wallClock' = wallClock + 1
    /\ out' = <<>>
    /\ UNCHANGED <<settings, tickVars, queueVars, sendVars, discontinuousPids>>

-----------------------------------------------------------------------------
(* Helpers of both modes *)

IsIntervalElapsed(last, interval, t) == last = NeverSent \/ t - last >= interval

IsTimeToSendPsiTables(t) == IsIntervalElapsed(psiSendTime, settings.psiInterval, t)

\* state is a TSPcrState; an anchor of 0 means that no timed unit was packetized yet.
IsTimeToSendPcr(state, t) ==
    /\ state.anchor # 0
    /\ IsIntervalElapsed(state.lastEmissionTime, settings.pcrInterval, t)

\* A PID shared with a payload stream waits for that stream's first inline PCR.
ShouldSendStandalonePcr(t) ==
    /\ IsTimeToSendPcr(pcr, t)
    /\ ~ /\ settings.pcrPid \in {settings.videoPid, settings.audioPid}
         /\ pcr.lastEmissionTime = NeverSent

\* Mutant: the wall clock instead of the transport time.
CalculateWallClockPcr(state, t) ==
    (IF settings.cbr THEN wallClock - startTime ELSE t) - state.anchor

CalculatePcr(state, t) == t - state.anchor

\* Mutant: the counter of the last packet on the PCR PID is not kept.
EmitUncounted(state, p) ==
    numTsPacketsEmitted' = numTsPacketsEmitted + 1 /\ pcr' = state /\ out' = <<p>>

\* emitPacket: state is the TSPcrState before, p the packet.
Emit(state, p) ==
    /\ numTsPacketsEmitted' = numTsPacketsEmitted + 1
    /\ pcr' = IF p.pid = settings.pcrPid THEN [state EXCEPT !.lastEmittedCc = p.cc] ELSE state
    /\ out' = <<p>>

\* packetizePayload of the single packet of a table: its track counts it.
PsiPacket(pid) ==
    IF pid = PID_PAT THEN PlainPacket(pid, continuityCounter[pid])
    ELSE [PlainPacket(pid, continuityCounter[pid]) EXCEPT
              !.version = versionNumber, !.streams = elementaryStreams]

EmitPsiPacket(pid) ==
    /\ Emit(pcr, PsiPacket(pid))
    /\ continuityCounter' = [continuityCounter EXCEPT ![pid] = NextCC(@)]

\* Mutant: a standalone PCR takes the counter the track will use next.
PcrPacketWithTrackCc(t) ==
    [PlainPacket(settings.pcrPid,
                 IF settings.pcrPid \in AuPids THEN continuityCounter[settings.pcrPid] ELSE 0)
        EXCEPT !.payload = FALSE, !.pcr = CalculatePcr(pcr, t)]

PcrPacket(t) ==
    [PlainPacket(settings.pcrPid, pcr.lastEmittedCc) EXCEPT
        !.payload = FALSE, !.pcr = CalculatePcr(pcr, t)]

EmitStandalonePcr(t) ==
    Emit([pcr EXCEPT !.lastEmissionTime = t], PcrPacket(t))

\* The first timed unit anchors both the timestamps and the PCR.
Anchored(au, t) ==
    IF ptsAnchor = NoTime /\ au.time # NoTime THEN [pcr EXCEPT !.anchor = t] ELSE pcr

\* Mutant: a time before the anchor stays negative.
UnclampedTime(time, anchor) == IF time = NoTime THEN NoTime ELSE time - anchor

\* Timestamps are relative to the anchor; one before the anchor is clamped to 0.
RelativeTime(time, anchor) ==
    IF time = NoTime THEN NoTime ELSE IF time < anchor THEN 0 ELSE time - anchor

\* packetizePayload of a PES packet: flags and PCR on the first packet only.
PesPackets(au, n, anchor, pcrValue) ==
    [i \in 1 .. n |->
        [PlainPacket(au.pid, (continuityCounter[au.pid] + (i - 1)) % 16) EXCEPT
            !.disc = (i = 1 /\ au.pid \in discontinuousPids),
            !.pcr  = IF i = 1 THEN pcrValue ELSE NoPcr,
            !.au   = au.id, !.part = i, !.of = n,
            !.pts  = RelativeTime(au.time, anchor)]]

\* Pop the first unit and turn it into n packets that wait in pendingTsPackets.
PacketizeAccessUnit(n, t) ==
    LET au      == Head(accessUnits)
        anchor  == IF ptsAnchor = NoTime THEN au.time ELSE ptsAnchor
        state   == Anchored(au, t)
        withPcr == au.pid = settings.pcrPid /\ IsTimeToSendPcr(state, t)
    IN  /\ accessUnits' = Tail(accessUnits)
        /\ ptsAnchor' = anchor
        /\ pcr' = IF withPcr THEN [state EXCEPT !.lastEmissionTime = t] ELSE state
        /\ pendingTsPackets' =
              PesPackets(au, n, anchor, IF withPcr THEN CalculatePcr(state, t) ELSE NoPcr)
        /\ continuityCounter' = [continuityCounter EXCEPT ![au.pid] = (@ + n) % 16]
        /\ discontinuousPids' = discontinuousPids \ {au.pid}
        /\ out' = <<>>
        /\ UNCHANGED <<versionNumber, elementaryStreams, numEnqueued, psiSendTime,
                       numTsPacketsEmitted, startTime>>

EmitPending ==
    /\ Emit(pcr, Head(pendingTsPackets))
    /\ pendingTsPackets' = Tail(pendingTsPackets)
    /\ UNCHANGED <<continuityCounter, ptsAnchor, psiSendTime, startTime, queueVars,
                   discontinuousPids>>

-----------------------------------------------------------------------------
(* tick *)

\* cbrNanosElapsed in CBR, the wall clock in VBR.
TransportTime == IF settings.cbr THEN numTsPacketsEmitted ELSE wallClock

\* Mutant: one iteration too many.
MayIterateOnceMore == pc = "loop" /\ (settings.cbr => numTsPacketsEmitted <= expected)

\* The condition of the CBR while loop; VBR's do-while always starts an iteration.
MayIterate == pc = "loop" /\ (settings.cbr => numTsPacketsEmitted < expected)

Iterate(next) ==
    /\ now' = TransportTime /\ pc' = next
    /\ UNCHANGED <<settings, wallClock, expected>>

GoTo(next) == pc' = next /\ UNCHANGED <<settings, wallClock, now, expected>>

\* A step of the loop that hands a packet of its own to the delegate keeps the rest.
KeepQueues == UNCHANGED <<queueVars, discontinuousPids, pendingTsPackets, ptsAnchor, startTime>>

\* The sentinel 0 means that the start time is not set.
BeginTick ==
    /\ pc = "idle"
    /\ startTime' = IF settings.cbr /\ startTime = 0 THEN wallClock ELSE startTime
    /\ expected' = IF settings.cbr THEN wallClock - startTime' ELSE 0
    /\ pc' = "loop" /\ out' = <<>>
    /\ UNCHANGED <<settings, wallClock, now, queueVars, discontinuousPids, continuityCounter,
                   pcr, ptsAnchor, psiSendTime, numTsPacketsEmitted, pendingTsPackets>>

\* packetizePsiTables: the PAT, and when its callback has returned, the PMT.
SendPat ==
    /\ MayIterate /\ IsTimeToSendPsiTables(TransportTime)
    /\ EmitPsiPacket(PID_PAT)
    /\ Iterate("pmt") /\ KeepQueues /\ UNCHANGED psiSendTime

\* Mutant: the PSI interval is counted from the PMT, not from the PAT.
SendPmtLate ==
    /\ pc = "pmt"
    /\ EmitPsiPacket(settings.pmtPid)
    /\ psiSendTime' = TransportTime
    /\ GoTo(IF settings.cbr THEN "loop" ELSE "au") /\ KeepQueues

SendPmt ==
    /\ pc = "pmt"
    /\ EmitPsiPacket(settings.pmtPid)
    /\ psiSendTime' = now
    /\ GoTo(IF settings.cbr THEN "loop" ELSE "au") /\ KeepQueues

-----------------------------------------------------------------------------
(* doMuxVBR *)

SkipPsiVBR ==
    /\ MayIterate /\ ~settings.cbr /\ ~IsTimeToSendPsiTables(TransportTime)
    /\ Iterate("au") /\ out' = <<>>
    /\ UNCHANGED <<queueVars, sendVars, discontinuousPids>>

PacketizeVBR ==
    /\ pc = "au" /\ accessUnits # <<>>
    /\ \E n \in AuPacketCounts : PacketizeAccessUnit(n, now)
    /\ GoTo("drain")

NothingQueuedVBR ==
    /\ pc = "au" /\ accessUnits = <<>>
    /\ GoTo("pcr") /\ out' = <<>>
    /\ UNCHANGED <<queueVars, sendVars, discontinuousPids>>

\* Mutant: only the first packet of a unit is emitted.
EmitFirstOnlyVBR ==
    /\ pc = "drain"
    /\ EmitPending
    /\ GoTo("pcr")

EmitPendingVBR ==
    /\ pc = "drain"
    /\ EmitPending
    /\ GoTo(IF Len(pendingTsPackets) = 1 THEN "pcr" ELSE "drain")

SendPcrVBR ==
    /\ pc = "pcr" /\ ShouldSendStandalonePcr(now)
    /\ EmitStandalonePcr(now)
    /\ GoTo("while") /\ KeepQueues /\ UNCHANGED <<continuityCounter, psiSendTime>>

\* Mutant: a tick makes one iteration.
EndTickEarlyVBR ==
    /\ pc = "while" \/ (pc = "pcr" /\ ~ShouldSendStandalonePcr(now))
    /\ GoTo("idle") /\ out' = <<>>
    /\ UNCHANGED <<queueVars, sendVars, discontinuousPids>>

EndIterationVBR ==
    /\ pc = "while" \/ (pc = "pcr" /\ ~ShouldSendStandalonePcr(now))
    /\ GoTo(IF accessUnits # <<>> THEN "loop" ELSE "idle") /\ out' = <<>>
    /\ UNCHANGED <<queueVars, sendVars, discontinuousPids>>

-----------------------------------------------------------------------------
(* doMuxCBR: tables before PCR before content before stuffing *)

\* Mutant: content does not wait for a PCR that is due.
ContentBeforePcrCBR ==
    settings.cbr /\ MayIterate /\ ~IsTimeToSendPsiTables(TransportTime)

ContentTurnCBR ==
    /\ settings.cbr /\ MayIterate
    /\ ~IsTimeToSendPsiTables(TransportTime) /\ ~ShouldSendStandalonePcr(TransportTime)

SendPcrCBR ==
    /\ settings.cbr /\ MayIterate
    /\ ~IsTimeToSendPsiTables(TransportTime) /\ ShouldSendStandalonePcr(TransportTime)
    /\ EmitStandalonePcr(TransportTime)
    /\ Iterate("loop") /\ KeepQueues /\ UNCHANGED <<continuityCounter, psiSendTime>>

EmitPendingCBR ==
    /\ ContentTurnCBR /\ pendingTsPackets # <<>>
    /\ EmitPending /\ Iterate("loop")

PacketizeCBR ==
    /\ ContentTurnCBR /\ pendingTsPackets = <<>> /\ accessUnits # <<>>
    /\ \E n \in AuPacketCounts : PacketizeAccessUnit(n, TransportTime)
    /\ Iterate("loop")

SendNullCBR ==
    /\ ContentTurnCBR /\ pendingTsPackets = <<>> /\ accessUnits = <<>>
    /\ Emit(pcr, PlainPacket(PID_NULL_PACKET, 0))
    /\ Iterate("loop") /\ KeepQueues /\ UNCHANGED <<continuityCounter, psiSendTime>>

EndTickCBR ==
    /\ pc = "loop" /\ settings.cbr /\ numTsPacketsEmitted >= expected
    /\ GoTo("idle") /\ out' = <<>>
    /\ UNCHANGED <<queueVars, sendVars, discontinuousPids>>

-----------------------------------------------------------------------------

\* A step of tick: everything but the client and the clock.
TickStep ==
    \/ SendPat \/ SendPmt
    \/ SkipPsiVBR \/ PacketizeVBR \/ NothingQueuedVBR \/ EmitPendingVBR
    \/ SendPcrVBR \/ EndIterationVBR
    \/ SendPcrCBR \/ EmitPendingCBR \/ PacketizeCBR \/ SendNullCBR \/ EndTickCBR

Enqueue == \E pid \in AuPids, time \in Times \cup {NoTime} : EnqueueAccessUnit(pid, time)

Next == Enqueue \/ AdvanceClock \/ BeginTick \/ TickStep

Spec == Init /\ [][Next]_vars

=============================================================================
