---------------------------- MODULE MuxedStream ----------------------------
(***************************************************************************)
(* TSMuxer with the two parties around it: a client that enqueues the      *)
(* units of each PID in decode order, and a receiver that watches the      *)
(* packets handed to the delegate, as far as the properties need it.       *)
(***************************************************************************)
EXTENDS TSMuxer

VARIABLES
    fed,        \* the units enqueued so far; a unit's id is its index
    checkers,   \* a continuity checker per PID
    unit,       \* per PID, the last packet's place in its access unit
    lastPmt,    \* the last PMT seen, with its version and streams
    patAt,      \* transport time of the last PAT
    pcrAt       \* transport time of the last PCR

watchVars == <<fed, checkers, unit, lastPmt, patAt, pcrAt>>
allVars == <<vars, watchVars>>

NoUnit == [au |-> 0, part |-> 1, of |-> 1]
NoPmt == PlainPacket(PID_PAT, 0)
SentPids == TrackPids \cup {settings.pcrPid}

MInit ==
    /\ Init
    /\ fed = <<>>
    /\ checkers = [pid \in SentPids |-> NewChecker]
    /\ unit = [pid \in AuPids |-> NoUnit]
    /\ lastPmt = NoPmt /\ patAt = NeverSent /\ pcrAt = NeverSent

\* The transport time at which the packet of this step leaves.
EmissionTime == IF settings.cbr THEN numTsPacketsEmitted ELSE now'

Emitting == out' # <<>>
Sent == Head(out')
IsPes(p) == p.au # 0

Watch ==
    /\ checkers' = [pid \in SentPids |->
                      IF Emitting /\ Sent.pid = pid THEN Checked(Sent) ELSE checkers[pid]]
    /\ unit' = [pid \in AuPids |->
                  IF Emitting /\ IsPes(Sent) /\ Sent.pid = pid
                  THEN [au |-> Sent.au, part |-> Sent.part, of |-> Sent.of] ELSE unit[pid]]
    /\ lastPmt' = IF Emitting /\ Sent.pid = settings.pmtPid THEN Sent ELSE lastPmt
    /\ patAt' = IF Emitting /\ Sent.pid = PID_PAT THEN EmissionTime ELSE patAt
    /\ pcrAt' = IF Emitting /\ Sent.pcr # NoPcr THEN EmissionTime ELSE pcrAt

\* Decode order: no unit is enqueued with an earlier time than one before it on its PID.
Feed ==
    \E pid \in AuPids, time \in Times \cup {NoTime} :
        /\ \A i \in DOMAIN fed : fed[i].pid = pid => (time = NoTime \/ fed[i].time <= time)
        /\ EnqueueAccessUnit(pid, time)
        /\ fed' = Append(fed, [pid |-> pid, time |-> time])

MuxStep == AdvanceClock \/ BeginTick \/ TickStep

MNext == (Feed \/ (MuxStep /\ UNCHANGED fed)) /\ Watch

MSpec == MInit /\ [][MNext]_allVars

\* The client calls tick at a regular interval, and tick runs to its end.
MFairSpec ==
    /\ MSpec
    /\ WF_allVars(BeginTick /\ UNCHANGED fed /\ Watch)
    /\ WF_allVars(TickStep /\ UNCHANGED fed /\ Watch)

-----------------------------------------------------------------------------
(* Properties *)

\* Type invariant of the muxer's own state.
TypeOK ==
    /\ settings \in SettingsSpace /\ ValidSettings(settings)
    /\ wallClock \in 0 .. MaxClock
    /\ pc \in {"idle", "loop", "pmt", "au", "drain", "pcr", "while"}
    /\ now \in Nat /\ expected \in Nat
    /\ accessUnits \in Seq(AccessUnits) /\ numEnqueued \in 0 .. MaxAccessUnits
    /\ versionNumber \in 0 .. 31 /\ elementaryStreams \subseteq AuPids
    /\ continuityCounter \in [TrackPids -> CC]
    /\ pcr \in [lastEmissionTime : Nat \cup {NeverSent}, anchor : Nat, lastEmittedCc : CC]
    /\ ptsAnchor \in Nat \cup {NoTime} /\ psiSendTime \in Nat \cup {NeverSent}
    /\ numTsPacketsEmitted \in Nat /\ startTime \in Nat
    /\ pendingTsPackets \in Seq(Packets) /\ discontinuousPids \subseteq AuPids
    /\ out \in Seq(Packets) /\ Len(out) <= 1

\* A receiver's continuity checker never reports a loss on the muxer's own output, and
\* takes no payload for a retransmission: counters are given out when a unit is packetized,
\* but PCR packets are put between them when they are sent (emitPacket, lastEmittedCc).
ContinuousOutput ==
    [][Emitting /\ Sent.pid # PID_NULL_PACKET =>
          \/ Check(checkers[Sent.pid], Sent) = "OK"
          \/ Check(checkers[Sent.pid], Sent) = "Duplicate" /\ ~Sent.payload]_allVars

\* Units leave whole, in consecutive packets of their PID, and the units of other PIDs are
\* complete meanwhile: PSI and PCR may come in between, another unit may not.
WholeUnits ==
    [][Emitting /\ IsPes(Sent) =>
          /\ \A pid \in AuPids \ {Sent.pid} : unit[pid].part = unit[pid].of
          /\ IF Sent.part = 1 THEN unit[Sent.pid].part = unit[Sent.pid].of
             ELSE unit[Sent.pid] = [au |-> Sent.au, part |-> Sent.part - 1, of |-> Sent.of]
      ]_allVars

\* The unit enqueued before id on its PID, 0 when there is none.
Predecessor(id) ==
    LET before == {j \in 1 .. id - 1 : fed[j].pid = fed[id].pid}
    IN  IF before = {} THEN 0 ELSE CHOOSE j \in before : \A k \in before : k <= j

\* The first packet of a unit carries the discontinuity flag exactly when the unit enqueued
\* before it on that PID was dropped: no loss goes unannounced, nothing else is flagged,
\* also when a unit of that PID was already packetized when its successor was dropped.
LossIsSignalled ==
    [][Emitting /\ IsPes(Sent) /\ Sent.part = 1 =>
          (Sent.disc <=> unit[Sent.pid].au # Predecessor(Sent.au))]_allVars

\* The PCR on the wire is the transport time at which its packet leaves, counted from the
\* anchor, although an inline PCR is computed when the unit is packetized.
PcrIsTransportTime ==
    [][Emitting /\ Sent.pcr # NoPcr =>
          Sent.pcr = EmissionTime - pcr'.anchor /\ Sent.pcr >= 0]_allVars

\* CBR: once there is a PCR, the next one is late by the two packets of a PSI pair at most
\* (given that the PSI interval leaves room for anything but PSI).
PcrInTime ==
    [][Emitting /\ settings.cbr /\ settings.psiInterval > 2 /\ pcrAt # NeverSent
          /\ Sent.pcr = NoPcr => EmissionTime - pcrAt < settings.pcrInterval + 2]_allVars

\* No packet but PSI leaves before the first PAT, or when the last PAT is a PSI interval old.
PsiInTime ==
    [][Emitting /\ Sent.pid \notin {PID_PAT, settings.pmtPid} =>
          patAt # NeverSent /\ EmissionTime - patAt < settings.psiInterval]_allVars

\* A receiver that ignores a PMT whose version it knows misses nothing.
PmtVersionTellsStreams ==
    [][Emitting /\ Sent.pid = settings.pmtPid /\ lastPmt # NoPmt =>
          (Sent.version = lastPmt.version <=> Sent.streams = lastPmt.streams)]_allVars

\* CBR: a tick brings the output up to the bitrate and exceeds it by the second packet of a
\* PSI pair at most.
PacedToTarget ==
    settings.cbr => /\ numTsPacketsEmitted <= expected + 1
                    /\ pc = "idle" => numTsPacketsEmitted >= expected

\* The queue is within its limit and sorted by decode time between units without a time;
\* units of one PID keep the order they were enqueued in, also across drops.
QueueInDtsOrder ==
    /\ settings.maxNumQueuedAccessUnits > 0 =>
          Len(accessUnits) <= settings.maxNumQueuedAccessUnits
    /\ \A i, j \in DOMAIN accessUnits : i < j =>
          /\ \/ \E k \in i .. j : accessUnits[k].time = NoTime
             \/ accessUnits[i].time <= accessUnits[j].time
          /\ accessUnits[i].pid = accessUnits[j].pid => accessUnits[i].id < accessUnits[j].id

\* VBR: a tick that ends has flushed everything, what the delegate enqueued meanwhile too.
TickFlushes ==
    [][pc # "idle" /\ pc' = "idle" /\ ~settings.cbr =>
          accessUnits = <<>> /\ pendingTsPackets = <<>>]_allVars

Waiting(id) ==
    \/ \E i \in DOMAIN accessUnits : accessUnits[i].id = id
    \/ \E i \in DOMAIN pendingTsPackets : pendingTsPackets[i].au = id

\* VBR: no unit stays in the muxer for ever.
EveryUnitLeaves ==
    \A id \in 1 .. MaxAccessUnits : Waiting(id) /\ ~settings.cbr ~> ~Waiting(id)

=============================================================================
