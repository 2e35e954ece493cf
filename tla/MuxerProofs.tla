---------------------------- MODULE MuxerProofs ----------------------------
(***************************************************************************)
(* What holds of the muxer for every value of the constants: its types and *)
(* its pace, and that its counters have no gap.  What leaves it: the queue *)
(* is in order, units leave whole, every dropped unit is signalled, and a  *)
(* tick leaves nothing behind.  And when: a PCR tells the transport time   *)
(* although it may be computed long before its packet leaves, tables are   *)
(* never a PSI interval old, and in CBR the next PCR is late by the two    *)
(* tables at most.                                                         *)
(***************************************************************************)
EXTENDS MuxedStream, SequenceTheorems, FiniteSetTheorems, TLAPS

-----------------------------------------------------------------------------
(* The data of packets *)

\* A plain packet is a packet (TSPacket without adaptation field).
LEMMA PlainPacketType ==
  ASSUME NEW pid \in Nat, NEW cc \in CC
  PROVE  PlainPacket(pid, cc) \in Packets
BY DEF PlainPacket, Packets, NoPcr, NoTime

\* Counters stay in their 4 bits.
LEMMA CounterType ==
  /\ \A cc \in CC : NextCC(cc) \in CC
  /\ \A cc \in CC, n \in Nat : (cc + n) % 16 \in CC
BY DEF NextCC, CC

\* packetizePayload turns a unit into as many packets as it takes.
LEMMA PesPacketsType ==
  ASSUME InputAssumption, TypeOK,
         NEW au \in AccessUnits, NEW n \in AuPacketCounts,
         NEW anchor \in Nat \cup {NoTime}, au.time # NoTime => anchor \in Nat,
         NEW pcrValue \in Nat \cup {NoPcr}
  PROVE  /\ PesPackets(au, n, anchor, pcrValue) \in Seq(Packets)
         /\ Len(PesPackets(au, n, anchor, pcrValue)) = n
         /\ n \in Nat \ {0}
<1>1. n \in Nat \ {0} /\ AuPids \subseteq Nat /\ Times \subseteq Nat
  BY DEF InputAssumption
<1>2. au.pid \in AuPids /\ au.id \in Nat /\ au.time \in Nat \cup {NoTime}
  BY <1>1 DEF AccessUnits
<1>3. continuityCounter[au.pid] \in CC
  BY <1>2 DEF TypeOK, TrackPids
<1>4. RelativeTime(au.time, anchor) \in Nat \cup {NoTime}
  BY <1>2 DEF RelativeTime, NoTime
<1>5. ASSUME NEW i \in 1 .. n
      PROVE  PesPackets(au, n, anchor, pcrValue)[i] \in Packets
  <2> DEFINE plain == PlainPacket(au.pid, (continuityCounter[au.pid] + (i - 1)) % 16)
             disc  == (i = 1 /\ au.pid \in discontinuousPids)
             value == IF i = 1 THEN pcrValue ELSE NoPcr
             time  == RelativeTime(au.time, anchor)
  <2>1. (continuityCounter[au.pid] + (i - 1)) % 16 \in CC
    BY <1>1, <1>3, CounterType
  <2>2. plain \in Packets
    BY <1>1, <1>2, <2>1, PlainPacketType
  <2>3. disc \in BOOLEAN /\ value \in Nat \cup {NoPcr} /\ time \in Nat \cup {NoTime}
    BY <1>4
  <2>4. PesPackets(au, n, anchor, pcrValue)[i]
          = [plain EXCEPT !.disc = disc, !.pcr = value, !.au = au.id, !.part = i, !.of = n,
                          !.pts = time]
    BY DEF PesPackets
  <2> HIDE DEF plain, disc, value, time
  <2>5. au.id \in Nat /\ i \in Nat /\ n \in Nat
    BY <1>1, <1>2
  <2>6. [plain EXCEPT !.disc = disc, !.pcr = value, !.au = au.id, !.part = i, !.of = n,
                      !.pts = time] \in Packets
    BY ONLY <2>2, <2>3, <2>5 DEF Packets
  <2> QED
    BY <2>4, <2>6
<1>6. PesPackets(au, n, anchor, pcrValue) \in [1 .. n -> Packets]
  BY <1>5 DEF PesPackets
<1> QED
  BY <1>1, <1>6, LenProperties

\* Insertion keeps a queue a queue.
LEMMA InsertAfterType ==
  ASSUME NEW queue \in Seq(AccessUnits), NEW i \in 0 .. Len(queue), NEW au \in AccessUnits
  PROVE  InsertAfter(queue, i, au) \in Seq(AccessUnits)
<1>1. Len(queue) \in Nat /\ \A k \in 1 .. Len(queue) : queue[k] \in AccessUnits
  BY LenProperties, ElementOfSeq
<1>2. InsertAfter(queue, i, au) \in [1 .. Len(queue) + 1 -> AccessUnits]
  BY <1>1 DEF InsertAfter
<1> QED
  BY <1>1, <1>2

-----------------------------------------------------------------------------
(* Type correctness.  The types of a tick rest on time: a PCR is not        *)
(* negative because the anchor is never ahead of the transport time.        *)

ClocksInOrder ==
  /\ pcr.anchor <= now /\ now <= TransportTime
  /\ startTime <= wallClock

DrainsSomething == pc = "drain" => pendingTsPackets # <<>>

TypeInv == TypeOK /\ ClocksInOrder /\ DrainsSomething

\* The muxer starts in a state of the right types, with its clocks in order.
LEMMA TypeInit ==
  ASSUME ClockAssumption, SettingsAssumption, Init
  PROVE  TypeInv
<1>1. settings \in SettingsSpace /\ ValidSettings(settings)
  BY DEF Init
<1>2. wallClock \in 0 .. MaxClock
  BY DEF Init, ClockAssumption
<1>3. <<>> \in Seq(AccessUnits) /\ <<>> \in Seq(Packets) /\ Len(<<>>) = 0
  OBVIOUS
<1>4. TypeOK
  BY <1>1, <1>2, <1>3, 0 \in CC
  DEF Init, TypeOK, ClockAssumption, NeverSent, NoTime, CC
<1>5. ClocksInOrder /\ DrainsSomething
  BY <1>2 DEF Init, ClocksInOrder, DrainsSomething, TransportTime
<1> QED
  BY <1>4, <1>5 DEF TypeInv

\* The wall clock advances.
LEMMA TypeAdvanceClock ==
  ASSUME ClockAssumption, TypeInv, AdvanceClock
  PROVE  TypeInv'
BY DEF TypeInv, TypeOK, ClocksInOrder, DrainsSomething, AdvanceClock, TransportTime,
       ClockAssumption, tickVars, queueVars, sendVars, ValidSettings, TrackPids

\* A tick begins.
LEMMA TypeBeginTick ==
  ASSUME TypeInv, BeginTick
  PROVE  TypeInv'
BY DEF TypeInv, TypeOK, ClocksInOrder, DrainsSomething, BeginTick, TransportTime,
       queueVars, ValidSettings, TrackPids

\* A queue that is full has a unit to drop.
LEMMA FullIsNotEmpty ==
  ASSUME SettingsAssumption, TypeInv
  PROVE  accessUnits \in Seq(AccessUnits) /\ (IsFull => accessUnits # <<>>)
BY DEF TypeInv, TypeOK, SettingsAssumption, TSMuxerSettings, IsFull

\* A unit is enqueued: the queue stays a queue of units.
LEMMA TypeEnqueue ==
  ASSUME ClockAssumption, InputAssumption, SettingsAssumption, TypeInv,
         NEW pid \in AuPids, NEW time \in Times \cup {NoTime}, EnqueueAccessUnit(pid, time)
  PROVE  TypeInv'
<1> DEFINE kept == IF IsFull THEN Tail(accessUnits) ELSE accessUnits
           au   == [id |-> numEnqueued + 1, pid |-> pid, time |-> time]
<1>1. accessUnits \in Seq(AccessUnits) /\ (IsFull => accessUnits # <<>>)
  BY FullIsNotEmpty
<1>2. kept \in Seq(AccessUnits) /\ au \in AccessUnits
  BY <1>1, HeadTailProperties, InputAssumption DEF AccessUnits, TypeInv, TypeOK
<1>3. PICK i \in 0 .. Len(kept) : accessUnits' = InsertAfter(kept, i, au)
  BY DEF EnqueueAccessUnit
<1>4. accessUnits' \in Seq(AccessUnits)
  BY <1>2, <1>3, InsertAfterType
<1>5. discontinuousPids' \subseteq AuPids
  <2>1. CASE IsFull
    <3>1. Head(accessUnits) \in AccessUnits
      BY <1>1, <2>1, HeadTailProperties
    <3> QED
      BY <2>1, <3>1 DEF EnqueueAccessUnit, DropOldest, TypeInv, TypeOK, AccessUnits
  <2>2. CASE ~IsFull
    BY <2>2 DEF EnqueueAccessUnit, DropOldest, TypeInv, TypeOK
  <2> QED
    BY <2>1, <2>2
<1>6. /\ elementaryStreams' \subseteq AuPids /\ versionNumber' \in 0 .. 31
      /\ numEnqueued' \in 0 .. MaxAccessUnits /\ out' = <<>>
      /\ UNCHANGED <<settings, wallClock, pc, now, expected, continuityCounter, pcr, ptsAnchor,
                     psiSendTime, numTsPacketsEmitted, startTime, pendingTsPackets>>
  BY ClockAssumption
  DEF EnqueueAccessUnit, AddElementaryStream, TypeInv, TypeOK, tickVars, sendVars
<1> QED
  BY <1>4, <1>5, <1>6
  DEF TypeInv, TypeOK, ClocksInOrder, DrainsSomething, TransportTime, ValidSettings, TrackPids

-----------------------------------------------------------------------------
(* Emission *)

PcrStates == [lastEmissionTime : Nat \cup {NeverSent}, anchor : Nat, lastEmittedCc : CC]

\* emitPacket counts the packet and hands it on.
LEMMA EmitType ==
  ASSUME TypeOK, NEW state \in PcrStates, NEW p \in Packets, Emit(state, p)
  PROVE  /\ numTsPacketsEmitted' = numTsPacketsEmitted + 1
         /\ pcr' \in PcrStates /\ pcr'.anchor = state.anchor
         /\ out' \in Seq(Packets) /\ Len(out') = 1
<1>1. p.cc \in CC
  BY DEF Packets
<1> QED
  BY <1>1 DEF Emit, PcrStates

\* The packets of the muxer's own tables and of a standalone PCR are packets.
LEMMA PsiPacketType ==
  ASSUME SettingsAssumption, TypeOK, NEW pid \in {PID_PAT, settings.pmtPid}
  PROVE  PsiPacket(pid) \in Packets
<1>1. pid \in Nat /\ pid \in TrackPids
  BY DEF TypeOK, SettingsAssumption, TSMuxerSettings, TrackPids, PID_PAT
<1>2. PlainPacket(pid, continuityCounter[pid]) \in Packets
  BY <1>1, PlainPacketType DEF TypeOK
<1> QED
  BY <1>2 DEF PsiPacket, Packets, TypeOK

\* A standalone PCR is a packet of its PID.
LEMMA PcrPacketType ==
  ASSUME SettingsAssumption, TypeOK, NEW t \in Nat, pcr.anchor <= t
  PROVE  PcrPacket(t) \in Packets
<1>1. settings.pcrPid \in Nat /\ pcr.lastEmittedCc \in CC /\ pcr.anchor \in Nat
  BY DEF TypeOK, SettingsAssumption, TSMuxerSettings
<1>2. PlainPacket(settings.pcrPid, pcr.lastEmittedCc) \in Packets
  BY <1>1, PlainPacketType
<1>3. CalculatePcr(pcr, t) \in Nat
  BY <1>1 DEF CalculatePcr
<1> QED
  BY <1>2, <1>3 DEF PcrPacket, Packets

\* What a step that emits packet p, and leaves the rest of these alone, does to the types.
LEMMA TypeEmit ==
  ASSUME TypeInv, NEW state \in PcrStates, state.anchor = pcr.anchor,
         NEW p \in Packets, Emit(state, p),
         now' \in Nat, now <= now', now' <= TransportTime,
         pc' \in {"idle", "loop", "pmt", "au", "drain", "pcr", "while"},
         continuityCounter' \in [TrackPids -> CC], psiSendTime' \in Nat \cup {NeverSent},
         pendingTsPackets' \in Seq(Packets), pc' = "drain" => pendingTsPackets' # <<>>,
         UNCHANGED <<settings, wallClock, expected, queueVars, discontinuousPids, ptsAnchor,
                     startTime>>
  PROVE  TypeInv'
<1>1. /\ numTsPacketsEmitted' = numTsPacketsEmitted + 1
      /\ pcr' \in PcrStates /\ pcr'.anchor = pcr.anchor
      /\ out' \in Seq(Packets) /\ Len(out') = 1
  BY EmitType DEF TypeInv
<1>2. TypeOK'
  BY <1>1 DEF TypeInv, TypeOK, PcrStates, queueVars, ValidSettings, TrackPids
<1>3. ClocksInOrder'
  BY <1>1 DEF TypeInv, TypeOK, ClocksInOrder, TransportTime, PcrStates
<1> QED
  BY <1>2, <1>3 DEF TypeInv, DrainsSomething

\* The transport time is a number, and so is what the PCR is counted from.
LEMMA TransportTimeType ==
  ASSUME ClockAssumption, TypeInv
  PROVE  TransportTime \in Nat /\ pcr \in PcrStates /\ pcr.anchor \in Nat /\ now \in Nat
BY DEF ClockAssumption, TypeInv, TypeOK, TransportTime, PcrStates

\* Counting a packet keeps the tracks' counters in their 4 bits.
LEMMA CountedType ==
  ASSUME TypeOK, NEW pid \in TrackPids
  PROVE  [continuityCounter EXCEPT ![pid] = NextCC(@)] \in [TrackPids -> CC]
BY CounterType DEF TypeOK

\* The tables are sent.
LEMMA TypeSendPat ==
  ASSUME ClockAssumption, SettingsAssumption, TypeInv, SendPat
  PROVE  TypeInv'
<1>1. PsiPacket(PID_PAT) \in Packets
  BY PsiPacketType DEF TypeInv
<1>2. continuityCounter' \in [TrackPids -> CC]
  BY CountedType DEF SendPat, EmitPsiPacket, TrackPids, TypeInv
<1>3. Emit(pcr, PsiPacket(PID_PAT)) /\ now' = TransportTime /\ pc' = "pmt"
  BY DEF SendPat, EmitPsiPacket, Iterate
<1>4. now <= TransportTime
  BY DEF TypeInv, ClocksInOrder
<1>5. pendingTsPackets' \in Seq(Packets) /\ psiSendTime' \in Nat \cup {NeverSent}
  BY DEF TypeInv, TypeOK, SendPat, KeepQueues
<1> QED
  BY <1>1, <1>2, <1>3, <1>4, <1>5, TypeEmit, TransportTimeType
  DEF SendPat, KeepQueues, Iterate

\* The PMT is sent.
LEMMA TypeSendPmt ==
  ASSUME ClockAssumption, SettingsAssumption, TypeInv, SendPmt
  PROVE  TypeInv'
<1>1. PsiPacket(settings.pmtPid) \in Packets
  BY PsiPacketType DEF TypeInv
<1>2. continuityCounter' \in [TrackPids -> CC]
  BY CountedType DEF SendPmt, EmitPsiPacket, TrackPids, TypeInv
<1>3. Emit(pcr, PsiPacket(settings.pmtPid)) /\ UNCHANGED now /\ pc' \in {"loop", "au"}
  BY DEF SendPmt, EmitPsiPacket, GoTo
<1>4. now <= TransportTime /\ psiSendTime' = now /\ pendingTsPackets' \in Seq(Packets)
  BY DEF TypeInv, TypeOK, ClocksInOrder, SendPmt, KeepQueues
<1> QED
  BY <1>1, <1>2, <1>3, <1>4, TypeEmit, TransportTimeType
  DEF SendPmt, KeepQueues, GoTo

\* A standalone PCR is sent.
LEMMA TypeSendPcr ==
  ASSUME ClockAssumption, SettingsAssumption, TypeInv, SendPcrVBR \/ SendPcrCBR
  PROVE  TypeInv'
<1> DEFINE t     == IF pc = "pcr" THEN now ELSE TransportTime
           state == [pcr EXCEPT !.lastEmissionTime = t]
<1>1. t \in Nat /\ pcr.anchor <= t /\ now <= t /\ t <= TransportTime
  BY TransportTimeType DEF TypeInv, ClocksInOrder
<1>2. state \in PcrStates /\ state.anchor = pcr.anchor
  BY <1>1, TransportTimeType DEF PcrStates
<1>3. PcrPacket(t) \in Packets
  BY <1>1, PcrPacketType DEF TypeInv
<1>4. Emit(state, PcrPacket(t)) /\ now' = t /\ pc' \in {"while", "loop"}
  BY DEF SendPcrVBR, SendPcrCBR, EmitStandalonePcr, MayIterate, GoTo, Iterate
<1>5. UNCHANGED <<settings, wallClock, expected, queueVars, discontinuousPids, ptsAnchor,
                  startTime, continuityCounter, psiSendTime, pendingTsPackets>>
  BY DEF SendPcrVBR, SendPcrCBR, GoTo, Iterate, KeepQueues
<1>6. /\ continuityCounter' \in [TrackPids -> CC] /\ psiSendTime' \in Nat \cup {NeverSent}
      /\ pendingTsPackets' \in Seq(Packets)
  BY <1>5 DEF TypeInv, TypeOK
<1> HIDE DEF t, state
<1> QED
  BY <1>1, <1>2, <1>3, <1>4, <1>5, <1>6, TypeEmit, TransportTimeType

\* A packet that waited is sent, or stuffing.
LEMMA TypeSendContent ==
  ASSUME ClockAssumption, TypeInv, EmitPendingVBR \/ EmitPendingCBR \/ SendNullCBR
  PROVE  TypeInv'
<1>1. UNCHANGED <<settings, wallClock, expected, queueVars, discontinuousPids, ptsAnchor,
                  startTime, continuityCounter, psiSendTime>>
  BY DEF EmitPendingVBR, EmitPendingCBR, SendNullCBR, EmitPending, GoTo, Iterate, KeepQueues
<1>2. /\ continuityCounter' \in [TrackPids -> CC] /\ psiSendTime' \in Nat \cup {NeverSent}
      /\ pendingTsPackets \in Seq(Packets)
  BY <1>1 DEF TypeInv, TypeOK
<1>3. now <= TransportTime
  BY DEF TypeInv, ClocksInOrder
<1>4. CASE EmitPendingVBR \/ EmitPendingCBR
  <2>1. pendingTsPackets # <<>>
    BY <1>4 DEF TypeInv, DrainsSomething, EmitPendingVBR, EmitPendingCBR
  <2>2. /\ Head(pendingTsPackets) \in Packets
        /\ Tail(pendingTsPackets) \in Seq(Packets)
        /\ Len(pendingTsPackets) # 1 => Tail(pendingTsPackets) # <<>>
    <3>1. /\ Head(pendingTsPackets) \in Packets
          /\ Tail(pendingTsPackets) \in Seq(Packets)
          /\ Len(Tail(pendingTsPackets)) = Len(pendingTsPackets) - 1
          /\ Len(pendingTsPackets) \in Nat
      BY <1>2, <2>1, HeadTailProperties, LenProperties
    <3>2. Tail(pendingTsPackets) = <<>> => Len(Tail(pendingTsPackets)) = 0
      BY EmptySeq
    <3> QED
      BY <3>1, <3>2
  <2>3. Emit(pcr, Head(pendingTsPackets)) /\ pendingTsPackets' = Tail(pendingTsPackets)
    BY <1>4 DEF EmitPendingVBR, EmitPendingCBR, EmitPending
  <2>4. /\ now' \in {now, TransportTime}
        /\ pc' \in {"pcr", "drain", "loop"}
        /\ pc' = "drain" => Len(pendingTsPackets) # 1
    BY <1>4 DEF EmitPendingVBR, EmitPendingCBR, GoTo, Iterate
  <2> QED
    BY <1>1, <1>2, <1>3, <2>2, <2>3, <2>4, TypeEmit, TransportTimeType
<1>5. CASE SendNullCBR
  <2>1. PlainPacket(PID_NULL_PACKET, 0) \in Packets
    BY PlainPacketType DEF PID_NULL_PACKET, CC
  <2>2. Emit(pcr, PlainPacket(PID_NULL_PACKET, 0)) /\ UNCHANGED pendingTsPackets
    BY <1>5 DEF SendNullCBR, KeepQueues
  <2>3. now' = TransportTime /\ pc' = "loop"
    BY <1>5 DEF SendNullCBR, Iterate
  <2> QED
    BY <1>1, <1>2, <1>3, <2>1, <2>2, <2>3, TypeEmit, TransportTimeType
<1> QED
  BY <1>4, <1>5

\* A unit is packetized: its packets wait, its PID's counter has moved past them.
LEMMA TypePacketize ==
  ASSUME ClockAssumption, InputAssumption, TypeInv, PacketizeVBR \/ PacketizeCBR
  PROVE  TypeInv'
<1> DEFINE t == IF pc = "au" THEN now ELSE TransportTime
<1>1. PICK n \in AuPacketCounts : PacketizeAccessUnit(n, t)
  BY DEF PacketizeVBR, PacketizeCBR, ContentTurnCBR, MayIterate
<1>2. accessUnits # <<>> /\ now' = t /\ pc' \in {"drain", "loop"}
  BY DEF PacketizeVBR, PacketizeCBR, ContentTurnCBR, MayIterate, GoTo, Iterate
<1>3. UNCHANGED <<settings, wallClock, expected>>
  BY DEF PacketizeVBR, PacketizeCBR, GoTo, Iterate
<1>4. t \in Nat /\ pcr.anchor <= t /\ t <= TransportTime
  BY TransportTimeType DEF TypeInv, ClocksInOrder
<1> HIDE DEF t
<1> DEFINE au      == Head(accessUnits)
           anchor  == IF ptsAnchor = NoTime THEN au.time ELSE ptsAnchor
           state   == Anchored(au, t)
           withPcr == au.pid = settings.pcrPid /\ IsTimeToSendPcr(state, t)
           value   == IF withPcr THEN CalculatePcr(state, t) ELSE NoPcr
<1>5. au \in AccessUnits /\ Tail(accessUnits) \in Seq(AccessUnits)
  BY <1>2, HeadTailProperties DEF TypeInv, TypeOK
<1>6. au.pid \in AuPids /\ au.time \in Nat \cup {NoTime}
  BY <1>5, InputAssumption DEF AccessUnits
<1>7. anchor \in Nat \cup {NoTime} /\ (au.time # NoTime => anchor \in Nat)
  BY <1>6 DEF TypeInv, TypeOK, NoTime
<1>8. state \in PcrStates /\ state.anchor <= t
  BY <1>4, TransportTimeType DEF Anchored, PcrStates
<1>9. value \in Nat \cup {NoPcr}
  BY <1>4, <1>8 DEF CalculatePcr, PcrStates
<1> HIDE DEF au, anchor, state, withPcr, value
<1>10. /\ PesPackets(au, n, anchor, value) \in Seq(Packets)
       /\ Len(PesPackets(au, n, anchor, value)) = n /\ n \in Nat \ {0}
  BY <1>5, <1>7, <1>9, PesPacketsType DEF TypeInv
<1>11. /\ accessUnits' = Tail(accessUnits) /\ ptsAnchor' = anchor
       /\ pcr' = IF withPcr THEN [state EXCEPT !.lastEmissionTime = t] ELSE state
       /\ pendingTsPackets' = PesPackets(au, n, anchor, value)
       /\ continuityCounter' = [continuityCounter EXCEPT ![au.pid] = (@ + n) % 16]
       /\ discontinuousPids' = discontinuousPids \ {au.pid}
       /\ out' = <<>>
       /\ UNCHANGED <<versionNumber, elementaryStreams, numEnqueued, psiSendTime,
                      numTsPacketsEmitted, startTime>>
  BY <1>1 DEF PacketizeAccessUnit, au, anchor, state, withPcr, value
<1>12. pcr' \in PcrStates /\ pcr'.anchor <= t
  BY <1>4, <1>8, <1>11 DEF PcrStates
<1>13. continuityCounter' \in [TrackPids -> CC]
  BY <1>6, <1>10, <1>11, CounterType DEF TypeInv, TypeOK, TrackPids
<1>14. pendingTsPackets' # <<>>
  BY <1>10, <1>11
<1>15. TypeOK'
  BY <1>2, <1>3, <1>4, <1>5, <1>7, <1>10, <1>11, <1>12, <1>13
  DEF TypeInv, TypeOK, PcrStates, ValidSettings, TrackPids
<1>16. ClocksInOrder'
  BY <1>2, <1>3, <1>4, <1>11, <1>12 DEF TypeInv, ClocksInOrder, TransportTime
<1> QED
  BY <1>14, <1>15, <1>16 DEF TypeInv, DrainsSomething

\* The branches of tick that neither send nor packetize.
LEMMA TypeBranch ==
  ASSUME ClockAssumption, TypeInv, SkipPsiVBR \/ NothingQueuedVBR \/ EndIterationVBR \/ EndTickCBR
  PROVE  TypeInv'
<1>1. /\ UNCHANGED <<settings, wallClock, expected, queueVars, sendVars, discontinuousPids>>
      /\ now' \in {now, TransportTime} /\ out' = <<>>
      /\ pc' \in {"idle", "loop", "au", "pcr"}
  BY DEF SkipPsiVBR, NothingQueuedVBR, EndIterationVBR, EndTickCBR, Iterate, GoTo
<1> QED
  BY <1>1, TransportTimeType
  DEF TypeInv, TypeOK, ClocksInOrder, DrainsSomething, TransportTime, queueVars, sendVars,
      ValidSettings, TrackPids

\* Every step of the muxer keeps its types.
LEMMA TypeNext ==
  ASSUME ClockAssumption, InputAssumption, SettingsAssumption, TypeInv, [Next]_vars
  PROVE  TypeInv'
<1>1. CASE Enqueue
  BY <1>1, TypeEnqueue DEF Enqueue
<1>2. CASE AdvanceClock \/ BeginTick
  BY <1>2, TypeAdvanceClock, TypeBeginTick
<1>3. CASE TickStep
  BY <1>3, TypeSendPat, TypeSendPmt, TypeSendPcr, TypeSendContent, TypePacketize, TypeBranch
  DEF TickStep
<1>4. CASE UNCHANGED vars
  BY <1>4
  DEF vars, tickVars, queueVars, sendVars, TypeInv, TypeOK, ClocksInOrder, DrainsSomething,
      TransportTime, ValidSettings, TrackPids
<1> QED
  BY <1>1, <1>2, <1>3, <1>4 DEF Next

\* What the receiver watches does not restrict the muxer.
LEMMA WatchedStep ==
  ASSUME [MNext]_allVars
  PROVE  [Next]_vars
BY DEF MNext, Feed, MuxStep, Next, Enqueue, allVars

\* The muxer's state has its type in every reachable state: counters stay in 4 bits, versions
\* in 5, no PCR and no timestamp it writes is negative, and emission never runs dry.
THEOREM TypeCorrect == MSpec => []TypeOK
<1>1. MInit => TypeInv
  BY TypeInit, ClockAssumption, SettingsAssumption DEF MInit
<1>2. TypeInv /\ [MNext]_allVars => TypeInv'
  BY TypeNext, WatchedStep, ClockAssumption, InputAssumption, SettingsAssumption
<1>3. TypeInv => TypeOK
  BY DEF TypeInv
<1> QED
  BY <1>1, <1>2, <1>3, PTL DEF MSpec

-----------------------------------------------------------------------------
(* Pacing.  A tick never undoes what earlier ticks have reached, because    *)
(* the target follows a monotonic clock; a PMT is sent without a look at    *)
(* the target, and only directly behind a PAT that was below it.            *)

PaceInv ==
  settings.cbr =>
    /\ pc \in {"idle", "loop", "pmt"}
    /\ numTsPacketsEmitted <= expected + 1
    /\ pc = "pmt" => numTsPacketsEmitted <= expected
    /\ pc = "idle" => numTsPacketsEmitted >= expected
    /\ expected <= (IF startTime = 0 THEN 0 ELSE wallClock - startTime)

\* What happens outside the loop of a tick leaves the pace alone.
LEMMA PaceOutside ==
  ASSUME ClockAssumption, TypeInv, PaceInv, Enqueue \/ AdvanceClock \/ UNCHANGED vars
  PROVE  PaceInv'
<1>1. /\ settings' = settings /\ pc' = pc /\ expected' = expected /\ startTime' = startTime
      /\ numTsPacketsEmitted' = numTsPacketsEmitted
      /\ wallClock' = wallClock \/ wallClock' = wallClock + 1
  <2>1. CASE Enqueue
    BY <2>1 DEF Enqueue, EnqueueAccessUnit, tickVars, sendVars
  <2>2. CASE AdvanceClock
    BY <2>2 DEF AdvanceClock, tickVars, sendVars
  <2>3. CASE UNCHANGED vars
    BY <2>3 DEF vars, tickVars, sendVars
  <2> QED
    BY <2>1, <2>2, <2>3
<1>2. /\ wallClock \in Nat /\ startTime \in Nat /\ expected \in Nat
      /\ numTsPacketsEmitted \in Nat
  BY DEF TypeInv, TypeOK, ClockAssumption
<1>3. expected <= (IF startTime = 0 THEN 0 ELSE wallClock - startTime)
        => expected <= (IF startTime = 0 THEN 0 ELSE wallClock' - startTime)
  BY <1>1, <1>2
<1> QED
  BY <1>1, <1>2, <1>3 DEF PaceInv

\* A tick fixes its target before it sends anything.
LEMMA PaceBeginTick ==
  ASSUME ClockAssumption, TypeInv, PaceInv, BeginTick
  PROVE  PaceInv'
BY DEF PaceInv, BeginTick, TypeInv, TypeOK, ClocksInOrder, ClockAssumption

\* Within a tick the output never passes its target by more than one packet.
LEMMA PaceTick ==
  ASSUME ClockAssumption, TypeInv, PaceInv, TickStep
  PROVE  PaceInv'
<1> SUFFICES ASSUME settings.cbr PROVE PaceInv'
  BY DEF PaceInv, TickStep, SendPat, SendPmt, SkipPsiVBR, PacketizeVBR, NothingQueuedVBR,
         EmitPendingVBR, SendPcrVBR, EndIterationVBR, SendPcrCBR, EmitPendingCBR, PacketizeCBR,
         SendNullCBR, EndTickCBR, Iterate, GoTo
<1>1. pc \in {"idle", "loop", "pmt"} /\ numTsPacketsEmitted \in Nat /\ expected \in Nat
  BY DEF PaceInv, TypeInv, TypeOK
<1>2. CASE SendPat
  BY <1>1, <1>2
  DEF PaceInv, SendPat, MayIterate, EmitPsiPacket, Emit, Iterate, KeepQueues
<1>3. CASE SendPmt
  BY <1>1, <1>3 DEF PaceInv, SendPmt, EmitPsiPacket, Emit, GoTo, KeepQueues
<1>4. CASE SendPcrCBR \/ EmitPendingCBR \/ SendNullCBR
  BY <1>1, <1>4
  DEF PaceInv, SendPcrCBR, EmitPendingCBR, SendNullCBR, ContentTurnCBR, MayIterate,
      EmitStandalonePcr, EmitPending, Emit, Iterate, KeepQueues
<1>5. CASE PacketizeCBR
  BY <1>1, <1>5
  DEF PaceInv, PacketizeCBR, ContentTurnCBR, MayIterate, PacketizeAccessUnit, Iterate
<1>6. CASE EndTickCBR
  BY <1>1, <1>6 DEF PaceInv, EndTickCBR, GoTo, sendVars
<1>7. CASE SkipPsiVBR \/ PacketizeVBR \/ NothingQueuedVBR \/ EmitPendingVBR \/ SendPcrVBR
             \/ EndIterationVBR
  BY <1>1, <1>7
  DEF SkipPsiVBR, PacketizeVBR, NothingQueuedVBR, EmitPendingVBR, SendPcrVBR, EndIterationVBR
<1> QED
  BY <1>2, <1>3, <1>4, <1>5, <1>6, <1>7 DEF TickStep

\* A CBR tick brings the output up to the target bitrate and exceeds it by one packet at most.
THEOREM Paced == MSpec => []PacedToTarget
<1>1. MInit => TypeInv /\ PaceInv
  <2>1. MInit => TypeInv
    BY TypeInit, ClockAssumption, SettingsAssumption DEF MInit
  <2>2. MInit => PaceInv
    BY DEF MInit, Init, PaceInv
  <2> QED
    BY <2>1, <2>2
<1>2. TypeInv /\ PaceInv /\ [MNext]_allVars => (TypeInv /\ PaceInv)'
  <2> SUFFICES ASSUME TypeInv, PaceInv, [MNext]_allVars
               PROVE  TypeInv' /\ PaceInv'
    OBVIOUS
  <2>1. [Next]_vars
    BY WatchedStep
  <2>2. TypeInv'
    BY <2>1, TypeNext, ClockAssumption, InputAssumption, SettingsAssumption
  <2>3. PaceInv'
    BY <2>1, PaceOutside, PaceBeginTick, PaceTick, ClockAssumption DEF Next
  <2> QED
    BY <2>2, <2>3
<1>3. PaceInv => PacedToTarget
  BY DEF PaceInv, PacedToTarget
<1> QED
  BY <1>1, <1>2, <1>3, PTL DEF MSpec

-----------------------------------------------------------------------------
(***************************************************************************)
(* Continuity.  The muxer's output is continuous on every PID, for all     *)
(* settings, units and schedules.  Counters are given out when a unit is   *)
(* packetized but its packets leave later, and PCR packets that repeat a   *)
(* counter come in between; so the invariant speaks of the counter that    *)
(* leaves next.                                                            *)
(***************************************************************************)


\* A PID that carries both units and the PCR is known to the muxer as video or audio;
\* shouldSendStandalonePcr relies on it.
PcrPidIsKnown ==
  \A s \in SettingsSpace : s.pcrPid \in AuPids => s.pcrPid \in {s.videoPid, s.audioPid}

\* The PIDs units can be enqueued on, and those whose packets carry a payload that counts.
UnitPids == {pid \in AuPids : ~isCustomPidInvalid(pid) /\ pid # settings.pmtPid}
CountedPids == {PID_PAT, settings.pmtPid} \cup UnitPids

LeadsPending(pid) == pendingTsPackets # <<>> /\ pendingTsPackets[1].pid = pid

\* The counter of the next payload packet to leave on pid.
NextOut(pid) == IF LeadsPending(pid) THEN pendingTsPackets[1].cc ELSE continuityCounter[pid]

UnitsInv == \A i \in 1 .. Len(accessUnits) : accessUnits[i].pid \in UnitPids

\* What waits is of one PID and counts up to the counter of its track.
PendingInv ==
  \A i \in 1 .. Len(pendingTsPackets) :
    /\ pendingTsPackets[i].payload
    /\ pendingTsPackets[i].pid = pendingTsPackets[1].pid
    /\ pendingTsPackets[i].pid \in UnitPids
    /\ NextCC(pendingTsPackets[i].cc) = IF i = Len(pendingTsPackets)
                                        THEN continuityCounter[pendingTsPackets[i].pid]
                                        ELSE pendingTsPackets[i + 1].cc

ModeInv ==
  IF settings.cbr THEN pc \in {"idle", "loop", "pmt"}
  ELSE pc # "drain" => pendingTsPackets = <<>>

CheckersInv ==
  /\ checkers \in [SentPids -> Checkers]
  /\ \A pid \in CountedPids :
        checkers[pid].hasLastCC => NextCC(checkers[pid].lastCC) = NextOut(pid)
  /\ checkers[settings.pcrPid].hasLastCC =>
        checkers[settings.pcrPid].lastCC = pcr.lastEmittedCc

\* A PCR has been written on a PID with units, but nothing has left on it: the packet that
\* carries it is the next to leave.
FirstPcrInv ==
  settings.pcrPid \in AuPids /\ pcr.lastEmissionTime # NeverSent
    /\ ~checkers[settings.pcrPid].hasLastCC =>
      /\ LeadsPending(settings.pcrPid)
      /\ IF settings.cbr
         THEN /\ pc \in {"idle", "loop"} /\ pcr.lastEmissionTime = numTsPacketsEmitted
              /\ ~IsTimeToSendPsiTables(numTsPacketsEmitted)
         ELSE pc = "drain"

ContinuityInv ==
  TypeInv /\ UnitsInv /\ PendingInv /\ ModeInv /\ CheckersInv /\ FirstPcrInv

-----------------------------------------------------------------------------
(* Counters and PIDs *)

\* Counters are counted modulo 16, and the next one is another.
LEMMA CounterArithmetic ==
  /\ \A cc \in CC : NextCC(cc) \in CC /\ NextCC(cc) # cc
  /\ \A cc \in CC, n \in Nat : NextCC((cc + n) % 16) = (cc + (n + 1)) % 16
  /\ \A cc \in CC : (cc + 0) % 16 = cc
BY DEF NextCC, CC

\* The PIDs of tables, units, the PCR and stuffing are kept apart by validateSettings and by
\* the checks on the PID of a unit.
LEMMA PidsApart ==
  ASSUME SettingsAssumption, TypeOK
  PROVE  /\ PID_PAT \notin UnitPids /\ settings.pmtPid \notin UnitPids
         /\ settings.pcrPid # PID_PAT /\ settings.pcrPid # settings.pmtPid
         /\ PID_NULL_PACKET \notin CountedPids /\ settings.pcrPid # PID_NULL_PACKET
         /\ UnitPids \subseteq AuPids /\ CountedPids \subseteq TrackPids
         /\ settings.pcrPid \in AuPids => settings.pcrPid \in UnitPids
         /\ CountedPids \subseteq SentPids /\ settings.pcrPid \in SentPids
BY DEF TypeOK, ValidSettings, SettingsAssumption, TSMuxerSettings, UnitPids, CountedPids,
    TrackPids, SentPids,
       isCustomPidInvalid, isReservedPid, reservedPids, PID_PAT, PID_NULL_PACKET,
       PID_DVB_NIT_ST, PID_DVB_SIT, PID_ATSC_PSIP

\* Before the first packet no receiver has a counter to compare.
LEMMA ContinuityInit ==
  ASSUME ClockAssumption, SettingsAssumption, MInit
  PROVE  ContinuityInv
<1>1. TypeInv
  BY TypeInit DEF MInit
<1>2. UnitsInv /\ PendingInv /\ ModeInv /\ FirstPcrInv
  BY DEF MInit, Init, UnitsInv, PendingInv, ModeInv, FirstPcrInv
<1>3. CheckersInv
  BY <1>1, PidsApart
  DEF TypeInv, MInit, CheckersInv, NewChecker, Checkers, CC
<1> QED
  BY <1>1, <1>2, <1>3 DEF ContinuityInv

-----------------------------------------------------------------------------
(* What the receiver sees *)

\* A packet the receiver neither takes for a loss nor, if it has a payload, for a repetition.
Continuous(p) ==
  \/ Check(checkers[p.pid], p) = "OK"
  \/ Check(checkers[p.pid], p) = "Duplicate" /\ ~p.payload

\* A step that sends nothing changes nothing of what the receiver has seen.
LEMMA WatchNothing ==
  ASSUME CheckersInv, Watch, out' = <<>>
  PROVE  checkers' = checkers
BY DEF CheckersInv, Watch, Emitting

\* A sent packet is checked against the last one of its PID, and no other.
LEMMA WatchPacket ==
  ASSUME CheckersInv, Watch, NEW p, out' = <<p>>
  PROVE  /\ Emitting /\ Sent = p
         /\ checkers' = [pid \in SentPids |-> IF p.pid = pid THEN Checked(p) ELSE checkers[pid]]
BY DEF Watch, Emitting, Sent

\* A step that sends nothing and leaves alone what the invariant is about, but for the clock,
\* the time of the iteration and the client's side of the queue.
LEMMA ContinuityQuiet ==
  ASSUME SettingsAssumption, ContinuityInv, TypeInv', checkers' = checkers,
         UnitsInv', ModeInv',
         UNCHANGED <<settings, continuityCounter, pcr, psiSendTime, numTsPacketsEmitted,
                     pendingTsPackets>>,
         settings.cbr => (pc' = pc \/ pc' \in {"idle", "loop"}),
         ~settings.cbr /\ pc = "drain" => pc' = "drain"
  PROVE  ContinuityInv'
<1>1. PendingInv'
  BY DEF ContinuityInv, PendingInv, UnitPids
<1>2. CheckersInv'
  BY DEF ContinuityInv, CheckersInv, SentPids, TrackPids, CountedPids, UnitPids, NextOut,
         LeadsPending
<1>3. FirstPcrInv'
  BY DEF ContinuityInv, FirstPcrInv, LeadsPending, IsTimeToSendPsiTables, IsIntervalElapsed
<1> QED
  BY <1>1, <1>2, <1>3 DEF ContinuityInv

\* Insertion adds one unit to a queue and removes none.
LEMMA InsertAfterUnits ==
  ASSUME NEW queue \in Seq(AccessUnits), NEW i \in 0 .. Len(queue), NEW au \in AccessUnits,
         au.pid \in UnitPids, \A k \in 1 .. Len(queue) : queue[k].pid \in UnitPids
  PROVE  /\ Len(InsertAfter(queue, i, au)) = Len(queue) + 1
         /\ \A k \in 1 .. Len(queue) + 1 : InsertAfter(queue, i, au)[k].pid \in UnitPids
BY LenProperties DEF InsertAfter

\* A client that enqueues a unit sends nothing and moves no counter.
LEMMA ContinuityEnqueue ==
  ASSUME ClockAssumption, InputAssumption, SettingsAssumption, ContinuityInv, TypeInv',
         NEW pid \in AuPids, NEW time \in Times \cup {NoTime}, EnqueueAccessUnit(pid, time),
         Watch
  PROVE  ContinuityInv'
<1> DEFINE kept == IF IsFull THEN Tail(accessUnits) ELSE accessUnits
           au   == [id |-> numEnqueued + 1, pid |-> pid, time |-> time]
<1>1. accessUnits \in Seq(AccessUnits) /\ (IsFull => accessUnits # <<>>)
  BY FullIsNotEmpty DEF ContinuityInv
<1>2. /\ kept \in Seq(AccessUnits) /\ au \in AccessUnits /\ au.pid \in UnitPids
      /\ \A k \in 1 .. Len(kept) : kept[k].pid \in UnitPids
  <2>1. au \in AccessUnits /\ au.pid \in UnitPids
    BY InputAssumption
    DEF AccessUnits, ContinuityInv, TypeInv, TypeOK, EnqueueAccessUnit, UnitPids
  <2>2. CASE IsFull
    <3>1. /\ Tail(accessUnits) \in Seq(AccessUnits)
          /\ Len(Tail(accessUnits)) = Len(accessUnits) - 1 /\ Len(accessUnits) \in Nat
          /\ \A k \in 1 .. Len(Tail(accessUnits)) : Tail(accessUnits)[k] = accessUnits[k + 1]
      BY <1>1, <2>2, HeadTailProperties, LenProperties
    <3> QED
      BY <2>1, <2>2, <3>1 DEF ContinuityInv, UnitsInv
  <2>3. CASE ~IsFull
    BY <1>1, <2>1, <2>3 DEF ContinuityInv, UnitsInv
  <2> QED
    BY <2>2, <2>3
<1>3. PICK i \in 0 .. Len(kept) : accessUnits' = InsertAfter(kept, i, au)
  BY DEF EnqueueAccessUnit
<1>4. UNCHANGED <<settings, pc, sendVars>> /\ out' = <<>>
  BY DEF EnqueueAccessUnit, tickVars
<1>5. UnitsInv'
  BY <1>2, <1>3, <1>4, InsertAfterUnits DEF UnitsInv, UnitPids
<1>6. ModeInv'
  BY <1>4 DEF ContinuityInv, ModeInv, sendVars
<1>7. checkers' = checkers
  BY <1>4, WatchNothing DEF ContinuityInv
<1> QED
  BY <1>4, <1>5, <1>6, <1>7, ContinuityQuiet DEF sendVars

\* The clock, the beginning of a tick and the branches that neither send nor packetize.
LEMMA ContinuityBranch ==
  ASSUME SettingsAssumption, ContinuityInv, TypeInv', Watch,
         \/ AdvanceClock \/ BeginTick
         \/ SkipPsiVBR \/ NothingQueuedVBR \/ EndIterationVBR \/ EndTickCBR
  PROVE  ContinuityInv'
<1>1. /\ UNCHANGED <<settings, accessUnits, continuityCounter, pcr, psiSendTime,
                     numTsPacketsEmitted, pendingTsPackets>>
      /\ out' = <<>>
  BY DEF AdvanceClock, BeginTick, SkipPsiVBR, NothingQueuedVBR, EndIterationVBR, EndTickCBR,
         Iterate, GoTo, queueVars, sendVars, tickVars
<1>2. /\ settings.cbr => (pc' = pc \/ pc' \in {"idle", "loop"})
      /\ ~settings.cbr => (pc = "drain" <=> pc' = "drain")
  <2>1. CASE AdvanceClock \/ BeginTick
    BY <2>1 DEF AdvanceClock, BeginTick, tickVars
  <2>2. CASE SkipPsiVBR \/ NothingQueuedVBR \/ EndIterationVBR
    <3>1. settings.cbr => pc \notin {"au", "pcr", "while"}
      BY DEF ContinuityInv, ModeInv
    <3> QED
      BY <2>2, <3>1 DEF SkipPsiVBR, NothingQueuedVBR, EndIterationVBR, MayIterate, Iterate, GoTo
  <2>3. CASE EndTickCBR
    BY <2>3 DEF EndTickCBR, GoTo
  <2> QED
    BY <2>1, <2>2, <2>3
<1>3. UnitsInv' /\ ModeInv'
  BY <1>1, <1>2 DEF ContinuityInv, UnitsInv, ModeInv, UnitPids
<1>4. checkers' = checkers
  BY <1>1, WatchNothing DEF ContinuityInv
<1> QED
  BY <1>1, <1>2, <1>3, <1>4, ContinuityQuiet

-----------------------------------------------------------------------------
(* Tables *)

\* A table is one packet with payload and the counter of its PID.
LEMMA PsiPacketFields ==
  ASSUME NEW pid
  PROVE  /\ PsiPacket(pid).pid = pid /\ PsiPacket(pid).cc = continuityCounter[pid]
         /\ PsiPacket(pid).payload /\ ~PsiPacket(pid).disc
BY DEF PsiPacket, PlainPacket

\* A counter that follows the last one is continuous.
LEMMA FollowsIsContinuous ==
  ASSUME NEW p, p.pid \in SentPids, checkers \in [SentPids -> Checkers], p.cc \in CC, p.payload,
         checkers[p.pid].hasLastCC => NextCC(checkers[p.pid].lastCC) = p.cc
  PROVE  Continuous(p)
<1>1. checkers[p.pid].hasLastCC \in BOOLEAN /\ checkers[p.pid].lastCC \in CC
  BY DEF Checkers
<1> QED
  BY <1>1, CounterArithmetic DEF Continuous, Check

\* No waiting packet is on a table's PID.
LEMMA NothingPendingOnTables ==
  ASSUME SettingsAssumption, TypeInv, PendingInv, NEW pid \in {PID_PAT, settings.pmtPid}
  PROVE  ~LeadsPending(pid)
<1>1. pendingTsPackets # <<>> => Len(pendingTsPackets) \in Nat \ {0}
  BY EmptySeq DEF TypeInv, TypeOK
<1> QED
  BY <1>1, PidsApart DEF PendingInv, LeadsPending, TypeInv

\* A table continues the counter of its PID.
LEMMA ContinuityPsi ==
  ASSUME SettingsAssumption, ClockAssumption, ContinuityInv, TypeInv', Watch, SendPat \/ SendPmt
  PROVE  ContinuityInv' /\ Continuous(Sent)
<1>1. PICK pid \in {PID_PAT, settings.pmtPid} :
        /\ Emit(pcr, PsiPacket(pid))
        /\ continuityCounter' = [continuityCounter EXCEPT ![pid] = NextCC(@)]
        /\ UNCHANGED <<settings, accessUnits, pendingTsPackets>>
        /\ IF pc = "pmt" THEN pc' \in {"loop", "au"} /\ (settings.cbr <=> pc' = "loop")
           ELSE /\ pc = "loop" /\ pc' = "pmt" /\ IsTimeToSendPsiTables(TransportTime)
  BY DEF SendPat, SendPmt, EmitPsiPacket, MayIterate, Iterate, GoTo, KeepQueues, queueVars
<1> DEFINE p == PsiPacket(pid)
<1>2. pid \in CountedPids /\ pid \notin UnitPids
      /\ pid # settings.pcrPid /\ pid \in TrackPids /\ pid \in SentPids
  BY <1>1, PidsApart DEF ContinuityInv, TypeInv, CountedPids
<1>3. /\ p.pid = pid /\ p.cc = continuityCounter[pid] /\ p.payload /\ ~p.disc /\ p.cc \in CC
      /\ Emit(pcr, p)
  BY <1>1, <1>2, PsiPacketFields DEF ContinuityInv, TypeInv, TypeOK
<1> HIDE DEF p
<1>4. ~LeadsPending(pid) /\ ~LeadsPending(pid)'
  <2>1. ~LeadsPending(pid)
    BY <1>1, NothingPendingOnTables DEF ContinuityInv
  <2> QED
    BY <1>1, <2>1 DEF LeadsPending
<1>5. /\ pcr' = pcr /\ out' = <<p>> /\ Sent = p
      /\ checkers' = [q \in SentPids |-> IF p.pid = q THEN Checked(p) ELSE checkers[q]]
  BY <1>1, <1>2, <1>3, WatchPacket DEF Emit, ContinuityInv
<1>6. Continuous(p)
  BY <1>2, <1>3, <1>4, FollowsIsContinuous DEF ContinuityInv, CheckersInv, NextOut
<1>7. PendingInv'
  <2>1. \A q \in UnitPids : continuityCounter'[q] = continuityCounter[q]
    BY <1>1, <1>2, PidsApart DEF ContinuityInv, TypeInv, TypeOK, TrackPids
  <2>2. UnitPids' = UnitPids
    BY <1>1 DEF UnitPids
  <2> QED
    BY <1>1, <2>1, <2>2 DEF ContinuityInv, PendingInv
<1>8. SentPids' = SentPids /\ CountedPids' = CountedPids /\ CountedPids \subseteq TrackPids
      /\ CountedPids \subseteq SentPids /\ settings.pcrPid \in SentPids
  BY <1>1, PidsApart
  DEF SentPids, CountedPids, UnitPids, TrackPids, ContinuityInv, TypeInv
<1>9. CheckersInv'
  <2>1. checkers' \in [SentPids -> Checkers]
    BY <1>3, <1>5 DEF ContinuityInv, CheckersInv, Checked, Checkers
  <2>2. ASSUME NEW q \in CountedPids, checkers'[q].hasLastCC
        PROVE  NextCC(checkers'[q].lastCC) = NextOut(q)'
    <3>1. CASE q = pid
      <4>1. NextOut(q)' = NextCC(continuityCounter[pid])
        BY <1>1, <1>2, <1>4, <3>1 DEF NextOut, ContinuityInv, TypeInv, TypeOK
      <4> QED
        BY <1>2, <1>3, <1>5, <3>1, <4>1 DEF Checked
    <3>2. CASE q # pid
      <4>1. checkers'[q] = checkers[q]
        BY <1>3, <1>5, <1>8, <3>2
      <4>2. NextOut(q)' = NextOut(q)
        BY <1>1, <1>8, <3>2 DEF NextOut, LeadsPending, ContinuityInv, TypeInv, TypeOK
      <4> QED
        BY <2>2, <4>1, <4>2 DEF ContinuityInv, CheckersInv
    <3> QED
      BY <3>1, <3>2
  <2>3. checkers'[settings.pcrPid] = checkers[settings.pcrPid]
    BY <1>2, <1>3, <1>5, <1>8
  <2> QED
    BY <1>1, <1>5, <1>8, <2>1, <2>2, <2>3 DEF ContinuityInv, CheckersInv
<1>10. FirstPcrInv'
  <2>1. checkers'[settings.pcrPid] = checkers[settings.pcrPid]
    BY <1>2, <1>3, <1>5, <1>8
  <2>2. ~(settings.pcrPid \in AuPids /\ pcr.lastEmissionTime # NeverSent
            /\ ~checkers[settings.pcrPid].hasLastCC)
    BY <1>1 DEF ContinuityInv, FirstPcrInv, TransportTime
  <2> QED
    BY <1>1, <1>5, <2>1, <2>2 DEF FirstPcrInv
<1>11. UnitsInv' /\ ModeInv'
  BY <1>1 DEF ContinuityInv, UnitsInv, ModeInv, UnitPids
<1> QED
  BY <1>5, <1>6, <1>7, <1>9, <1>10, <1>11 DEF ContinuityInv

-----------------------------------------------------------------------------
(* Standalone PCRs *)

\* A standalone PCR has no payload and repeats the last counter of its PID.
LEMMA PcrPacketFields ==
  ASSUME NEW t
  PROVE  /\ PcrPacket(t).pid = settings.pcrPid /\ PcrPacket(t).cc = pcr.lastEmittedCc
         /\ ~PcrPacket(t).payload /\ ~PcrPacket(t).disc
BY DEF PcrPacket, PlainPacket

\* A PID with units has sent one before a standalone PCR is due on it.
LEMMA StandalonePcrComesLater ==
  ASSUME SettingsAssumption, PcrPidIsKnown, ContinuityInv, settings.pcrPid \in AuPids,
         \/ ~settings.cbr /\ pc = "pcr" /\ ShouldSendStandalonePcr(now)
         \/ settings.cbr /\ ShouldSendStandalonePcr(TransportTime)
  PROVE  checkers[settings.pcrPid].hasLastCC
<1>1. settings \in SettingsSpace /\ settings.pcrPid \in {settings.videoPid, settings.audioPid}
  BY DEF PcrPidIsKnown, ContinuityInv, TypeInv, TypeOK
<1>2. pcr.lastEmissionTime # NeverSent
  BY <1>1 DEF ShouldSendStandalonePcr
<1>3. SUFFICES ASSUME ~checkers[settings.pcrPid].hasLastCC PROVE FALSE
  OBVIOUS
<1>4. CASE settings.cbr
  <2>1. /\ pcr.lastEmissionTime = numTsPacketsEmitted /\ numTsPacketsEmitted \in Nat
        /\ settings.pcrInterval \in Nat /\ settings.pcrInterval > 0
    BY <1>1, <1>2, <1>3, <1>4
    DEF ContinuityInv, FirstPcrInv, TypeInv, TypeOK, ValidSettings, SettingsAssumption,
        TSMuxerSettings
  <2> QED
    BY <1>2, <1>4, <2>1
    DEF ShouldSendStandalonePcr, IsTimeToSendPcr, IsIntervalElapsed, TransportTime
<1>5. CASE ~settings.cbr
  BY <1>2, <1>3, <1>5 DEF ContinuityInv, FirstPcrInv
<1> QED
  BY <1>4, <1>5

\* A standalone PCR repeats the counter its receiver has seen, and is no payload.
LEMMA ContinuityPcr ==
  ASSUME SettingsAssumption, ClockAssumption, PcrPidIsKnown, ContinuityInv, TypeInv', Watch,
         SendPcrVBR \/ SendPcrCBR
  PROVE  ContinuityInv' /\ Continuous(Sent)
<1>1. PICK t \in {now, TransportTime} :
        /\ Emit([pcr EXCEPT !.lastEmissionTime = t], PcrPacket(t))
        /\ UNCHANGED <<settings, accessUnits, pendingTsPackets, continuityCounter, psiSendTime>>
        /\ \/ ~settings.cbr /\ pc = "pcr" /\ ShouldSendStandalonePcr(now) /\ pc' = "while"
           \/ settings.cbr /\ ShouldSendStandalonePcr(TransportTime) /\ pc' = "loop"
  BY DEF SendPcrVBR, SendPcrCBR, EmitStandalonePcr, MayIterate, Iterate, GoTo, KeepQueues,
         queueVars, ContinuityInv, ModeInv
<1> DEFINE p     == PcrPacket(t)
           state == [pcr EXCEPT !.lastEmissionTime = t]
<1>2. /\ p.pid = settings.pcrPid /\ p.cc = pcr.lastEmittedCc /\ ~p.payload /\ ~p.disc
      /\ Emit(state, p) /\ state.lastEmittedCc = pcr.lastEmittedCc
      /\ pcr.lastEmittedCc \in CC /\ state \in PcrStates
  BY <1>1, PcrPacketFields, TransportTimeType DEF ContinuityInv, TypeInv, TypeOK, PcrStates
<1> HIDE DEF p, state
<1>3. /\ pcr'.lastEmittedCc = pcr.lastEmittedCc /\ out' = <<p>> /\ Sent = p
      /\ checkers' = [q \in SentPids |-> IF p.pid = q THEN Checked(p) ELSE checkers[q]]
  BY <1>2, WatchPacket DEF Emit, ContinuityInv, PcrStates
<1>4. /\ settings.pcrPid \in SentPids /\ settings.pcrPid \notin {PID_PAT, settings.pmtPid}
      /\ SentPids' = SentPids /\ CountedPids' = CountedPids /\ UnitPids' = UnitPids
      /\ CountedPids \subseteq SentPids /\ UnitPids \subseteq AuPids
  BY <1>1, PidsApart
  DEF SentPids, CountedPids, UnitPids, TrackPids, ContinuityInv, TypeInv
<1>5. settings.pcrPid \in CountedPids => checkers[settings.pcrPid].hasLastCC
  BY <1>1, <1>4, StandalonePcrComesLater DEF CountedPids
<1>6. checkers[settings.pcrPid] \in Checkers
      /\ (checkers[settings.pcrPid].hasLastCC =>
             checkers[settings.pcrPid].lastCC = pcr.lastEmittedCc)
  BY <1>4 DEF ContinuityInv, CheckersInv
<1>7. Continuous(p)
  BY <1>2, <1>6 DEF Continuous, Check
<1>8. PendingInv' /\ UnitsInv'
  BY <1>1, <1>4 DEF ContinuityInv, PendingInv, UnitsInv
<1>9. CheckersInv'
  <2>1. checkers' \in [SentPids -> Checkers]
    BY <1>2, <1>3 DEF ContinuityInv, CheckersInv, Checked, Checkers
  <2>2. /\ checkers'[settings.pcrPid].hasLastCC
        /\ checkers'[settings.pcrPid].lastCC = pcr.lastEmittedCc
    BY <1>2, <1>3, <1>4 DEF Checked
  <2>3. ASSUME NEW q \in CountedPids, checkers'[q].hasLastCC
        PROVE  NextCC(checkers'[q].lastCC) = NextOut(q)'
    <3>1. NextOut(q)' = NextOut(q)
      BY <1>1 DEF NextOut, LeadsPending
    <3>2. checkers[q].hasLastCC /\ checkers'[q].lastCC = checkers[q].lastCC
      BY <1>2, <1>3, <1>4, <1>5, <1>6, <2>2, <2>3
    <3> QED
      BY <3>1, <3>2 DEF ContinuityInv, CheckersInv
  <2> QED
    BY <1>1, <1>3, <1>4, <2>1, <2>2, <2>3 DEF CheckersInv
<1>10. FirstPcrInv'
  BY <1>1, <1>2, <1>3, <1>4 DEF FirstPcrInv, Checked
<1>11. ModeInv'
  BY <1>1 DEF ContinuityInv, ModeInv
<1> QED
  BY <1>3, <1>7, <1>8, <1>9, <1>10, <1>11 DEF ContinuityInv

-----------------------------------------------------------------------------
(* Content *)

\* A packet that waited continues its PID's counter, and the next one follows it.
LEMMA ContinuityPending ==
  ASSUME SettingsAssumption, ClockAssumption, ContinuityInv, TypeInv', Watch,
         EmitPendingVBR \/ EmitPendingCBR
  PROVE  ContinuityInv' /\ Continuous(Sent)
<1> DEFINE p == pendingTsPackets[1]
<1>1. pendingTsPackets \in Seq(Packets) /\ pendingTsPackets # <<>>
  BY DEF ContinuityInv, TypeInv, TypeOK, DrainsSomething, EmitPendingVBR, EmitPendingCBR
<1>2. /\ Len(pendingTsPackets) \in Nat \ {0} /\ Head(pendingTsPackets) = p /\ p \in Packets
      /\ Tail(pendingTsPackets) \in Seq(Packets)
      /\ Len(Tail(pendingTsPackets)) = Len(pendingTsPackets) - 1
      /\ \A i \in 1 .. Len(pendingTsPackets) - 1 :
            Tail(pendingTsPackets)[i] = pendingTsPackets[i + 1]
      /\ Tail(pendingTsPackets) # <<>> => Len(pendingTsPackets) > 1
  <2>1. Len(pendingTsPackets) \in Nat \ {0}
    BY <1>1, EmptySeq
  <2>2. Head(pendingTsPackets) = p /\ p \in Packets
    BY <1>1, <2>1, HeadTailProperties
  <2>3. /\ Tail(pendingTsPackets) \in Seq(Packets)
        /\ Len(Tail(pendingTsPackets)) = Len(pendingTsPackets) - 1
        /\ \A i \in 1 .. Len(Tail(pendingTsPackets)) :
              Tail(pendingTsPackets)[i] = pendingTsPackets[i + 1]
    BY <1>1, HeadTailProperties
  <2>4. Tail(pendingTsPackets) # <<>> => Len(Tail(pendingTsPackets)) \in Nat \ {0}
    BY <2>3, EmptySeq
  <2> QED
    BY <2>1, <2>2, <2>3, <2>4
<1> DEFINE rest == Tail(pendingTsPackets)
<1>3. /\ Emit(pcr, p) /\ pendingTsPackets' = rest
      /\ UNCHANGED <<settings, accessUnits, continuityCounter, psiSendTime>>
      /\ IF settings.cbr THEN pc = "loop" /\ pc' = "loop"
         ELSE /\ pc = "drain"
              /\ pc' = IF Len(pendingTsPackets) = 1 THEN "pcr" ELSE "drain"
  BY <1>2 DEF EmitPendingVBR, EmitPendingCBR, EmitPending, ContentTurnCBR, MayIterate, Iterate,
     GoTo, queueVars, ContinuityInv, ModeInv
<1>4. /\ p.payload /\ p.pid \in UnitPids /\ p.cc \in CC /\ LeadsPending(p.pid)
      /\ p.pid \in CountedPids /\ p.pid \in SentPids
      /\ NextCC(p.cc) = IF Len(pendingTsPackets) = 1 THEN continuityCounter[p.pid]
                        ELSE pendingTsPackets[2].cc
  <2>1. 1 \in 1 .. Len(pendingTsPackets) /\ LeadsPending(p.pid) /\ p.cc \in CC
    BY <1>1, <1>2 DEF LeadsPending, Packets
  <2>2. /\ p.payload /\ p.pid \in UnitPids
        /\ NextCC(p.cc) = IF 1 = Len(pendingTsPackets) THEN continuityCounter[p.pid]
                          ELSE pendingTsPackets[1 + 1].cc
    BY <2>1 DEF ContinuityInv, PendingInv
  <2>3. p.pid \in CountedPids /\ p.pid \in SentPids
    BY <2>2, PidsApart DEF ContinuityInv, TypeInv, CountedPids
  <2> QED
    BY <2>1, <2>2, <2>3
<1>5. /\ rest # <<>> => /\ Len(pendingTsPackets) > 1 /\ rest[1] = pendingTsPackets[2]
                        /\ pendingTsPackets[2].pid = p.pid
      /\ rest = <<>> => Len(pendingTsPackets) = 1
  <2>1. Len(<<>>) = 0
    BY EmptySeq
  <2>2. Len(pendingTsPackets) > 1 => rest[1] = pendingTsPackets[1 + 1]
    BY <1>2
  <2>3. Len(pendingTsPackets) > 1 => pendingTsPackets[2].pid = p.pid
    <3>1. Len(pendingTsPackets) > 1 => 2 \in 1 .. Len(pendingTsPackets)
      BY <1>2
    <3>2. \A i \in 1 .. Len(pendingTsPackets) : pendingTsPackets[i].pid = p.pid
      BY DEF ContinuityInv, PendingInv
    <3> QED
      BY <3>1, <3>2
  <2>4. rest = <<>> => Len(rest) = 0
    BY <2>1
  <2>5. Len(pendingTsPackets) \in Nat \ {0} /\ Len(rest) = Len(pendingTsPackets) - 1
        /\ (rest # <<>> => Len(pendingTsPackets) > 1)
    BY <1>2
  <2> HIDE DEF p, rest
  <2> QED
    BY <2>2, <2>3, <2>4, <2>5
<1> HIDE DEF p, rest
<1>6. /\ out' = <<p>> /\ Sent = p
      /\ pcr'.lastEmissionTime = pcr.lastEmissionTime
      /\ pcr'.lastEmittedCc = IF p.pid = settings.pcrPid THEN p.cc ELSE pcr.lastEmittedCc
      /\ checkers' = [q \in SentPids |-> IF p.pid = q THEN Checked(p) ELSE checkers[q]]
  BY <1>3, WatchPacket, TransportTimeType DEF Emit, ContinuityInv, PcrStates
<1>7. Continuous(p)
  <2>1. NextOut(p.pid) = p.cc
    BY <1>4 DEF NextOut, p
  <2> QED
    BY <1>4, <2>1, FollowsIsContinuous DEF ContinuityInv, CheckersInv
<1>8. /\ SentPids' = SentPids /\ CountedPids' = CountedPids /\ UnitPids' = UnitPids
      /\ CountedPids \subseteq SentPids /\ settings.pcrPid \in SentPids
      /\ settings.pcrPid # PID_PAT /\ settings.pcrPid # settings.pmtPid
  BY <1>3, PidsApart DEF SentPids, CountedPids, UnitPids, TrackPids, ContinuityInv, TypeInv
<1>9. PendingInv'
  <2>1. SUFFICES ASSUME NEW i \in 1 .. Len(rest)
                 PROVE  /\ rest[i].payload /\ rest[i].pid = rest[1].pid
                        /\ rest[i].pid \in UnitPids
                        /\ NextCC(rest[i].cc) = IF i = Len(rest)
                                                THEN continuityCounter[rest[i].pid]
                                                ELSE rest[i + 1].cc
    BY <1>3, <1>8 DEF PendingInv
  <2>2. /\ rest[i] = pendingTsPackets[i + 1] /\ rest[1] = pendingTsPackets[2]
        /\ i + 1 \in 1 .. Len(pendingTsPackets) /\ 2 \in 1 .. Len(pendingTsPackets)
        /\ i # Len(rest) => rest[i + 1] = pendingTsPackets[i + 2]
        /\ i = Len(rest) <=> i + 1 = Len(pendingTsPackets)
    <3>1. /\ Len(rest) = Len(pendingTsPackets) - 1 /\ Len(pendingTsPackets) \in Nat
          /\ \A j \in 1 .. Len(pendingTsPackets) - 1 : rest[j] = pendingTsPackets[j + 1]
      BY <1>2 DEF rest
    <3>2. /\ i \in 1 .. Len(pendingTsPackets) - 1 /\ 1 \in 1 .. Len(pendingTsPackets) - 1
          /\ i # Len(rest) => i + 1 \in 1 .. Len(pendingTsPackets) - 1
      BY <2>1, <3>1
    <3>3. /\ rest[i] = pendingTsPackets[i + 1] /\ rest[1] = pendingTsPackets[1 + 1]
          /\ i # Len(rest) => rest[i + 1] = pendingTsPackets[i + 1 + 1]
      BY <3>1, <3>2
    <3> QED
      BY <3>1, <3>2, <3>3
  <2> QED
    BY <2>2 DEF ContinuityInv, PendingInv
<1>10. CheckersInv'
  <2>1. checkers' \in [SentPids -> Checkers]
    BY <1>4, <1>6 DEF ContinuityInv, CheckersInv, Checked, Checkers
  <2>2. ASSUME NEW q \in CountedPids, checkers'[q].hasLastCC
        PROVE  NextCC(checkers'[q].lastCC) = NextOut(q)'
    <3>1. CASE q = p.pid
      <4>1. NextOut(q)' = NextCC(p.cc)
        BY <1>3, <1>4, <1>5, <3>1 DEF NextOut, LeadsPending
      <4> QED
        BY <1>4, <1>6, <3>1, <4>1 DEF Checked
    <3>2. CASE q # p.pid
      <4>1. checkers'[q] = checkers[q]
        BY <1>6, <1>8, <3>2
      <4>2. NextOut(q)' = continuityCounter[q] /\ NextOut(q) = continuityCounter[q]
        BY <1>3, <1>5, <3>2 DEF NextOut, LeadsPending, p
      <4> QED
        BY <2>2, <4>1, <4>2 DEF ContinuityInv, CheckersInv
    <3> QED
      BY <3>1, <3>2
  <2>3. checkers'[settings.pcrPid].hasLastCC =>
          checkers'[settings.pcrPid].lastCC = pcr'.lastEmittedCc
    BY <1>6, <1>8 DEF ContinuityInv, CheckersInv, Checked
  <2> QED
    BY <1>3, <1>8, <2>1, <2>2, <2>3 DEF CheckersInv
<1>11. FirstPcrInv'
  <2>1. CASE p.pid = settings.pcrPid
    BY <1>3, <1>6, <1>8, <2>1 DEF FirstPcrInv, Checked
  <2>2. CASE p.pid # settings.pcrPid
    <3>1. ~LeadsPending(settings.pcrPid)
      BY <2>2 DEF LeadsPending, p
    <3>2. checkers'[settings.pcrPid] = checkers[settings.pcrPid]
      BY <1>6, <1>8, <2>2
    <3> QED
      BY <1>3, <1>6, <3>1, <3>2 DEF ContinuityInv, FirstPcrInv
  <2> QED
    BY <2>1, <2>2
<1>12. UnitsInv' /\ ModeInv'
  <2>1. ~settings.cbr /\ pc' # "drain" => rest = <<>>
    BY <1>2, <1>3, <1>5
  <2> QED
    BY <1>3, <1>8, <2>1 DEF ContinuityInv, UnitsInv, ModeInv
<1> QED
  BY <1>6, <1>7, <1>9, <1>10, <1>11, <1>12 DEF ContinuityInv

\* Stuffing touches no counter.
LEMMA ContinuityNull ==
  ASSUME SettingsAssumption, ClockAssumption, ContinuityInv, TypeInv', Watch, SendNullCBR
  PROVE  ContinuityInv' /\ Sent.pid = PID_NULL_PACKET
<1> DEFINE p == PlainPacket(PID_NULL_PACKET, 0)
<1>1. /\ Emit(pcr, p) /\ p.pid = PID_NULL_PACKET /\ p.cc = 0
      /\ UNCHANGED <<settings, accessUnits, continuityCounter, pendingTsPackets, psiSendTime>>
      /\ settings.cbr /\ pc' = "loop" /\ pendingTsPackets = <<>>
  BY DEF SendNullCBR, ContentTurnCBR, Iterate, KeepQueues, queueVars, PlainPacket
<1> HIDE DEF p
<1>2. /\ settings.pcrPid \in SentPids /\ PID_NULL_PACKET \notin CountedPids
      /\ settings.pcrPid # PID_NULL_PACKET /\ CountedPids \subseteq SentPids
      /\ SentPids' = SentPids /\ CountedPids' = CountedPids /\ UnitPids' = UnitPids
  BY <1>1, PidsApart DEF SentPids, CountedPids, UnitPids, TrackPids, ContinuityInv, TypeInv
<1>3. /\ out' = <<p>> /\ Sent = p /\ pcr' = pcr
      /\ checkers' = [q \in SentPids |-> IF p.pid = q THEN Checked(p) ELSE checkers[q]]
  BY <1>1, <1>2, WatchPacket DEF Emit, ContinuityInv
<1>4. /\ \A q \in CountedPids \cup {settings.pcrPid} : checkers'[q] = checkers[q]
      /\ checkers' \in [SentPids -> Checkers]
  BY <1>1, <1>2, <1>3 DEF ContinuityInv, CheckersInv, Checked, Checkers, CC
<1>5. PendingInv' /\ UnitsInv' /\ ModeInv'
  BY <1>1, <1>2 DEF ContinuityInv, PendingInv, UnitsInv, ModeInv
<1>6. CheckersInv'
  BY <1>1, <1>2, <1>3, <1>4 DEF ContinuityInv, CheckersInv, NextOut, LeadsPending
<1>7. FirstPcrInv'
  BY <1>1, <1>3, <1>4 DEF ContinuityInv, FirstPcrInv, LeadsPending
<1> QED
  BY <1>1, <1>3, <1>5, <1>6, <1>7 DEF ContinuityInv

\* The packets of a unit are on its PID and carry payload.
LEMMA PesPacketFields ==
  ASSUME NEW au, NEW n \in Nat, NEW anchor, NEW value, NEW i \in 1 .. n
  PROVE  LET p == PesPackets(au, n, anchor, value)[i]
         IN  /\ p.payload /\ p.pid = au.pid
             /\ p.cc = (continuityCounter[au.pid] + (i - 1)) % 16
BY DEF PesPackets, PlainPacket

\* A unit's packets take the next counters of its PID, and nothing else waits.
LEMMA ContinuityPacketize ==
  ASSUME SettingsAssumption, ClockAssumption, InputAssumption, ContinuityInv, TypeInv', Watch,
         PacketizeVBR \/ PacketizeCBR
  PROVE  ContinuityInv'
<1> DEFINE au == Head(accessUnits)
<1>1. PICK n \in AuPacketCounts, t \in {now, TransportTime} :
        /\ PacketizeAccessUnit(n, t)
        /\ accessUnits # <<>> /\ pendingTsPackets = <<>> /\ settings' = settings
        /\ IF settings.cbr
           THEN /\ t = numTsPacketsEmitted /\ pc' = "loop"
                /\ ~IsTimeToSendPsiTables(numTsPacketsEmitted)
           ELSE pc' = "drain"
  <2>1. CASE PacketizeVBR
    BY <2>1 DEF PacketizeVBR, GoTo, ContinuityInv, ModeInv
  <2>2. CASE PacketizeCBR
    BY <2>2
    DEF PacketizeCBR, ContentTurnCBR, Iterate, TransportTime
  <2> QED
    BY <2>1, <2>2
<1>2. /\ au \in AccessUnits /\ au.pid \in UnitPids /\ n \in Nat \ {0}
      /\ Len(accessUnits) \in Nat \ {0} /\ Len(Tail(accessUnits)) = Len(accessUnits) - 1
      /\ \A i \in 1 .. Len(Tail(accessUnits)) : Tail(accessUnits)[i] = accessUnits[i + 1]
  <2>1. accessUnits \in Seq(AccessUnits)
    BY DEF ContinuityInv, TypeInv, TypeOK
  <2>2. Len(accessUnits) \in Nat \ {0} /\ Head(accessUnits) = accessUnits[1]
    BY <1>1, <2>1, EmptySeq
  <2>3. au \in AccessUnits /\ Len(Tail(accessUnits)) = Len(accessUnits) - 1
        /\ \A i \in 1 .. Len(Tail(accessUnits)) : Tail(accessUnits)[i] = accessUnits[i + 1]
    BY <1>1, <2>1, HeadTailProperties
  <2>4. au.pid \in UnitPids
    BY <2>2 DEF ContinuityInv, UnitsInv
  <2> QED
    BY <2>2, <2>3, <2>4, InputAssumption
<1>3. PICK anchor, value :
        /\ pendingTsPackets' = PesPackets(au, n, anchor, value)
        /\ accessUnits' = Tail(accessUnits) /\ out' = <<>>
        /\ continuityCounter' = [continuityCounter EXCEPT ![au.pid] = (@ + n) % 16]
        /\ UNCHANGED <<psiSendTime, numTsPacketsEmitted>>
        /\ pcr'.lastEmittedCc = pcr.lastEmittedCc
        /\ \/ pcr'.lastEmissionTime = pcr.lastEmissionTime
           \/ pcr'.lastEmissionTime = t /\ au.pid = settings.pcrPid
  BY <1>1, TransportTimeType DEF PacketizeAccessUnit, Anchored, ContinuityInv, PcrStates
<1> HIDE DEF au
<1>4. /\ Len(pendingTsPackets') = n /\ pendingTsPackets' # <<>>
      /\ \A i \in 1 .. n :
           /\ pendingTsPackets'[i].payload /\ pendingTsPackets'[i].pid = au.pid
           /\ pendingTsPackets'[i].cc = (continuityCounter[au.pid] + (i - 1)) % 16
  <2>1. \A i \in 1 .. n :
           /\ pendingTsPackets'[i].payload /\ pendingTsPackets'[i].pid = au.pid
           /\ pendingTsPackets'[i].cc = (continuityCounter[au.pid] + (i - 1)) % 16
    BY <1>2, <1>3, PesPacketFields
  <2>2. Len(pendingTsPackets') = n
    <3>1. /\ Len(pendingTsPackets') \in Nat
          /\ DOMAIN pendingTsPackets' = 1 .. Len(pendingTsPackets')
      BY LenProperties DEF TypeInv, TypeOK
    <3>2. DOMAIN pendingTsPackets' = 1 .. n
      BY <1>3 DEF PesPackets
    <3>3. 1 .. Len(pendingTsPackets') = 1 .. n /\ n \in Nat \ {0}
      BY <1>2, <3>1, <3>2
    <3>4. \A k, m \in Nat : m # 0 /\ 1 .. k = 1 .. m => k = m
      <4> SUFFICES ASSUME NEW k \in Nat, NEW m \in Nat, m # 0, 1 .. k = 1 .. m PROVE k = m
        OBVIOUS
      <4>1. m \in 1 .. k
        OBVIOUS
      <4>2. k \in 1 .. m
        BY <4>1
      <4> QED
        BY <4>1, <4>2
    <3> QED
      BY <3>1, <3>3, <3>4
  <2> QED
    BY <1>2, <2>1, <2>2, EmptySeq
<1>5. /\ CountedPids' = CountedPids /\ UnitPids' = UnitPids /\ SentPids' = SentPids
      /\ au.pid \in TrackPids /\ CountedPids \subseteq TrackPids
      /\ au.pid \in AuPids /\ continuityCounter \in [TrackPids -> CC]
  BY <1>1, <1>2, PidsApart
  DEF CountedPids, UnitPids, SentPids, TrackPids, ContinuityInv, TypeInv, TypeOK
<1>6. checkers' = checkers
  BY <1>3, WatchNothing DEF ContinuityInv
<1>7. UnitsInv'
  BY <1>2, <1>3, <1>5 DEF ContinuityInv, UnitsInv
<1>8. PendingInv'
  <2>1. ASSUME NEW i \in 1 .. n
        PROVE  NextCC(pendingTsPackets'[i].cc) =
                 IF i = n THEN continuityCounter'[au.pid] ELSE pendingTsPackets'[i + 1].cc
    <3>1. pendingTsPackets'[i].cc = (continuityCounter[au.pid] + (i - 1)) % 16
      BY <1>4
    <3>2. continuityCounter[au.pid] \in CC /\ i - 1 \in Nat /\ i - 1 + 1 = i
      BY <1>2, <1>5
    <3>3. NextCC((continuityCounter[au.pid] + (i - 1)) % 16)
            = (continuityCounter[au.pid] + (i - 1 + 1)) % 16
      BY <3>2, CounterArithmetic
    <3>4. continuityCounter'[au.pid] = (continuityCounter[au.pid] + n) % 16
      BY <1>3, <1>5
    <3>5. ASSUME i # n
          PROVE  pendingTsPackets'[i + 1].cc = (continuityCounter[au.pid] + i) % 16
      <4>1. i + 1 \in 1 .. n /\ i + 1 - 1 = i
        BY <1>2, <3>5
      <4> QED
        BY <1>4, <4>1
    <3> QED
      BY <3>1, <3>2, <3>3, <3>4, <3>5
  <2>2. ASSUME NEW i \in 1 .. Len(pendingTsPackets')
        PROVE  /\ pendingTsPackets'[i].payload
               /\ pendingTsPackets'[i].pid = pendingTsPackets'[1].pid
               /\ pendingTsPackets'[i].pid \in UnitPids'
               /\ NextCC(pendingTsPackets'[i].cc)
                    = IF i = Len(pendingTsPackets')
                      THEN continuityCounter'[pendingTsPackets'[i].pid]
                      ELSE pendingTsPackets'[i + 1].cc
    <3>1. i \in 1 .. n /\ 1 \in 1 .. n /\ Len(pendingTsPackets') = n
      BY <1>2, <1>4, <2>2
    <3>2. /\ pendingTsPackets'[i].payload
          /\ pendingTsPackets'[i].pid = au.pid /\ pendingTsPackets'[1].pid = au.pid
      BY <1>4, <3>1
    <3>3. au.pid \in UnitPids'
      BY <1>2, <1>5
    <3>4. NextCC(pendingTsPackets'[i].cc) =
            IF i = n THEN continuityCounter'[au.pid] ELSE pendingTsPackets'[i + 1].cc
      BY <2>1, <3>1
    <3> QED
      BY ONLY <3>1, <3>2, <3>3, <3>4
  <2> QED
    BY ONLY <2>2 DEF PendingInv
<1>9. CheckersInv'
  <2>1. ASSUME NEW q \in CountedPids
        PROVE  NextOut(q)' = NextOut(q)
    <3>1. NextOut(q) = continuityCounter[q]
      BY <1>1 DEF NextOut, LeadsPending
    <3>2. CASE q = au.pid
      <4>1. NextOut(q)' = pendingTsPackets'[1].cc /\ 1 \in 1 .. n
        BY <1>2, <1>4, <3>2 DEF NextOut, LeadsPending
      <4>2. pendingTsPackets'[1].cc = (continuityCounter[au.pid] + 0) % 16
        BY <1>4, <4>1
      <4> QED
        BY <1>5, <3>1, <3>2, <4>1, <4>2, CounterArithmetic
    <3>3. CASE q # au.pid
      <4>1. 1 \in 1 .. n
        BY <1>2
      <4> QED
        BY <1>3, <1>4, <1>5, <3>1, <3>3, <4>1 DEF NextOut, LeadsPending
    <3> QED
      BY <3>2, <3>3
  <2> QED
    BY <1>1, <1>3, <1>5, <1>6, <2>1 DEF ContinuityInv, CheckersInv
<1>10. FirstPcrInv'
  <2>1. ~LeadsPending(settings.pcrPid)
    BY <1>1 DEF LeadsPending
  <2>2. 1 \in 1 .. n
    BY <1>2
  <2> QED
    BY <1>1, <1>3, <1>4, <1>6, <2>1, <2>2
    DEF ContinuityInv, FirstPcrInv, LeadsPending, IsTimeToSendPsiTables, IsIntervalElapsed
<1>11. ModeInv'
  BY <1>1 DEF ModeInv
<1> QED
  BY <1>7, <1>8, <1>9, <1>10, <1>11 DEF ContinuityInv

-----------------------------------------------------------------------------

\* What ContinuousOutput says of one step.
OnlyContinuousPackets ==
  Emitting /\ Sent.pid # PID_NULL_PACKET =>
    \/ Check(checkers[Sent.pid], Sent) = "OK"
    \/ Check(checkers[Sent.pid], Sent) = "Duplicate" /\ ~Sent.payload

\* The steps that send nothing.
LEMMA SilentSteps ==
  ASSUME \/ Feed \/ AdvanceClock \/ BeginTick \/ PacketizeVBR \/ PacketizeCBR
         \/ SkipPsiVBR \/ NothingQueuedVBR \/ EndIterationVBR \/ EndTickCBR
  PROVE  ~Emitting
BY DEF Emitting, Feed, EnqueueAccessUnit, AdvanceClock, BeginTick, PacketizeVBR, PacketizeCBR,
       PacketizeAccessUnit, SkipPsiVBR, NothingQueuedVBR, EndIterationVBR, EndTickCBR

\* Every step of the muxer keeps the invariant and is continuous for the receiver.
LEMMA ContinuityNext ==
  ASSUME ClockAssumption, InputAssumption, SettingsAssumption, PcrPidIsKnown,
         ContinuityInv, MNext
  PROVE  ContinuityInv' /\ OnlyContinuousPackets
<1>1. TypeInv' /\ Watch
  BY WatchedStep, TypeNext DEF ContinuityInv, MNext
<1>2. CASE Feed
  BY <1>1, <1>2, ContinuityEnqueue, SilentSteps DEF Feed, OnlyContinuousPackets
<1>3. CASE \/ AdvanceClock \/ BeginTick
           \/ SkipPsiVBR \/ NothingQueuedVBR \/ EndIterationVBR \/ EndTickCBR
  BY <1>1, <1>3, ContinuityBranch, SilentSteps DEF OnlyContinuousPackets
<1>4. CASE PacketizeVBR \/ PacketizeCBR
  BY <1>1, <1>4, ContinuityPacketize, SilentSteps DEF OnlyContinuousPackets
<1>5. CASE SendPat \/ SendPmt
  BY <1>1, <1>5, ContinuityPsi DEF OnlyContinuousPackets, Continuous
<1>6. CASE SendPcrVBR \/ SendPcrCBR
  BY <1>1, <1>6, ContinuityPcr DEF OnlyContinuousPackets, Continuous
<1>7. CASE EmitPendingVBR \/ EmitPendingCBR
  BY <1>1, <1>7, ContinuityPending DEF OnlyContinuousPackets, Continuous
<1>8. CASE SendNullCBR
  BY <1>1, <1>8, ContinuityNull DEF OnlyContinuousPackets
<1> QED
  BY <1>2, <1>3, <1>4, <1>5, <1>6, <1>7, <1>8 DEF MNext, MuxStep, TickStep

\* A step that changes nothing is continuous.
LEMMA ContinuityStutter ==
  ASSUME ClockAssumption, InputAssumption, SettingsAssumption,
         ContinuityInv, UNCHANGED allVars
  PROVE  ContinuityInv'
<1>1. TypeInv'
  BY WatchedStep, TypeNext DEF ContinuityInv
<1>2. /\ UNCHANGED <<settings, accessUnits, continuityCounter, pcr, psiSendTime,
                     numTsPacketsEmitted, pendingTsPackets>>
      /\ pc' = pc /\ checkers' = checkers
  BY DEF allVars, vars, tickVars, queueVars, sendVars, watchVars
<1>3. UnitsInv' /\ ModeInv'
  BY <1>2 DEF ContinuityInv, UnitsInv, ModeInv, UnitPids
<1> QED
  BY <1>1, <1>2, <1>3, ContinuityQuiet

\* Whatever the settings, the units and the interleaving of PSI, PCR, units and stuffing, a
\* receiver sees no gap in any continuity counter of the muxer and no payload that looks like
\* a repetition, provided that a PCR PID with units is the video or the audio PID.
THEOREM OutputIsContinuous == ASSUME PcrPidIsKnown PROVE MSpec => ContinuousOutput
<1>1. MInit => ContinuityInv
  BY ContinuityInit, ClockAssumption, SettingsAssumption
<1>2. ContinuityInv /\ [MNext]_allVars => ContinuityInv'
  BY ContinuityNext, ContinuityStutter, ClockAssumption, InputAssumption, SettingsAssumption,
     PcrPidIsKnown
<1>3. ContinuityInv /\ [MNext]_allVars => [OnlyContinuousPackets]_allVars
  BY ContinuityNext, ClockAssumption, InputAssumption, SettingsAssumption, PcrPidIsKnown
<1>4. [][OnlyContinuousPackets]_allVars => ContinuousOutput
  BY DEF OnlyContinuousPackets, ContinuousOutput
<1> QED
  BY <1>1, <1>2, <1>3, <1>4, PTL DEF MSpec

-----------------------------------------------------------------------------
(* Queues of units.  units are the units enqueued so far, and a unit's id   *)
(* is its index among them.                                                 *)

FedUnits == [pid : AuPids, time : Times \cup {NoTime}]

\* Sorted by decode time between the units without one.
InDtsOrder(queue) ==
  \A i, j \in 1 .. Len(queue) : i < j =>
    (\E k \in i .. j : queue[k].time = NoTime) \/ queue[i].time <= queue[j].time

InFedOrder(queue) ==
  \A i, j \in 1 .. Len(queue) :
    i < j /\ queue[i].pid = queue[j].pid => queue[i].id < queue[j].id

OfUnits(queue, units) ==
  \A i \in 1 .. Len(queue) :
    /\ queue[i].id \in 1 .. Len(units)
    /\ units[queue[i].id].pid = queue[i].pid /\ units[queue[i].id].time = queue[i].time

Holds(queue, id) == \E k \in 1 .. Len(queue) : queue[k].id = id

\* Behind a unit that is queued no unit of its PID is missing.
MissesNoneBehind(queue, units) ==
  \A i \in 1 .. Len(queue), id \in 1 .. Len(units) :
    id > queue[i].id /\ units[id].pid = queue[i].pid => Holds(queue, id)

WellQueued(queue, units) ==
  /\ InDtsOrder(queue) /\ InFedOrder(queue)
  /\ OfUnits(queue, units) /\ MissesNoneBehind(queue, units)

\* The queue without its first unit, which is dropped or packetized.
LEMMA TailIsWellQueued ==
  ASSUME InputAssumption, NEW queue \in Seq(AccessUnits), queue # <<>>, NEW units,
         WellQueued(queue, units)
  PROVE  /\ WellQueued(Tail(queue), units)
         /\ Tail(queue) \in Seq(AccessUnits) /\ Len(Tail(queue)) = Len(queue) - 1
         /\ \A i \in 1 .. Len(Tail(queue)) :
               /\ Tail(queue)[i] = queue[i + 1]
               /\ Tail(queue)[i].id # Head(queue).id
         /\ Len(queue) \in Nat \ {0} /\ Head(queue) = queue[1]
<1> DEFINE rest == Tail(queue)
<1>1. /\ rest \in Seq(AccessUnits) /\ Len(rest) = Len(queue) - 1 /\ Len(queue) \in Nat \ {0}
      /\ \A i \in 1 .. Len(rest) : rest[i] = queue[i + 1]
      /\ Head(queue) = queue[1]
  BY HeadTailProperties, LenProperties, EmptySeq
<1> HIDE DEF rest
<1>2. ASSUME NEW i \in 1 .. Len(rest)
      PROVE  i + 1 \in 1 .. Len(queue) /\ rest[i] = queue[i + 1]
  BY <1>1
<1>3. ASSUME NEW i \in 1 .. Len(queue), i # 1
      PROVE  queue[i].id # queue[1].id
  <2>1. 1 \in 1 .. Len(queue) /\ 1 < i /\ queue[i] \in AccessUnits /\ queue[1] \in AccessUnits
    BY <1>1, <1>3
  <2>2. queue[i].id \in Nat /\ queue[1].id \in Nat
    BY <2>1 DEF AccessUnits
  <2>3. queue[i].id = queue[1].id => queue[i].pid = queue[1].pid
    BY <2>1 DEF WellQueued, OfUnits
  <2>4. queue[i].pid = queue[1].pid => queue[1].id < queue[i].id
    BY <2>1 DEF WellQueued, InFedOrder
  <2> QED
    BY <2>2, <2>3, <2>4
<1>4. InDtsOrder(rest)
  <2> SUFFICES ASSUME NEW i \in 1 .. Len(rest), NEW j \in 1 .. Len(rest), i < j,
                      \A k \in i .. j : rest[k].time # NoTime
               PROVE  rest[i].time <= rest[j].time
    BY DEF InDtsOrder
  <2>1. /\ i + 1 \in 1 .. Len(queue) /\ j + 1 \in 1 .. Len(queue) /\ i + 1 < j + 1
        /\ rest[i] = queue[i + 1] /\ rest[j] = queue[j + 1]
    BY <1>1, <1>2
  <2>2. ASSUME NEW k \in i + 1 .. j + 1 PROVE queue[k].time # NoTime
    <3>1. k - 1 \in i .. j /\ k - 1 \in 1 .. Len(rest) /\ k - 1 + 1 = k
      BY <1>1
    <3> QED
      BY <1>2, <3>1
  <2> QED
    BY <2>1, <2>2 DEF WellQueued, InDtsOrder
<1>5. InFedOrder(rest)
  <2> SUFFICES ASSUME NEW i \in 1 .. Len(rest), NEW j \in 1 .. Len(rest), i < j,
                      rest[i].pid = rest[j].pid
               PROVE  rest[i].id < rest[j].id
    BY DEF InFedOrder
  <2>1. i + 1 < j + 1
    BY <1>1
  <2> QED
    BY <1>2, <2>1 DEF WellQueued, InFedOrder
<1>6. OfUnits(rest, units)
  BY <1>2 DEF WellQueued, OfUnits
<1>7. MissesNoneBehind(rest, units)
  <2> SUFFICES ASSUME NEW i \in 1 .. Len(rest), NEW id \in 1 .. Len(units),
                      id > rest[i].id, units[id].pid = rest[i].pid
               PROVE  Holds(rest, id)
    BY DEF MissesNoneBehind
  <2>1. PICK k \in 1 .. Len(queue) : queue[k].id = id
    BY <1>2 DEF WellQueued, MissesNoneBehind, Holds
  <2>2. k # 1
    <3> SUFFICES ASSUME k = 1 PROVE FALSE
      OBVIOUS
    <3>1. 1 \in 1 .. Len(queue) /\ i + 1 \in 1 .. Len(queue) /\ 1 < i + 1
      BY <1>1
    <3>2. queue[1].pid = queue[i + 1].pid
      BY <1>2, <2>1, <3>1 DEF WellQueued, OfUnits
    <3>3. queue[1].id < queue[i + 1].id
      BY <3>1, <3>2 DEF WellQueued, InFedOrder
    <3>4. queue[i + 1] \in AccessUnits /\ queue[1] \in AccessUnits
      BY <3>1, <1>1
    <3>5. queue[i + 1].id \in Nat /\ queue[1].id \in Nat
      BY <3>4 DEF AccessUnits
    <3> QED
      BY <1>2, <2>1, <3>3, <3>5
  <2>3. k - 1 \in 1 .. Len(rest) /\ k - 1 + 1 = k
    BY <1>1, <2>2
  <2> QED
    BY <1>2, <2>1, <2>3 DEF Holds
<1> QED
  <2>1. WellQueued(rest, units)
    BY <1>4, <1>5, <1>6, <1>7 DEF WellQueued
  <2>2. ASSUME NEW i \in 1 .. Len(rest)
        PROVE  rest[i] = queue[i + 1] /\ rest[i].id # Head(queue).id
    <3>1. i + 1 # 1
      BY <1>1
    <3> QED
      BY <1>1, <1>2, <1>3, <3>1
  <2> QED
    BY <1>1, <2>1, <2>2 DEF rest

\* u may follow the units in decode order on its PID.
FedInOrder(units, u) ==
  \A id \in 1 .. Len(units) :
    units[id].pid = u.pid => (u.time = NoTime \/ units[id].time <= u.time)

\* A unit inserted where the scan from the end stops, enqueued in decode order.
LEMMA InsertedIsWellQueued ==
  ASSUME NEW queue \in Seq(AccessUnits), NEW units \in Seq(FedUnits), NEW u \in FedUnits,
         WellQueued(queue, units), FedInOrder(units, u),
         NEW au \in AccessUnits, au.id = Len(units) + 1, au.pid = u.pid, au.time = u.time,
         NEW i \in 0 .. Len(queue), InsertionPoint(queue, u.time, i)
  PROVE  LET new == InsertAfter(queue, i, au)
         IN  /\ WellQueued(new, Append(units, u))
             /\ new \in Seq(AccessUnits) /\ Len(new) = Len(queue) + 1
             /\ \A id \in 1 .. Len(units) : Holds(queue, id) <=> Holds(new, id)
             /\ Holds(new, Len(units) + 1)
<1> DEFINE new   == InsertAfter(queue, i, au)
           fed2  == Append(units, u)
           pid   == u.pid
           time  == u.time
           at(k) == IF k <= i THEN k ELSE k + 1
<1>1. /\ Len(queue) \in Nat /\ Len(units) \in Nat /\ i \in Nat
      /\ \A k \in 1 .. Len(queue) :
           /\ queue[k] \in AccessUnits /\ queue[k].id \in Nat
           /\ queue[k].time \in Nat \cup {NoTime}
  <2>1. Len(queue) \in Nat /\ Len(units) \in Nat /\ i \in Nat
    BY LenProperties
  <2>2. ASSUME NEW k \in 1 .. Len(queue) PROVE queue[k] \in AccessUnits
    BY ElementOfSeq
  <2> QED
    BY <2>1, <2>2, InputAssumption DEF AccessUnits
<1>2. au.id = Len(units) + 1 /\ au.pid = pid /\ au.time = time /\ time \in Nat \cup {NoTime}
  BY InputAssumption DEF FedUnits
<1>3. new \in Seq(AccessUnits) /\ Len(new) = Len(queue) + 1
  BY <1>1, <1>2, InsertAfterType DEF InsertAfter
<1>4. /\ new[i + 1] = au /\ i + 1 \in 1 .. Len(new)
      /\ \A k \in 1 .. Len(queue) : at(k) \in 1 .. Len(new) /\ new[at(k)] = queue[k]
  BY <1>1, <1>3 DEF InsertAfter
<1>5. \A m \in 1 .. Len(new) : m = i + 1 \/ \E k \in 1 .. Len(queue) : m = at(k)
  <2> SUFFICES ASSUME NEW m \in 1 .. Len(new), m # i + 1
               PROVE  \E k \in 1 .. Len(queue) : m = at(k)
    OBVIOUS
  <2>1. CASE m <= i
    <3>1. m \in 1 .. Len(queue) /\ m = at(m)
      BY <1>1, <2>1
    <3> QED
      BY <3>1
  <2>2. CASE m > i
    <3>1. m - 1 \in 1 .. Len(queue) /\ m = at(m - 1)
      BY <1>1, <1>3, <2>2
    <3> QED
      BY <3>1
  <2> QED
    BY <1>1, <1>3, <2>1, <2>2
<1>6. /\ \A k, m \in 1 .. Len(queue) : at(k) < at(m) <=> k < m
      /\ \A k \in 1 .. Len(queue) : (at(k) < i + 1 <=> k <= i) /\ (at(k) > i + 1 <=> k > i)
      /\ \A k \in 1 .. Len(queue) : at(k) \in Nat
  BY <1>1
<1>7. /\ Len(fed2) = Len(units) + 1 /\ fed2[Len(units) + 1] = u
      /\ \A id \in 1 .. Len(units) : fed2[id] = units[id]
  BY <1>1
<1> HIDE DEF new, fed2, pid, time
<1>8. InDtsOrder(new)
  <2> SUFFICES ASSUME NEW a \in 1 .. Len(new), NEW b \in 1 .. Len(new), a < b,
                      \A k \in a .. b : new[k].time # NoTime
               PROVE  new[a].time <= new[b].time
    BY DEF InDtsOrder
  <2>1. CASE a = i + 1
    <3>1. PICK m \in 1 .. Len(queue) : b = at(m)
      BY <1>1, <1>3, <1>5, <2>1
    <3>2. m > i /\ new[b] = queue[m] /\ new[a].time = time
      BY <1>2, <1>4, <1>6, <2>1, <3>1
    <3>3. a \in a .. b
      BY <1>3
    <3>4. time # NoTime
      BY <3>2, <3>3
    <3>5. m \in i + 1 .. Len(queue)
      BY <1>1, <3>2
    <3>6. ~StopsScan(queue[m], time)
      BY <3>4, <3>5 DEF InsertionPoint, time
    <3> QED
      BY <1>1, <3>2, <3>4, <3>6, <1>2 DEF StopsScan
  <2>2. CASE b = i + 1
    <3>1. PICK m \in 1 .. Len(queue) : a = at(m)
      BY <1>1, <1>3, <1>5, <2>2
    <3>2. m <= i /\ a = m /\ new[a] = queue[m] /\ new[b].time = time
      BY <1>2, <1>4, <1>6, <2>2, <3>1
    <3>3. b \in a .. b /\ i \in a .. b
      BY <1>1, <1>3, <2>2, <3>2
    <3>4. time # NoTime
      BY <3>2, <3>3
    <3>5. i \in 1 .. Len(queue) /\ i > 0 /\ StopsScan(queue[i], time) /\ new[i] = queue[i]
      <4>1. i \in 1 .. Len(queue) /\ i > 0 /\ at(i) = i
        BY <1>1, <3>2
      <4> QED
        BY <1>4, <3>4, <4>1 DEF InsertionPoint, time
    <3>6. queue[i].time <= time /\ queue[i].time # NoTime
      BY <3>3, <3>5 DEF StopsScan
    <3>7. queue[m].time <= queue[i].time
      <4>1. CASE m = i
        BY <1>1, <3>5, <4>1, NoTime \in Int DEF NoTime
      <4>2. CASE m # i
        <5>1. m < i
          BY <1>1, <3>2, <4>2
        <5>2. ASSUME NEW k \in m .. i PROVE queue[k].time # NoTime
          <6>1. k \in a .. b /\ k \in 1 .. Len(queue) /\ at(k) = k
            BY <1>1, <1>3, <2>2, <3>2
          <6> QED
            BY <1>4, <6>1
        <5> QED
          BY <3>5, <5>1, <5>2 DEF WellQueued, InDtsOrder
      <4> QED
        BY <4>1, <4>2
    <3>8. queue[m].time \in Int /\ queue[i].time \in Int /\ time \in Int
      BY <1>1, <3>5, <1>2 DEF NoTime
    <3> QED
      BY <3>2, <3>6, <3>7, <3>8
  <2>3. CASE a # i + 1 /\ b # i + 1
    <3>1. PICK m \in 1 .. Len(queue) : a = at(m)
      BY <1>5, <2>3
    <3>2. PICK n \in 1 .. Len(queue) : b = at(n)
      BY <1>5, <2>3
    <3>3. m < n /\ new[a] = queue[m] /\ new[b] = queue[n]
      BY <1>4, <1>6, <3>1, <3>2
    <3>4. ASSUME NEW k \in m .. n PROVE queue[k].time # NoTime
      <4>1. k \in 1 .. Len(queue) /\ at(k) \in a .. b
        BY <1>1, <3>1, <3>2
      <4> QED
        BY <1>4, <4>1
    <3> QED
      BY <3>3, <3>4 DEF WellQueued, InDtsOrder
  <2> QED
    BY <2>1, <2>2, <2>3
<1>9. OfUnits(new, fed2)
  <2> SUFFICES ASSUME NEW a \in 1 .. Len(new)
               PROVE  /\ new[a].id \in 1 .. Len(fed2)
                      /\ fed2[new[a].id].pid = new[a].pid
                      /\ fed2[new[a].id].time = new[a].time
    BY DEF OfUnits
  <2>1. CASE a = i + 1
    BY <1>1, <1>2, <1>4, <1>7, <2>1 DEF pid, time
  <2>2. CASE a # i + 1
    <3>1. PICK m \in 1 .. Len(queue) : a = at(m)
      BY <1>5, <2>2
    <3>2. /\ new[a] = queue[m] /\ queue[m].id \in 1 .. Len(units)
          /\ units[queue[m].id].pid = queue[m].pid /\ units[queue[m].id].time = queue[m].time
      BY <1>4, <3>1 DEF WellQueued, OfUnits
    <3>3. queue[m].id \in 1 .. Len(fed2)
      BY <1>1, <1>7, <3>2
    <3> QED
      BY <1>7, <3>2, <3>3
  <2> QED
    BY <2>1, <2>2
<1>10. InFedOrder(new)
  <2> SUFFICES ASSUME NEW a \in 1 .. Len(new), NEW b \in 1 .. Len(new), a < b,
                      new[a].pid = new[b].pid
               PROVE  new[a].id < new[b].id
    BY DEF InFedOrder
  <2>1. CASE a = i + 1
    <3>1. PICK m \in 1 .. Len(queue) : b = at(m)
      BY <1>1, <1>3, <1>5, <2>1
    <3>2. m > i /\ new[b] = queue[m] /\ queue[m].pid = pid /\ m \in i + 1 .. Len(queue)
      BY <1>1, <1>2, <1>4, <1>6, <2>1, <3>1
    <3>3. time # NoTime /\ ~StopsScan(queue[m], time)
      BY <1>1, <3>2 DEF InsertionPoint, time
    <3>4. queue[m].id \in 1 .. Len(units) /\ units[queue[m].id].pid = pid
          /\ units[queue[m].id].time = queue[m].time
      BY <3>2 DEF WellQueued, OfUnits
    <3>5. queue[m].time <= time
      BY <3>3, <3>4 DEF FedInOrder, pid, time
    <3> QED
      BY <3>3, <3>5 DEF StopsScan
  <2>2. CASE b = i + 1
    <3>1. PICK m \in 1 .. Len(queue) : a = at(m)
      BY <1>1, <1>3, <1>5, <2>2
    <3>2. new[a] = queue[m] /\ queue[m].id \in 1 .. Len(units) /\ new[b].id = Len(units) + 1
      BY <1>2, <1>4, <2>2, <3>1 DEF WellQueued, OfUnits
    <3> QED
      BY <1>1, <3>2
  <2>3. CASE a # i + 1 /\ b # i + 1
    <3>1. PICK m \in 1 .. Len(queue) : a = at(m)
      BY <1>5, <2>3
    <3>2. PICK n \in 1 .. Len(queue) : b = at(n)
      BY <1>5, <2>3
    <3>3. m < n /\ new[a] = queue[m] /\ new[b] = queue[n]
      BY <1>4, <1>6, <3>1, <3>2
    <3> QED
      BY <3>3 DEF WellQueued, InFedOrder
  <2> QED
    BY <2>1, <2>2, <2>3
<1>11. (\A id \in 1 .. Len(units) : Holds(queue, id) <=> Holds(new, id))
       /\ Holds(new, Len(units) + 1)
  <2>1. ASSUME NEW id \in 1 .. Len(units), NEW k \in 1 .. Len(queue), queue[k].id = id
        PROVE  Holds(new, id)
    BY <1>3, <1>4, <2>1 DEF Holds
  <2>2. ASSUME NEW id \in 1 .. Len(units), NEW m \in 1 .. Len(new), new[m].id = id
        PROVE  Holds(queue, id)
    <3>1. m # i + 1
      BY <1>1, <1>2, <1>4, <2>2
    <3>2. PICK k \in 1 .. Len(queue) : m = at(k)
      BY <1>3, <1>5, <3>1
    <3> QED
      BY <1>4, <2>2, <3>2 DEF Holds
  <2>3. Holds(new, Len(units) + 1)
    BY <1>2, <1>3, <1>4 DEF Holds
  <2> QED
    BY <2>1, <2>2, <2>3 DEF Holds
<1>12. MissesNoneBehind(new, fed2)
  <2> SUFFICES ASSUME NEW a \in 1 .. Len(new), NEW id \in 1 .. Len(fed2),
                      id > new[a].id, fed2[id].pid = new[a].pid
               PROVE  Holds(new, id)
    BY DEF MissesNoneBehind
  <2>1. CASE id = Len(units) + 1
    BY <1>3, <1>11, <2>1
  <2>2. CASE id # Len(units) + 1
    <3>1. id \in 1 .. Len(units) /\ fed2[id] = units[id]
      BY <1>1, <1>7, <2>2
    <3>2. a # i + 1
      BY <1>1, <1>2, <1>4, <3>1
    <3>3. PICK m \in 1 .. Len(queue) : a = at(m)
      BY <1>5, <3>2
    <3>4. new[a] = queue[m]
      BY <1>4, <3>3
    <3>5. Holds(queue, id)
      BY <3>1, <3>4 DEF WellQueued, MissesNoneBehind
    <3> QED
      BY <1>3, <1>11, <3>1, <3>5
  <2> QED
    BY <2>1, <2>2
<1> QED
  BY <1>3, <1>8, <1>9, <1>10, <1>11, <1>12 DEF WellQueued, new, fed2

-----------------------------------------------------------------------------
(* The kinds of steps, as units see them *)

\* Nothing a unit is part of changes.
UnitsRest ==
  UNCHANGED <<settings, accessUnits, numEnqueued, fed, pendingTsPackets, discontinuousPids, unit>>

PacketizesHead ==
  \E n \in AuPacketCounts : \E anchor, value :
    /\ accessUnits # <<>> /\ pendingTsPackets = <<>>
    /\ accessUnits' = Tail(accessUnits)
    /\ pendingTsPackets' = PesPackets(Head(accessUnits), n, anchor, value)
    /\ discontinuousPids' = discontinuousPids \ {Head(accessUnits).pid}
    /\ out' = <<>>
    /\ UNCHANGED <<settings, numEnqueued, fed, unit>>

EmitsPending ==
  /\ pendingTsPackets # <<>> /\ Emitting /\ Sent = Head(pendingTsPackets)
  /\ pendingTsPackets' = Tail(pendingTsPackets)
  /\ UNCHANGED <<settings, accessUnits, numEnqueued, fed, discontinuousPids>>

UnitPlaces == [au : Nat, part : Nat, of : Nat]

\* What the receiver remembers of units changes only when it sees a packet of one.
LEMMA WatchUnits ==
  ASSUME unit \in [AuPids -> UnitPlaces], Watch,
         Emitting => ~IsPes(Sent)
  PROVE  unit' = unit
BY DEF Watch

\* The packets the muxer makes itself are of no unit.
LEMMA OwnPacketsAreNoPes ==
  ASSUME NEW t, NEW pid
  PROVE  ~IsPes(PsiPacket(pid)) /\ ~IsPes(PcrPacket(t)) /\ ~IsPes(PlainPacket(PID_NULL_PACKET, 0))
BY DEF IsPes, PsiPacket, PcrPacket, PlainPacket

\* A step feeds a unit, packetizes one, emits a packet of one, or leaves all units alone.
LEMMA KindsOfSteps ==
  ASSUME TypeInv, ModeInv, unit \in [AuPids -> UnitPlaces], MNext
  PROVE  (Feed /\ unit' = unit) \/ PacketizesHead \/ EmitsPending
           \/ (UnitsRest /\ (Emitting => ~IsPes(Sent)))
<1>1. Watch
  BY DEF MNext
<1>2. CASE Feed
  BY <1>1, <1>2, WatchUnits, SilentSteps
<1>3. CASE (AdvanceClock \/ BeginTick \/ SkipPsiVBR \/ NothingQueuedVBR \/ EndIterationVBR
              \/ EndTickCBR) /\ UNCHANGED fed
  <2>1. ~Emitting
    BY <1>3, SilentSteps
  <2>2. UNCHANGED <<settings, accessUnits, numEnqueued, pendingTsPackets, discontinuousPids>>
    BY <1>3
    DEF AdvanceClock, BeginTick, SkipPsiVBR, NothingQueuedVBR, EndIterationVBR, EndTickCBR,
        Iterate, GoTo, queueVars, sendVars
  <2> QED
    BY <1>1, <1>3, <2>1, <2>2, WatchUnits DEF UnitsRest
<1>4. CASE (SendPat \/ SendPmt \/ SendPcrVBR \/ SendPcrCBR \/ SendNullCBR) /\ UNCHANGED fed
  <2>1. UNCHANGED <<settings, accessUnits, numEnqueued, pendingTsPackets, discontinuousPids>>
    BY <1>4
    DEF SendPat, SendPmt, SendPcrVBR, SendPcrCBR, SendNullCBR, Iterate, GoTo, KeepQueues,
        queueVars
  <2>2. PICK p : out' = <<p>> /\ ~IsPes(p)
    BY <1>4, OwnPacketsAreNoPes
    DEF SendPat, SendPmt, SendPcrVBR, SendPcrCBR, SendNullCBR, EmitPsiPacket,
        EmitStandalonePcr, Emit
  <2>3. Sent = p
    BY <2>2 DEF Sent
  <2> QED
    BY <1>1, <1>4, <2>1, <2>2, <2>3, WatchUnits DEF UnitsRest
<1>5. CASE (EmitPendingVBR \/ EmitPendingCBR) /\ UNCHANGED fed
  <2>1. pendingTsPackets # <<>>
    BY <1>5 DEF EmitPendingVBR, EmitPendingCBR, TypeInv, DrainsSomething
  <2>2. /\ out' = <<Head(pendingTsPackets)>> /\ pendingTsPackets' = Tail(pendingTsPackets)
        /\ UNCHANGED <<settings, accessUnits, numEnqueued, discontinuousPids>>
    BY <1>5
    DEF EmitPendingVBR, EmitPendingCBR, EmitPending, Emit, GoTo, Iterate, queueVars
  <2> QED
    BY <1>5, <2>1, <2>2 DEF EmitsPending, Emitting, Sent
<1>6. CASE (PacketizeVBR \/ PacketizeCBR) /\ UNCHANGED fed
  <2>1. PICK n \in AuPacketCounts, t \in {now, TransportTime} : PacketizeAccessUnit(n, t)
    BY <1>6 DEF PacketizeVBR, PacketizeCBR
  <2>2. accessUnits # <<>> /\ pendingTsPackets = <<>> /\ UNCHANGED settings
    BY <1>6 DEF PacketizeVBR, PacketizeCBR, ModeInv, GoTo, Iterate
  <2>3. unit' = unit
    BY <1>1, <1>6, SilentSteps, WatchUnits
  <2> QED
    BY <1>6, <2>1, <2>2, <2>3 DEF PacketizeAccessUnit, PacketizesHead
<1> QED
  BY <1>2, <1>3, <1>4, <1>5, <1>6 DEF MNext, MuxStep, TickStep

-----------------------------------------------------------------------------
(* The queue *)

QueueInv ==
  /\ fed \in Seq(FedUnits) /\ numEnqueued = Len(fed)
  /\ \A id \in 1 .. Len(fed) : fed[id].pid \in UnitPids
  /\ WellQueued(accessUnits, fed)
  /\ settings.maxNumQueuedAccessUnits > 0 =>
        Len(accessUnits) <= settings.maxNumQueuedAccessUnits

Queued(id) == Holds(accessUnits, id)

\* The first unit of the queue is the oldest of its PID, and no later one of its PID is missing.
LEMMA HeadIsOldest ==
  ASSUME InputAssumption, TypeInv, QueueInv, accessUnits # <<>>
  PROVE  LET head == Head(accessUnits)
             rest == Tail(accessUnits)
         IN  /\ head \in AccessUnits /\ head.id \in 1 .. Len(fed)
             /\ fed[head.id].pid = head.pid /\ Queued(head.id)
             /\ \A id \in 1 .. Len(fed) : fed[id].pid = head.pid =>
                   (id < head.id => ~Queued(id)) /\ (id > head.id => Queued(id))
             /\ rest \in Seq(AccessUnits) /\ Len(rest) = Len(accessUnits) - 1
             /\ WellQueued(rest, fed)
             /\ \A id \in Nat : Holds(rest, id) <=> (Queued(id) /\ id # head.id)
<1> DEFINE head == Head(accessUnits)
           rest == Tail(accessUnits)
<1>1. accessUnits \in Seq(AccessUnits) /\ WellQueued(accessUnits, fed)
  BY DEF TypeInv, TypeOK, QueueInv
<1>2. /\ WellQueued(rest, fed) /\ rest \in Seq(AccessUnits) /\ Len(rest) = Len(accessUnits) - 1
      /\ \A i \in 1 .. Len(rest) : rest[i] = accessUnits[i + 1] /\ rest[i].id # head.id
      /\ Len(accessUnits) \in Nat \ {0} /\ head = accessUnits[1]
  BY <1>1, TailIsWellQueued
<1> HIDE DEF head, rest
<1>3. head \in AccessUnits /\ head.id \in 1 .. Len(fed) /\ fed[head.id].pid = head.pid
      /\ Queued(head.id) /\ 1 \in 1 .. Len(accessUnits)
  <2>1. 1 \in 1 .. Len(accessUnits)
    BY <1>2
  <2>2. head \in AccessUnits
    BY <1>1, <1>2, <2>1, ElementOfSeq
  <2> QED
    BY <1>1, <1>2, <2>1, <2>2 DEF WellQueued, OfUnits, Queued, Holds
<1>4. ASSUME NEW id \in Nat
      PROVE  Holds(rest, id) <=> (Queued(id) /\ id # head.id)
  <2>1. ASSUME NEW k \in 1 .. Len(rest), rest[k].id = id
        PROVE  Queued(id) /\ id # head.id
    <3>1. k + 1 \in 1 .. Len(accessUnits)
      BY <1>2
    <3> QED
      BY <1>2, <2>1, <3>1 DEF Queued, Holds
  <2>2. ASSUME NEW k \in 1 .. Len(accessUnits), accessUnits[k].id = id, id # head.id
        PROVE  Holds(rest, id)
    <3>1. k - 1 \in 1 .. Len(rest) /\ k - 1 + 1 = k
      BY <1>2, <2>2
    <3> QED
      BY <1>2, <2>2, <3>1 DEF Holds
  <2> QED
    BY <2>1, <2>2 DEF Queued, Holds
<1>5. ASSUME NEW id \in 1 .. Len(fed), fed[id].pid = head.pid
      PROVE  (id < head.id => ~Queued(id)) /\ (id > head.id => Queued(id))
  <2>1. ASSUME id < head.id, NEW k \in 1 .. Len(accessUnits), accessUnits[k].id = id
        PROVE  FALSE
    <3>1. k # 1
      BY <1>2, <1>3, <2>1 DEF AccessUnits
    <3>2. 1 < k /\ accessUnits[k].pid = head.pid
      BY <1>1, <1>5, <2>1, <3>1 DEF WellQueued, OfUnits
    <3>3. head.id < id
      BY <1>1, <1>2, <1>3, <2>1, <3>2 DEF WellQueued, InFedOrder
    <3> QED
      BY <1>3, <2>1, <3>3
  <2>2. id > head.id => Queued(id)
    BY <1>1, <1>2, <1>3, <1>5 DEF WellQueued, MissesNoneBehind, Queued
  <2> QED
    BY <2>1, <2>2 DEF Queued, Holds
<1> QED
  BY <1>2, <1>3, <1>4, <1>5 DEF head, rest

\* A unit is enqueued, and the first one is dropped if the queue was full.
LEMMA FeedQueue ==
  ASSUME InputAssumption, SettingsAssumption, TypeInv, QueueInv, Feed
  PROVE  /\ QueueInv'
         /\ Len(fed') = Len(fed) + 1 /\ \A id \in 1 .. Len(fed) : fed'[id] = fed[id]
         /\ Queued(Len(fed))'
         /\ IsFull => accessUnits # <<>>
         /\ \A id \in 1 .. Len(fed) :
               Queued(id)' <=> (Queued(id) /\ ~(IsFull /\ id = Head(accessUnits).id))
         /\ discontinuousPids' = IF IsFull THEN discontinuousPids \cup {Head(accessUnits).pid}
                                 ELSE discontinuousPids
         /\ UNCHANGED <<settings, pendingTsPackets>>
<1>1. PICK pid \in AuPids, time \in Times \cup {NoTime} :
        /\ \A id \in DOMAIN fed : fed[id].pid = pid => (time = NoTime \/ fed[id].time <= time)
        /\ EnqueueAccessUnit(pid, time)
        /\ fed' = Append(fed, [pid |-> pid, time |-> time])
  BY DEF Feed
<1> DEFINE kept == IF IsFull THEN Tail(accessUnits) ELSE accessUnits
           au   == [id |-> Len(fed) + 1, pid |-> pid, time |-> time]
<1>2. /\ fed \in Seq(FedUnits) /\ Len(fed) \in Nat /\ DOMAIN fed = 1 .. Len(fed)
      /\ [pid |-> pid, time |-> time] \in FedUnits
  BY DEF QueueInv, FedUnits
<1>3. accessUnits \in Seq(AccessUnits) /\ (IsFull => accessUnits # <<>>)
      /\ Len(accessUnits) \in Nat
  BY FullIsNotEmpty
<1>4. /\ kept \in Seq(AccessUnits) /\ WellQueued(kept, fed)
      /\ Len(kept) = IF IsFull THEN Len(accessUnits) - 1 ELSE Len(accessUnits)
      /\ \A id \in Nat :
            Holds(kept, id) <=> (Queued(id) /\ ~(IsFull /\ id = Head(accessUnits).id))
  <2>1. CASE IsFull
    BY <1>3, <2>1, HeadIsOldest
  <2>2. CASE ~IsFull
    BY <1>3, <2>2 DEF QueueInv, Queued
  <2> QED
    BY <2>1, <2>2
<1>5. PICK i \in 0 .. Len(kept) :
        InsertionPoint(kept, time, i) /\ accessUnits' = InsertAfter(kept, i, au)
  BY <1>1 DEF EnqueueAccessUnit, QueueInv
<1>6. /\ discontinuousPids' = IF IsFull THEN discontinuousPids \cup {Head(accessUnits).pid}
                              ELSE discontinuousPids
      /\ numEnqueued' = numEnqueued + 1 /\ UNCHANGED <<settings, pendingTsPackets>>
      /\ pid \in UnitPids
  BY <1>1 DEF EnqueueAccessUnit, DropOldest, sendVars, UnitPids
<1> HIDE DEF kept
<1>7. /\ WellQueued(accessUnits', fed') /\ accessUnits' \in Seq(AccessUnits)
      /\ Len(accessUnits') = Len(kept) + 1
      /\ \A id \in 1 .. Len(fed) : Holds(kept, id) <=> Holds(accessUnits', id)
      /\ Holds(accessUnits', Len(fed) + 1)
  <2> DEFINE u == [pid |-> pid, time |-> time]
  <2>1. FedInOrder(fed, u) /\ u.time = time /\ u \in FedUnits
    BY <1>1, <1>2 DEF FedInOrder
  <2>2. au \in AccessUnits /\ au.id = Len(fed) + 1 /\ au.pid = u.pid /\ au.time = u.time
    BY <1>2 DEF AccessUnits
  <2>3. fed' = Append(fed, u)
    BY <1>1
  <2> HIDE DEF au, u
  <2>4. kept \in Seq(AccessUnits) /\ WellQueued(kept, fed) /\ fed \in Seq(FedUnits)
    BY <1>2, <1>4
  <2>5. i \in 0 .. Len(kept) /\ InsertionPoint(kept, u.time, i)
    BY <1>5, <2>1
  <2> QED
    BY ONLY <1>5, <2>1, <2>2, <2>3, <2>4, <2>5, InsertedIsWellQueued
<1>8. Len(fed') = Len(fed) + 1 /\ (\A id \in 1 .. Len(fed) : fed'[id] = fed[id])
      /\ fed' \in Seq(FedUnits) /\ fed'[Len(fed) + 1].pid = pid
  BY <1>1, <1>2
<1>9. \A id \in 1 .. Len(fed') : fed'[id].pid \in UnitPids'
  <2>1. UnitPids' = UnitPids
    BY <1>6 DEF UnitPids
  <2>2. \A id \in 1 .. Len(fed) : fed[id].pid \in UnitPids
    BY DEF QueueInv
  <2>3. \A id \in 1 .. Len(fed') : id \in 1 .. Len(fed) \/ id = Len(fed) + 1
    BY <1>2, <1>8
  <2> QED
    BY <1>6, <1>8, <2>1, <2>2, <2>3
<1>10. settings'.maxNumQueuedAccessUnits > 0 =>
          Len(accessUnits') <= settings'.maxNumQueuedAccessUnits
  <2>1. settings.maxNumQueuedAccessUnits \in Nat
    BY SettingsAssumption DEF TypeInv, TypeOK, TSMuxerSettings
  <2> QED
    BY <1>3, <1>4, <1>6, <1>7, <2>1 DEF QueueInv, IsFull
<1>11. QueueInv'
  BY <1>2, <1>6, <1>7, <1>8, <1>9, <1>10 DEF QueueInv
<1>12. Queued(Len(fed))' /\ \A id \in 1 .. Len(fed) :
          Queued(id)' <=> (Queued(id) /\ ~(IsFull /\ id = Head(accessUnits).id))
  BY <1>2, <1>4, <1>7, <1>8 DEF Queued
<1> QED
  BY <1>3, <1>6, <1>8, <1>11, <1>12

\* A step that takes no part in the queue, or packetizes its first unit.
LEMMA OtherQueue ==
  ASSUME InputAssumption, SettingsAssumption, TypeInv, QueueInv,
         UnitsRest \/ EmitsPending \/ PacketizesHead
  PROVE  QueueInv'
<1>1. UNCHANGED <<settings, numEnqueued, fed>> /\ UnitPids' = UnitPids
  BY DEF UnitsRest, EmitsPending, PacketizesHead, UnitPids
<1>2. CASE UnitsRest \/ EmitsPending
  <2>1. accessUnits' = accessUnits
    BY <1>2 DEF UnitsRest, EmitsPending
  <2> QED
    BY <1>1, <2>1 DEF QueueInv
<1>3. CASE PacketizesHead
  <2>1. accessUnits # <<>> /\ accessUnits' = Tail(accessUnits)
    BY <1>3 DEF PacketizesHead
  <2>2. WellQueued(accessUnits', fed) /\ Len(accessUnits') = Len(accessUnits) - 1
        /\ Len(accessUnits) \in Nat
    BY <2>1, HeadIsOldest, LenProperties DEF TypeInv, TypeOK
  <2>3. settings.maxNumQueuedAccessUnits \in Nat
    BY SettingsAssumption DEF TypeInv, TypeOK, TSMuxerSettings
  <2> QED
    BY <1>1, <2>2, <2>3 DEF QueueInv
<1> QED
  BY <1>2, <1>3

-----------------------------------------------------------------------------
(* The packets of a unit *)

\* What waits are the last parts of one unit, in order.
PartsInv ==
  \A i \in 1 .. Len(pendingTsPackets) :
    /\ pendingTsPackets[i].pid = pendingTsPackets[1].pid
    /\ pendingTsPackets[i].au = pendingTsPackets[1].au
    /\ pendingTsPackets[i].of = pendingTsPackets[1].of
    /\ pendingTsPackets[i].part = pendingTsPackets[1].part + (i - 1)
    /\ pendingTsPackets[i].part + (Len(pendingTsPackets) - i) = pendingTsPackets[i].of
    /\ pendingTsPackets[i].pid \in UnitPids
    /\ pendingTsPackets[i].au # 0 /\ pendingTsPackets[i].part # 0

\* The receiver has seen the parts before them, and of the other PIDs whole units.
UnitInv ==
  /\ unit \in [AuPids -> UnitPlaces]
  /\ \A pid \in AuPids :
       IF LeadsPending(pid) /\ pendingTsPackets[1].part # 1
       THEN /\ unit[pid].au = pendingTsPackets[1].au
            /\ unit[pid].part + 1 = pendingTsPackets[1].part
            /\ unit[pid].of = pendingTsPackets[1].of
       ELSE unit[pid].part = unit[pid].of

\* The receiver begins with whole units, and nothing waits.
LEMMA WholeInit ==
  ASSUME MInit
  PROVE  ModeInv /\ PartsInv /\ UnitInv
BY DEF MInit, Init, ModeInv, PartsInv, UnitInv, LeadsPending, UnitPlaces, NoUnit

\* VBR ticks drain what they packetize, CBR ticks have one loop.
LEMMA ModeNext ==
  ASSUME TypeInv, ModeInv, [MNext]_allVars
  PROVE  ModeInv'
<1>1. CASE Feed
  BY <1>1 DEF Feed, EnqueueAccessUnit, tickVars, sendVars, ModeInv
<1>2. CASE AdvanceClock \/ BeginTick \/ UNCHANGED allVars
  BY <1>2 DEF AdvanceClock, BeginTick, allVars, vars, tickVars, queueVars, sendVars, ModeInv
<1>3. CASE SendPat \/ SendPmt \/ SkipPsiVBR \/ NothingQueuedVBR \/ EndIterationVBR
             \/ SendNullCBR \/ EndTickCBR \/ SendPcrVBR \/ SendPcrCBR
  BY <1>3
  DEF SendPat, SendPmt, SkipPsiVBR, NothingQueuedVBR, EndIterationVBR, SendNullCBR, EndTickCBR,
      SendPcrVBR, SendPcrCBR, ContentTurnCBR, MayIterate, Iterate, GoTo, KeepQueues, sendVars,
      ModeInv
<1>4. CASE PacketizeVBR \/ PacketizeCBR \/ EmitPendingCBR
  BY <1>4 DEF PacketizeVBR, PacketizeCBR, EmitPendingCBR, ContentTurnCBR, Iterate, GoTo, ModeInv
<1>5. CASE EmitPendingVBR
  <2>1. pc = "drain" /\ pendingTsPackets # <<>> /\ pendingTsPackets \in Seq(Packets)
    BY <1>5 DEF EmitPendingVBR, TypeInv, TypeOK, DrainsSomething
  <2>2. /\ pendingTsPackets' = Tail(pendingTsPackets) /\ UNCHANGED settings
        /\ pc' = IF Len(pendingTsPackets) = 1 THEN "pcr" ELSE "drain"
    BY <1>5 DEF EmitPendingVBR, EmitPending, GoTo
  <2>3. Len(pendingTsPackets) = 1 => Tail(pendingTsPackets) = <<>>
    <3>1. /\ Tail(pendingTsPackets) \in Seq(Packets)
          /\ Len(Tail(pendingTsPackets)) = Len(pendingTsPackets) - 1
      BY <2>1, HeadTailProperties
    <3>2. Len(pendingTsPackets) = 1 => Len(Tail(pendingTsPackets)) = 0
      BY <3>1
    <3> QED
      BY <3>1, <3>2, EmptySeq
  <2> QED
    BY <2>1, <2>2, <2>3 DEF ModeInv
<1> QED
  BY <1>1, <1>2, <1>3, <1>4, <1>5 DEF MNext, MuxStep, TickStep

\* The first of the waiting packets, and what is left when it has gone.
LEMMA PendingHead ==
  ASSUME TypeInv, PartsInv, pendingTsPackets # <<>>
  PROVE  LET first == Head(pendingTsPackets)
             rest  == Tail(pendingTsPackets)
         IN  /\ first = pendingTsPackets[1] /\ first \in Packets
             /\ first.pid \in UnitPids /\ first.pid \in AuPids
             /\ first.au \in Nat \ {0} /\ first.part \in Nat \ {0} /\ first.of \in Nat
             /\ Len(pendingTsPackets) \in Nat \ {0}
             /\ Len(rest) = Len(pendingTsPackets) - 1
             /\ \A i \in 1 .. Len(rest) :
                   rest[i] = pendingTsPackets[i + 1] /\ i + 1 \in 1 .. Len(pendingTsPackets)
             /\ first.of = first.part + Len(rest)
             /\ rest # <<>> => /\ rest[1].pid = first.pid /\ rest[1].au = first.au
                               /\ rest[1].of = first.of /\ rest[1].part = first.part + 1
             /\ rest = <<>> <=> Len(rest) = 0
<1> DEFINE first == Head(pendingTsPackets)
           rest  == Tail(pendingTsPackets)
<1>1. pendingTsPackets \in Seq(Packets)
  BY DEF TypeInv, TypeOK
<1>2. /\ Len(pendingTsPackets) \in Nat \ {0} /\ 1 \in 1 .. Len(pendingTsPackets)
      /\ first = pendingTsPackets[1] /\ first \in Packets
      /\ rest \in Seq(Packets) /\ Len(rest) = Len(pendingTsPackets) - 1
      /\ \A i \in 1 .. Len(rest) : rest[i] = pendingTsPackets[i + 1]
  BY <1>1, HeadTailProperties, LenProperties, EmptySeq
<1>3. /\ first.pid \in UnitPids /\ first.au # 0 /\ first.part # 0
      /\ first.part + (Len(pendingTsPackets) - 1) = first.of
  BY <1>2 DEF PartsInv
<1>4. first.au \in Nat /\ first.part \in Nat /\ first.of \in Nat /\ UnitPids \subseteq AuPids
  BY <1>2 DEF Packets, UnitPids
<1>5. rest = <<>> <=> Len(rest) = 0
  BY <1>2, EmptySeq
<1> HIDE DEF first, rest
<1>6. \A i \in 1 .. Len(rest) : i + 1 \in 1 .. Len(pendingTsPackets)
  BY <1>2
<1>7. first.of = first.part + Len(rest)
  BY <1>2, <1>3, <1>4
<1>8. ASSUME rest # <<>>
      PROVE  /\ rest[1].pid = first.pid /\ rest[1].au = first.au
             /\ rest[1].of = first.of /\ rest[1].part = first.part + 1
  <2>1. 1 \in 1 .. Len(rest) /\ 2 \in 1 .. Len(pendingTsPackets) /\ 1 + 1 = 2 /\ 2 - 1 = 1
    BY <1>2, <1>5, <1>8
  <2>2. rest[1] = pendingTsPackets[2]
    BY <1>2, <2>1
  <2>3. /\ pendingTsPackets[2].pid = first.pid /\ pendingTsPackets[2].au = first.au
        /\ pendingTsPackets[2].of = first.of
        /\ pendingTsPackets[2].part = first.part + (2 - 1)
    BY <1>2, <2>1 DEF PartsInv
  <2> QED
    BY <2>1, <2>2, <2>3
<1> QED
  BY <1>2, <1>3, <1>4, <1>5, <1>6, <1>7, <1>8 DEF first, rest

\* The packets of the first unit of the queue, when it has been packetized.
LEMMA PacketizedHead ==
  ASSUME InputAssumption, TypeInv, TypeInv', QueueInv, PacketizesHead
  PROVE  LET head == Head(accessUnits)
         IN  /\ pendingTsPackets' # <<>> /\ Len(pendingTsPackets') \in Nat \ {0}
             /\ \A i \in 1 .. Len(pendingTsPackets') :
                  /\ pendingTsPackets'[i].pid = head.pid /\ pendingTsPackets'[i].au = head.id
                  /\ pendingTsPackets'[i].part = i
                  /\ pendingTsPackets'[i].of = Len(pendingTsPackets')
                  /\ pendingTsPackets'[i].disc <=> (i = 1 /\ head.pid \in discontinuousPids)
             /\ head.pid \in UnitPids /\ head.id \in Nat \ {0}
<1> DEFINE head == Head(accessUnits)
<1>1. PICK n \in AuPacketCounts : \E anchor, value :
        pendingTsPackets' = PesPackets(head, n, anchor, value)
  BY DEF PacketizesHead
<1>2. PICK anchor, value : pendingTsPackets' = PesPackets(head, n, anchor, value)
  BY <1>1
<1>3. n \in Nat \ {0} /\ pendingTsPackets' \in Seq(Packets)
  BY InputAssumption DEF TypeInv, TypeOK
<1>4. Len(pendingTsPackets') = n
  <2>1. /\ Len(pendingTsPackets') \in Nat
        /\ DOMAIN pendingTsPackets' = 1 .. Len(pendingTsPackets')
    BY <1>3, LenProperties
  <2>2. DOMAIN pendingTsPackets' = 1 .. n
    BY <1>2 DEF PesPackets
  <2>3. \A k, m \in Nat : m # 0 /\ 1 .. k = 1 .. m => k = m
    <3> SUFFICES ASSUME NEW k \in Nat, NEW m \in Nat, m # 0, 1 .. k = 1 .. m PROVE k = m
      OBVIOUS
    <3>1. m \in 1 .. k
      OBVIOUS
    <3>2. k \in 1 .. m
      BY <3>1
    <3> QED
      BY <3>1, <3>2
  <2>4. 1 .. Len(pendingTsPackets') = 1 .. n
    BY <2>1, <2>2
  <2> QED
    BY <1>3, <2>1, <2>3, <2>4
<1>5. ASSUME NEW i \in 1 .. n
      PROVE  /\ pendingTsPackets'[i].pid = head.pid /\ pendingTsPackets'[i].au = head.id
             /\ pendingTsPackets'[i].part = i /\ pendingTsPackets'[i].of = n
             /\ pendingTsPackets'[i].disc <=> (i = 1 /\ head.pid \in discontinuousPids)
  BY <1>2, <1>5 DEF PesPackets, PlainPacket
<1>6. accessUnits # <<>>
  BY DEF PacketizesHead
<1> HIDE DEF head
<1>7. head \in AccessUnits /\ head.id \in 1 .. Len(fed) /\ fed[head.id].pid = head.pid
  BY <1>6, HeadIsOldest DEF head
<1>8. head.pid \in UnitPids /\ head.id \in Nat \ {0}
  BY <1>7 DEF QueueInv
<1>9. pendingTsPackets' # <<>>
  BY <1>3, <1>4, EmptySeq
<1> QED
  BY <1>3, <1>4, <1>5, <1>8, <1>9 DEF head

\* What WholeUnits says of one step.
OnlyWholeUnits ==
  Emitting /\ IsPes(Sent) =>
    /\ \A pid \in AuPids \ {Sent.pid} : unit[pid].part = unit[pid].of
    /\ IF Sent.part = 1 THEN unit[Sent.pid].part = unit[Sent.pid].of
       ELSE unit[Sent.pid] = [au |-> Sent.au, part |-> Sent.part - 1, of |-> Sent.of]

\* Every step keeps units whole.
LEMMA WholeNext ==
  ASSUME InputAssumption, TypeInv, TypeInv', ModeInv, QueueInv, PartsInv, UnitInv, MNext
  PROVE  PartsInv' /\ UnitInv' /\ OnlyWholeUnits
<1>1. unit \in [AuPids -> UnitPlaces] /\ Watch
  BY DEF UnitInv, MNext
<1>2. CASE \/ Feed /\ unit' = unit
           \/ UnitsRest /\ (Emitting => ~IsPes(Sent))
  <2>1. UNCHANGED <<settings, pendingTsPackets, unit>> /\ (Emitting => ~IsPes(Sent))
    BY <1>2, SilentSteps DEF UnitsRest, Feed, EnqueueAccessUnit, sendVars
  <2> QED
    BY <2>1 DEF PartsInv, UnitInv, LeadsPending, UnitPids, OnlyWholeUnits
<1>3. CASE PacketizesHead
  <2> DEFINE head == Head(accessUnits)
  <2>1. pendingTsPackets = <<>> /\ UNCHANGED <<settings, unit>> /\ UnitPids' = UnitPids
    BY <1>3 DEF PacketizesHead, UnitPids
  <2>2. /\ pendingTsPackets' # <<>> /\ Len(pendingTsPackets') \in Nat \ {0}
        /\ \A i \in 1 .. Len(pendingTsPackets') :
             /\ pendingTsPackets'[i].pid = head.pid /\ pendingTsPackets'[i].au = head.id
             /\ pendingTsPackets'[i].part = i
             /\ pendingTsPackets'[i].of = Len(pendingTsPackets')
        /\ head.pid \in UnitPids /\ head.id \in Nat \ {0}
    BY <1>3, PacketizedHead
  <2> HIDE DEF head
  <2>3. 1 \in 1 .. Len(pendingTsPackets')
    BY <2>2
  <2>4. PartsInv'
    <3> SUFFICES ASSUME NEW i \in 1 .. Len(pendingTsPackets')
                 PROVE  /\ pendingTsPackets'[i].pid = pendingTsPackets'[1].pid
                        /\ pendingTsPackets'[i].au = pendingTsPackets'[1].au
                        /\ pendingTsPackets'[i].of = pendingTsPackets'[1].of
                        /\ pendingTsPackets'[i].part = pendingTsPackets'[1].part + (i - 1)
                        /\ pendingTsPackets'[i].part + (Len(pendingTsPackets') - i)
                             = pendingTsPackets'[i].of
                        /\ pendingTsPackets'[i].pid \in UnitPids'
                        /\ pendingTsPackets'[i].au # 0 /\ pendingTsPackets'[i].part # 0
      BY DEF PartsInv
    <3>1. i \in Nat \ {0} /\ 1 + (i - 1) = i
          /\ i + (Len(pendingTsPackets') - i) = Len(pendingTsPackets')
      BY <2>2
    <3> QED
      BY <2>1, <2>2, <2>3, <3>1
  <2>5. UnitInv'
    BY <2>1, <2>2, <2>3 DEF UnitInv, LeadsPending
  <2>6. ~Emitting
    BY <1>3 DEF Emitting, PacketizesHead
  <2> QED
    BY <2>4, <2>5, <2>6 DEF OnlyWholeUnits
<1>4. CASE EmitsPending
  <2> DEFINE first == Head(pendingTsPackets)
             rest  == Tail(pendingTsPackets)
  <2>1. /\ pendingTsPackets # <<>> /\ Emitting /\ Sent = first /\ pendingTsPackets' = rest
        /\ UNCHANGED settings /\ UnitPids' = UnitPids
    BY <1>4 DEF EmitsPending, UnitPids
  <2>2. /\ first = pendingTsPackets[1] /\ first \in Packets
        /\ first.pid \in UnitPids /\ first.pid \in AuPids
        /\ first.au \in Nat \ {0} /\ first.part \in Nat \ {0} /\ first.of \in Nat
        /\ Len(pendingTsPackets) \in Nat \ {0}
        /\ Len(rest) = Len(pendingTsPackets) - 1
        /\ \A i \in 1 .. Len(rest) :
              rest[i] = pendingTsPackets[i + 1] /\ i + 1 \in 1 .. Len(pendingTsPackets)
        /\ first.of = first.part + Len(rest)
        /\ rest # <<>> => /\ rest[1].pid = first.pid /\ rest[1].au = first.au
                          /\ rest[1].of = first.of /\ rest[1].part = first.part + 1
        /\ rest = <<>> <=> Len(rest) = 0
    BY <2>1, PendingHead
  <2> HIDE DEF first, rest
  <2>3. /\ IsPes(first)
        /\ unit' = [pid \in AuPids |->
                      IF first.pid = pid
                      THEN [au |-> first.au, part |-> first.part, of |-> first.of]
                      ELSE unit[pid]]
    BY <1>1, <2>1, <2>2 DEF Watch, IsPes
  <2>4. LeadsPending(first.pid) /\ \A pid \in AuPids \ {first.pid} : ~LeadsPending(pid)
    BY <2>1, <2>2 DEF LeadsPending
  <2>5. OnlyWholeUnits
    <3>1. \A pid \in AuPids \ {first.pid} : unit[pid].part = unit[pid].of
      BY <2>4 DEF UnitInv
    <3>2. first.part = 1 => unit[first.pid].part = unit[first.pid].of
      BY <2>2, <2>4 DEF UnitInv
    <3>3. ASSUME first.part # 1
          PROVE  unit[first.pid] = [au |-> first.au, part |-> first.part - 1, of |-> first.of]
      <4>1. unit[first.pid] \in UnitPlaces
        BY <1>1, <2>2
      <4>2. /\ unit[first.pid].au = first.au /\ unit[first.pid].part + 1 = first.part
            /\ unit[first.pid].of = first.of
        BY <2>2, <2>4, <3>3 DEF UnitInv
      <4>3. unit[first.pid].part = first.part - 1
        BY <2>2, <4>1, <4>2 DEF UnitPlaces
      <4> QED
        BY <4>1, <4>2, <4>3 DEF UnitPlaces
    <3> QED
      BY <2>1, <3>1, <3>2, <3>3 DEF OnlyWholeUnits
  <2>6. UnitInv'
    <3>1. unit' \in [AuPids -> UnitPlaces]
      BY <1>1, <2>2, <2>3 DEF UnitPlaces
    <3>2. ASSUME NEW pid \in AuPids, pid # first.pid
          PROVE  unit'[pid].part = unit'[pid].of /\ ~LeadsPending(pid)'
      <4>1. ~LeadsPending(pid)'
        BY <2>1, <2>2, <3>2 DEF LeadsPending
      <4>2. unit[pid].part = unit[pid].of /\ unit'[pid] = unit[pid]
        BY <2>3, <2>4, <3>2 DEF UnitInv
      <4> QED
        BY <4>1, <4>2
    <3>3. /\ unit'[first.pid].au = first.au /\ unit'[first.pid].part = first.part
          /\ unit'[first.pid].of = first.of
      BY <2>2, <2>3
    <3>4. CASE rest = <<>>
      <4>1. first.part = first.of
        <5>1. Len(rest) = 0
          BY <2>2, <3>4
        <5>2. first.of = first.part + 0 /\ first.part \in Nat
          BY <2>2, <5>1
        <5> QED
          BY <5>2
      <4> QED
        BY <2>1, <3>1, <3>2, <3>3, <3>4, <4>1 DEF UnitInv, LeadsPending
    <3>5. CASE rest # <<>>
      <4>1. rest[1].part # 1 /\ rest[1].part = first.part + 1
        BY <2>2, <3>5
      <4> QED
        BY <2>1, <2>2, <3>1, <3>2, <3>3, <3>5, <4>1 DEF UnitInv, LeadsPending
    <3> QED
      BY <3>4, <3>5
  <2>7. PartsInv'
    <3> SUFFICES ASSUME NEW i \in 1 .. Len(rest)
                 PROVE  /\ rest[i].pid = rest[1].pid /\ rest[i].au = rest[1].au
                        /\ rest[i].of = rest[1].of
                        /\ rest[i].part = rest[1].part + (i - 1)
                        /\ rest[i].part + (Len(rest) - i) = rest[i].of
                        /\ rest[i].pid \in UnitPids
                        /\ rest[i].au # 0 /\ rest[i].part # 0
      BY <2>1 DEF PartsInv
    <3>1. /\ rest[i] = pendingTsPackets[i + 1] /\ i + 1 \in 1 .. Len(pendingTsPackets)
          /\ rest # <<>> /\ i \in Nat
      BY <2>2
    <3>2. /\ rest[i].pid = first.pid /\ rest[i].au = first.au /\ rest[i].of = first.of
          /\ rest[i].part = first.part + (i + 1 - 1)
          /\ rest[i].part + (Len(pendingTsPackets) - (i + 1)) = rest[i].of
          /\ rest[i].pid \in UnitPids /\ rest[i].au # 0 /\ rest[i].part # 0
      BY <2>2, <3>1 DEF PartsInv
    <3> QED
      BY <2>2, <3>1, <3>2
  <2> QED
    BY <2>5, <2>6, <2>7
<1> QED
  BY <1>1, <1>2, <1>3, <1>4, KindsOfSteps

-----------------------------------------------------------------------------
(* Losses.  A unit that was fed and is not queued has been packetized or     *)
(* dropped; the receiver is owed a flag exactly when the last of those on a  *)
(* PID is not the last one packetized.                                       *)

\* The last element of a set of ids, 0 when there is none.
IsLast(id, S) == IF S = {} THEN id = 0 ELSE id \in S /\ \A k \in S : k <= id

LastOf(S) == IF S = {} THEN 0 ELSE CHOOSE id \in S : \A k \in S : k <= id

Gone(pid) == {id \in 1 .. Len(fed) : fed[id].pid = pid /\ ~Queued(id)}

LastPacketized(pid) == IF LeadsPending(pid) THEN pendingTsPackets[1].au ELSE unit[pid].au

OwedInv ==
  \A pid \in AuPids :
    /\ LastPacketized(pid) \in Gone(pid) \cup {0}
    /\ \E last \in Nat : /\ IsLast(last, Gone(pid))
                         /\ pid \in discontinuousPids <=> LastPacketized(pid) # last

FlagInv ==
  pendingTsPackets # <<>> /\ pendingTsPackets[1].part = 1 =>
    /\ pendingTsPackets[1].au \in 1 .. Len(fed)
    /\ pendingTsPackets[1].disc <=>
         (unit[pendingTsPackets[1].pid].au # Predecessor(pendingTsPackets[1].au))

SignalInv == OwedInv /\ FlagInv

\* The units of the PID of a unit that were enqueued before it.
Before(id) == {j \in 1 .. id - 1 : fed[j].pid = fed[id].pid}

\* The predecessor is the last of them.
LEMMA PredecessorIsLast ==
  ASSUME NEW id \in Nat, NEW last, IsLast(last, Before(id))
  PROVE  Predecessor(id) = last
<1>1. CASE Before(id) = {}
  BY <1>1 DEF Predecessor, Before, IsLast
<1>2. CASE Before(id) # {}
  <2>1. Before(id) \subseteq Int
    BY DEF Before
  <2>2. last \in Before(id) /\ \A k \in Before(id) : k <= last
    BY <1>2 DEF IsLast
  <2>3. \A m \in Before(id) : (\A k \in Before(id) : k <= m) => m = last
    BY <2>1, <2>2
  <2>4. Predecessor(id) = CHOOSE m \in Before(id) : \A k \in Before(id) : k <= m
    BY <1>2 DEF Predecessor, Before
  <2> QED
    BY <2>2, <2>3, <2>4
<1> QED
  BY <1>1, <1>2

\* The receiver has seen no unit, and none was lost.
LEMMA SignalInit ==
  ASSUME MInit
  PROVE  SignalInv
<1>1. /\ fed = <<>> /\ pendingTsPackets = <<>> /\ discontinuousPids = {}
      /\ \A pid \in AuPids : unit[pid].au = 0
  BY DEF MInit, Init, NoUnit
<1>2. ASSUME NEW pid \in AuPids
      PROVE  Gone(pid) = {} /\ LastPacketized(pid) = 0 /\ IsLast(0, {})
  BY <1>1 DEF Gone, LastPacketized, LeadsPending, IsLast
<1> QED
  BY <1>1, <1>2 DEF SignalInv, OwedInv, FlagInv

\* A later id is the last one.
LEMMA LaterIsLast ==
  ASSUME NEW S, NEW id \in Nat, \A k \in S : k \in Nat /\ k < id
  PROVE  IsLast(id, S \cup {id})
BY DEF IsLast

\* A unit that is fed is not gone, and a unit that is dropped for it is owed a flag.
LEMMA SignalFeed ==
  ASSUME InputAssumption, SettingsAssumption, TypeInv, QueueInv, SignalInv, Feed, unit' = unit
  PROVE  SignalInv'
<1> PICK head : head = Head(accessUnits)
  OBVIOUS
<1>1. /\ Len(fed') = Len(fed) + 1 /\ \A id \in 1 .. Len(fed) : fed'[id] = fed[id]
      /\ Queued(Len(fed))'
      /\ IsFull => accessUnits # <<>>
      /\ \A id \in 1 .. Len(fed) : Queued(id)' <=> (Queued(id) /\ ~(IsFull /\ id = head.id))
      /\ discontinuousPids' = IF IsFull THEN discontinuousPids \cup {head.pid}
                              ELSE discontinuousPids
      /\ UNCHANGED <<settings, pendingTsPackets>>
  BY FeedQueue
<1>2. Len(fed) \in Nat /\ \A id \in 1 .. Len(fed') : id \in 1 .. Len(fed) \/ id = Len(fed')
  BY <1>1 DEF QueueInv
<1>3. 1 .. Len(fed) \subseteq 1 .. Len(fed') /\ 1 .. Len(fed) \subseteq Nat \ {0}
  BY <1>1, <1>2
<1>4. IsFull => /\ head.id \in 1 .. Len(fed) /\ fed[head.id].pid = head.pid /\ Queued(head.id)
                /\ \A id \in 1 .. Len(fed) :
                     fed[id].pid = head.pid /\ id > head.id => Queued(id)
  BY <1>1, HeadIsOldest
<1>5. FlagInv'
  <2> SUFFICES ASSUME pendingTsPackets # <<>>, pendingTsPackets[1].part = 1
               PROVE  \A id : id = pendingTsPackets[1].au =>
                        /\ id \in 1 .. Len(fed')
                        /\ pendingTsPackets[1].disc <=>
                             (unit[pendingTsPackets[1].pid].au # Predecessor(id)')
    BY <1>1 DEF FlagInv, Predecessor
  <2> TAKE id
  <2> HAVE id = pendingTsPackets[1].au
  <2>1. id \in 1 .. Len(fed)
        /\ (pendingTsPackets[1].disc <=>
              (unit[pendingTsPackets[1].pid].au # Predecessor(pendingTsPackets[1].au)))
    BY DEF SignalInv, FlagInv
  <2>2. fed'[id] = fed[id] /\ \A j \in 1 .. id - 1 : fed'[j] = fed[j]
    BY <1>1, <1>2, <2>1
  <2>3. {j \in 1 .. id - 1 : fed'[j].pid = fed'[id].pid}
          = {j \in 1 .. id - 1 : fed[j].pid = fed[id].pid}
    BY <2>2
  <2>4. Predecessor(id)' = Predecessor(id)
    <3>1. Predecessor(id) = LastOf({j \in 1 .. id - 1 : fed[j].pid = fed[id].pid})
      BY DEF Predecessor, LastOf
    <3>2. Predecessor(id)' = LastOf({j \in 1 .. id - 1 : fed'[j].pid = fed'[id].pid})
      BY DEF Predecessor, LastOf
    <3> QED
      BY <2>3, <3>1, <3>2
  <2> QED
    BY <1>3, <2>1, <2>4
<1>6. ASSUME NEW pid \in AuPids
      PROVE  /\ LastPacketized(pid)' \in Gone(pid)' \cup {0}
             /\ \E last \in Nat :
                  /\ IsLast(last, Gone(pid)')
                  /\ pid \in discontinuousPids' <=> LastPacketized(pid)' # last
  <2>1. LastPacketized(pid)' = LastPacketized(pid)
    BY <1>1 DEF LastPacketized, LeadsPending
  <2>2. PICK last \in Nat : /\ IsLast(last, Gone(pid))
                            /\ pid \in discontinuousPids <=> LastPacketized(pid) # last
    BY DEF SignalInv, OwedInv
  <2>3. LastPacketized(pid) \in Gone(pid) \cup {0}
    BY DEF SignalInv, OwedInv
  <2>4. CASE IsFull /\ head.pid = pid
    <3>1. Gone(pid)' = Gone(pid) \cup {head.id}
      <4>1. ~Queued(head.id)' /\ head.id \in 1 .. Len(fed')
        BY <1>1, <1>3, <1>4, <2>4
      <4>2. \A id \in 1 .. Len(fed) : id # head.id => (Queued(id)' <=> Queued(id))
        BY <1>1
      <4> QED
        BY <1>1, <1>2, <1>3, <1>4, <2>4, <4>1, <4>2 DEF Gone
    <3>2. \A k \in Gone(pid) : k \in Nat /\ k < head.id
      BY <1>2, <1>4, <2>4 DEF Gone
    <3>3. head.id \in Nat \ {0} /\ head.id \notin Gone(pid)
      BY <1>3, <1>4, <2>4 DEF Gone
    <3>4. IsLast(head.id, Gone(pid)')
      BY <3>1, <3>2, <3>3, LaterIsLast
    <3>5. pid \in discontinuousPids' /\ LastPacketized(pid)' # head.id
      BY <1>1, <2>1, <2>3, <2>4, <3>3
    <3> QED
      BY <2>1, <2>3, <3>1, <3>3, <3>4, <3>5
  <2>5. CASE ~(IsFull /\ head.pid = pid)
    <3>1. Gone(pid)' = Gone(pid)
      <4>1. \A id \in 1 .. Len(fed) : fed[id].pid = pid => (Queued(id)' <=> Queued(id))
        BY <1>1, <1>4, <2>5
      <4> QED
        BY <1>1, <1>2, <1>3, <4>1 DEF Gone
    <3>2. pid \in discontinuousPids' <=> pid \in discontinuousPids
      BY <1>1, <2>5
    <3> QED
      BY <2>1, <2>2, <2>3, <3>1, <3>2
  <2> QED
    BY <2>4, <2>5
<1>7. OwedInv'
  BY <1>6 DEF OwedInv
<1> QED
  BY <1>5, <1>7 DEF SignalInv

\* A unit that is packetized is the last of its PID, and takes the flag with it.
LEMMA SignalPacketize ==
  ASSUME InputAssumption, TypeInv, TypeInv', QueueInv, SignalInv, PacketizesHead
  PROVE  SignalInv'
<1> PICK head : head = Head(accessUnits)
  OBVIOUS
<1>1. /\ accessUnits # <<>> /\ pendingTsPackets = <<>> /\ accessUnits' = Tail(accessUnits)
      /\ discontinuousPids' = discontinuousPids \ {head.pid}
      /\ UNCHANGED <<fed, unit>>
  BY DEF PacketizesHead
<1>2. /\ head.id \in 1 .. Len(fed) /\ fed[head.id].pid = head.pid /\ Queued(head.id)
      /\ \A id \in 1 .. Len(fed) : fed[id].pid = head.pid =>
            (id < head.id => ~Queued(id)) /\ (id > head.id => Queued(id))
      /\ \A id \in Nat : Queued(id)' <=> (Queued(id) /\ id # head.id)
  BY <1>1, HeadIsOldest DEF Queued
<1>3. /\ pendingTsPackets' # <<>> /\ 1 \in 1 .. Len(pendingTsPackets')
      /\ pendingTsPackets'[1].pid = head.pid /\ pendingTsPackets'[1].au = head.id
      /\ pendingTsPackets'[1].disc <=> head.pid \in discontinuousPids
      /\ head.pid \in AuPids
  <2>1. 1 \in 1 .. Len(pendingTsPackets')
    BY PacketizedHead
  <2> QED
    BY <2>1, PacketizedHead DEF UnitPids
<1>4. Len(fed) \in Nat /\ 1 .. Len(fed) \subseteq Nat \ {0}
  BY DEF QueueInv
<1>5. \A pid \in AuPids : LastPacketized(pid) = unit[pid].au
  BY <1>1 DEF LastPacketized, LeadsPending
<1>6. Before(head.id) = Gone(head.pid) /\ \A k \in Gone(head.pid) : k \in Nat /\ k < head.id
  BY <1>2, <1>4 DEF Before, Gone
<1>7. ASSUME NEW pid \in AuPids
      PROVE  /\ LastPacketized(pid)' \in Gone(pid)' \cup {0}
             /\ \E last \in Nat :
                  /\ IsLast(last, Gone(pid)')
                  /\ pid \in discontinuousPids' <=> LastPacketized(pid)' # last
  <2>1. CASE pid = head.pid
    <3>1. LastPacketized(pid)' = head.id
      BY <1>3, <2>1 DEF LastPacketized, LeadsPending
    <3>2. Gone(pid)' = Gone(pid) \cup {head.id}
      BY <1>1, <1>2, <1>4, <2>1 DEF Gone
    <3>3. IsLast(head.id, Gone(pid)')
      <4>1. head.id \in Nat /\ \A k \in Gone(pid) : k \in Nat /\ k < head.id
        BY <1>2, <1>4, <1>6, <2>1
      <4> QED
        BY <3>2, <4>1, LaterIsLast
    <3> QED
      BY <1>1, <1>2, <1>4, <2>1, <3>1, <3>2, <3>3
  <2>2. CASE pid # head.pid
    <3>1. LastPacketized(pid)' = LastPacketized(pid)
      BY <1>1, <1>3, <1>5, <2>2 DEF LastPacketized, LeadsPending
    <3>2. Gone(pid)' = Gone(pid)
      BY <1>1, <1>2, <1>4, <2>2 DEF Gone
    <3>3. pid \in discontinuousPids' <=> pid \in discontinuousPids
      BY <1>1, <2>2
    <3> QED
      BY <3>1, <3>2, <3>3 DEF SignalInv, OwedInv
  <2> QED
    BY <2>1, <2>2
<1>8. FlagInv'
  <2>1. PICK last \in Nat : /\ IsLast(last, Gone(head.pid))
                            /\ head.pid \in discontinuousPids <=>
                                 LastPacketized(head.pid) # last
    BY <1>3 DEF SignalInv, OwedInv
  <2>2. Predecessor(head.id) = last
    BY <1>2, <1>4, <1>6, <2>1, PredecessorIsLast
  <2>3. Predecessor(head.id)' = Predecessor(head.id)
    BY <1>1 DEF Predecessor
  <2>4. head.pid \in discontinuousPids <=> unit[head.pid].au # Predecessor(head.id)
    BY <1>3, <1>5, <2>1, <2>2
  <2>5. pendingTsPackets'[1].au \in 1 .. Len(fed')
    BY <1>1, <1>2, <1>3
  <2>6. FlagInv' = (pendingTsPackets' # <<>> /\ pendingTsPackets'[1].part = 1 =>
                      /\ pendingTsPackets'[1].au \in 1 .. Len(fed')
                      /\ pendingTsPackets'[1].disc <=>
                           (unit'[pendingTsPackets'[1].pid].au # Predecessor(head.id)'))
    BY <1>3 DEF FlagInv, Predecessor
  <2> QED
    BY <1>1, <1>3, <2>3, <2>4, <2>5, <2>6
<1>9. OwedInv'
  BY <1>7 DEF OwedInv
<1> QED
  BY <1>8, <1>9 DEF SignalInv

\* Steps that leave units alone neither lose nor signal any.
LEMMA SignalRest ==
  ASSUME SignalInv, UnitsRest
  PROVE  SignalInv'
<1>1. UNCHANGED <<accessUnits, fed, pendingTsPackets, discontinuousPids, unit>>
  BY DEF UnitsRest
<1>2. OwedInv'
  <2>1. \A pid : Gone(pid)' = Gone(pid) /\ LastPacketized(pid)' = LastPacketized(pid)
    BY <1>1 DEF Gone, Queued, LastPacketized, LeadsPending
  <2> QED
    BY <1>1, <2>1 DEF SignalInv, OwedInv
<1>3. FlagInv'
  <2>1. \A id : Predecessor(id)' = Predecessor(id)
    BY <1>1 DEF Predecessor
  <2> QED
    BY <1>1, <2>1 DEF SignalInv, FlagInv, Predecessor
<1> QED
  BY <1>2, <1>3 DEF SignalInv

\* What LossIsSignalled says of one step.
OnlySignalledLosses ==
  Emitting /\ IsPes(Sent) /\ Sent.part = 1 =>
    (Sent.disc <=> unit[Sent.pid].au # Predecessor(Sent.au))

\* The first packet of a unit brings the flag to the receiver.
LEMMA SignalPending ==
  ASSUME TypeInv, PartsInv, UnitInv, SignalInv, Watch, EmitsPending
  PROVE  SignalInv' /\ OnlySignalledLosses
<1> DEFINE first == Head(pendingTsPackets)
           rest  == Tail(pendingTsPackets)
<1>1. /\ pendingTsPackets # <<>> /\ Emitting /\ Sent = first /\ pendingTsPackets' = rest
      /\ UNCHANGED <<accessUnits, fed, discontinuousPids>>
  BY DEF EmitsPending
<1>2. /\ first = pendingTsPackets[1] /\ first.pid \in AuPids
      /\ first.au \in Nat \ {0} /\ first.part \in Nat \ {0}
      /\ rest # <<>> => /\ rest[1].pid = first.pid /\ rest[1].au = first.au
                        /\ rest[1].part = first.part + 1
  BY <1>1, PendingHead
<1> HIDE DEF first, rest
<1>3. \A pid \in AuPids : unit'[pid].au = IF pid = first.pid THEN first.au ELSE unit[pid].au
  BY <1>1, <1>2 DEF Watch, IsPes
<1>4. \A pid \in AuPids : LastPacketized(pid)' = LastPacketized(pid)
  <2> TAKE pid \in AuPids
  <2>1. CASE pid = first.pid
    <3>1. LastPacketized(pid) = first.au
      BY <1>1, <1>2, <2>1 DEF LastPacketized, LeadsPending
    <3>2. LastPacketized(pid)' = first.au
      BY <1>1, <1>2, <1>3, <2>1 DEF LastPacketized, LeadsPending
    <3> QED
      BY <3>1, <3>2
  <2>2. CASE pid # first.pid
    <3>1. LastPacketized(pid) = unit[pid].au
      BY <1>1, <1>2, <2>2 DEF LastPacketized, LeadsPending
    <3>2. LastPacketized(pid)' = unit[pid].au
      BY <1>1, <1>2, <1>3, <2>2 DEF LastPacketized, LeadsPending
    <3> QED
      BY <3>1, <3>2
  <2> QED
    BY <2>1, <2>2
<1>5. OwedInv'
  <2>1. \A pid \in AuPids : Gone(pid)' = Gone(pid)
    BY <1>1 DEF Gone, Queued
  <2> QED
    BY <1>1, <1>4, <2>1 DEF SignalInv, OwedInv
<1>6. FlagInv'
  <2>1. rest # <<>> => rest[1].part # 1
    BY <1>2
  <2> QED
    BY <1>1, <2>1 DEF FlagInv
<1>7. OnlySignalledLosses
  BY <1>1, <1>2 DEF SignalInv, FlagInv, OnlySignalledLosses
<1> QED
  BY <1>5, <1>6, <1>7 DEF SignalInv

-----------------------------------------------------------------------------

FlowInv == TypeInv /\ ModeInv /\ QueueInv /\ PartsInv /\ UnitInv /\ SignalInv

\* Nothing has been fed.
LEMMA FlowInit ==
  ASSUME ClockAssumption, SettingsAssumption, MInit
  PROVE  FlowInv
<1>1. TypeInv
  BY TypeInit DEF MInit
<1>2. QueueInv
  <2>1. fed = <<>> /\ numEnqueued = 0 /\ accessUnits = <<>>
    BY DEF MInit, Init
  <2>2. <<>> \in Seq(FedUnits) /\ Len(<<>>) = 0
    OBVIOUS
  <2>3. settings.maxNumQueuedAccessUnits \in Nat
    BY <1>1, SettingsAssumption DEF TypeInv, TypeOK, TSMuxerSettings
  <2> QED
    BY <2>1, <2>2, <2>3
    DEF QueueInv, WellQueued, InDtsOrder, InFedOrder, OfUnits, MissesNoneBehind
<1> QED
  BY <1>1, <1>2, WholeInit, SignalInit DEF FlowInv

\* Every step keeps the flow of units.
LEMMA FlowNext ==
  ASSUME ClockAssumption, InputAssumption, SettingsAssumption, FlowInv, MNext
  PROVE  FlowInv' /\ OnlyWholeUnits /\ OnlySignalledLosses
<1>1. TypeInv' /\ ModeInv' /\ Watch
  BY WatchedStep, TypeNext, ModeNext DEF FlowInv, MNext
<1>2. PartsInv' /\ UnitInv' /\ OnlyWholeUnits
  BY <1>1, WholeNext DEF FlowInv
<1>3. CASE Feed /\ unit' = unit
  <2>1. QueueInv' /\ SignalInv'
    BY <1>3, FeedQueue, SignalFeed DEF FlowInv
  <2>2. OnlySignalledLosses
    BY <1>3, SilentSteps DEF OnlySignalledLosses
  <2> QED
    BY <1>1, <1>2, <2>1, <2>2 DEF FlowInv
<1>4. CASE PacketizesHead
  <2>1. QueueInv' /\ SignalInv'
    BY <1>1, <1>4, OtherQueue, SignalPacketize DEF FlowInv
  <2>2. OnlySignalledLosses
    BY <1>4 DEF PacketizesHead, Emitting, OnlySignalledLosses
  <2> QED
    BY <1>1, <1>2, <2>1, <2>2 DEF FlowInv
<1>5. CASE EmitsPending
  <2>1. QueueInv' /\ SignalInv' /\ OnlySignalledLosses
    BY <1>1, <1>5, OtherQueue, SignalPending DEF FlowInv
  <2> QED
    BY <1>1, <1>2, <2>1 DEF FlowInv
<1>6. CASE UnitsRest /\ (Emitting => ~IsPes(Sent))
  <2>1. QueueInv'
    BY <1>6, OtherQueue DEF FlowInv
  <2>2. SignalInv'
    BY <1>6, SignalRest DEF FlowInv
  <2>3. OnlySignalledLosses
    BY <1>6 DEF OnlySignalledLosses
  <2> QED
    BY <1>1, <1>2, <2>1, <2>2, <2>3 DEF FlowInv
<1> QED
  BY <1>3, <1>4, <1>5, <1>6, KindsOfSteps DEF FlowInv, UnitInv

\* A step that changes nothing.
LEMMA FlowStutter ==
  ASSUME ClockAssumption, InputAssumption, SettingsAssumption, FlowInv, UNCHANGED allVars
  PROVE  FlowInv'
<1>1. TypeInv' /\ ModeInv'
  BY WatchedStep, TypeNext, ModeNext DEF FlowInv
<1>2. UnitsRest
  BY DEF UnitsRest, allVars, vars, queueVars, sendVars, watchVars
<1>3. QueueInv'
  BY <1>2, OtherQueue DEF FlowInv
<1>4. PartsInv' /\ UnitInv'
  BY <1>2 DEF FlowInv, UnitsRest, PartsInv, UnitInv, LeadsPending, UnitPids
<1>5. SignalInv'
  BY <1>2, SignalRest DEF FlowInv
<1> QED
  BY <1>1, <1>3, <1>4, <1>5 DEF FlowInv

\* The queue, the waiting packets and the receiver fit together in every reachable state.
THEOREM UnitsFlow == MSpec => []FlowInv
<1>1. MInit => FlowInv
  BY FlowInit, ClockAssumption, SettingsAssumption
<1>2. FlowInv /\ [MNext]_allVars => FlowInv'
  BY FlowNext, FlowStutter, ClockAssumption, InputAssumption, SettingsAssumption
<1> QED
  BY <1>1, <1>2, PTL DEF MSpec

\* The queue keeps to its limit, is sorted by decode time between units without one, and holds
\* the units of a PID in the order they were enqueued, whatever is dropped
\* (enqueueAccessUnit: the drop of the first unit, and the scan from the end).
THEOREM QueueStaysInOrder == MSpec => []QueueInDtsOrder
<1>1. FlowInv => QueueInDtsOrder
  <2> SUFFICES ASSUME FlowInv PROVE QueueInDtsOrder
    OBVIOUS
  <2>1. DOMAIN accessUnits = 1 .. Len(accessUnits)
    BY DEF FlowInv, TypeInv, TypeOK
  <2> QED
    BY <2>1 DEF FlowInv, QueueInv, WellQueued, InDtsOrder, InFedOrder, QueueInDtsOrder
<1> QED
  BY <1>1, UnitsFlow, PTL

\* A unit leaves in consecutive parts, and no other unit comes in between
\* (packetizeAccessUnit and the draining of its packets).
THEOREM UnitsLeaveWhole == MSpec => WholeUnits
<1>1. FlowInv /\ [MNext]_allVars => [OnlyWholeUnits]_allVars
  BY FlowNext, ClockAssumption, InputAssumption, SettingsAssumption
<1>2. [][OnlyWholeUnits]_allVars => WholeUnits
  BY DEF OnlyWholeUnits, WholeUnits
<1> QED
  BY <1>1, <1>2, UnitsFlow, PTL DEF MSpec

\* The first packet of a unit is flagged exactly when the unit enqueued before it on its PID
\* has been dropped (discontinuousPids, from enqueueAccessUnit to packetizePayload).
THEOREM LossesAreSignalled == MSpec => LossIsSignalled
<1>1. FlowInv /\ [MNext]_allVars => [OnlySignalledLosses]_allVars
  BY FlowNext, ClockAssumption, InputAssumption, SettingsAssumption
<1>2. [][OnlySignalledLosses]_allVars => LossIsSignalled
  BY DEF OnlySignalledLosses, LossIsSignalled
<1> QED
  BY <1>1, <1>2, UnitsFlow, PTL DEF MSpec

\* What TickFlushes says of one step.
LeavesNothing ==
  pc # "idle" /\ pc' = "idle" /\ ~settings.cbr => accessUnits = <<>> /\ pendingTsPackets = <<>>

\* Only the end of an iteration ends a VBR tick.
LEMMA FlushStep ==
  ASSUME ModeInv, MNext
  PROVE  LeavesNothing
<1> SUFFICES ASSUME pc # "idle", pc' = "idle", ~settings.cbr
             PROVE  accessUnits = <<>> /\ pendingTsPackets = <<>>
  BY DEF LeavesNothing
<1>1. CASE Feed \/ AdvanceClock \/ BeginTick
  BY <1>1 DEF Feed, EnqueueAccessUnit, AdvanceClock, BeginTick, tickVars
<1>2. CASE EndIterationVBR
  BY <1>2 DEF EndIterationVBR, GoTo, ModeInv
<1>3. CASE SendPat \/ SendPmt \/ SkipPsiVBR \/ PacketizeVBR \/ NothingQueuedVBR
             \/ EmitPendingVBR \/ SendPcrVBR \/ SendPcrCBR \/ EmitPendingCBR \/ PacketizeCBR
             \/ SendNullCBR \/ EndTickCBR
  BY <1>3
  DEF SendPat, SendPmt, SkipPsiVBR, PacketizeVBR, NothingQueuedVBR, EmitPendingVBR, SendPcrVBR,
      SendPcrCBR, EmitPendingCBR, PacketizeCBR, SendNullCBR, EndTickCBR, ContentTurnCBR,
      Iterate, GoTo
<1> QED
  BY <1>1, <1>2, <1>3 DEF MNext, MuxStep, TickStep

\* A VBR tick does not end before the queue is empty and all packets are sent, also of what
\* the delegate enqueues from its callbacks (the do-while loop of doMuxVBR).
THEOREM TicksFlush == MSpec => TickFlushes
<1>1. FlowInv /\ [MNext]_allVars => [LeavesNothing]_allVars
  BY FlushStep DEF FlowInv
<1>2. [][LeavesNothing]_allVars => TickFlushes
  BY DEF LeavesNothing, TickFlushes
<1> QED
  BY <1>1, <1>2, UnitsFlow, PTL DEF MSpec

-----------------------------------------------------------------------------
(* Clocks and tables.                                                       *)

\* The waiting packets begin with one that has a PCR.
CarriesPcr == pendingTsPackets # <<>> /\ pendingTsPackets[1].pcr # NoPcr

\* There is an anchor before there is a PCR, and it stays.
AnchorInv ==
  /\ pcrAt \in Nat \cup {NeverSent} /\ patAt \in Nat \cup {NeverSent}
  /\ ptsAnchor = NoTime => pcr.anchor = 0
  /\ pcr.lastEmissionTime # NeverSent => pcr.anchor # 0
  /\ pcrAt # NeverSent => pcr.lastEmissionTime # NeverSent

\* A packet that waits with a PCR is the very next to leave: no table and no PCR is due.
InlinePcrInv ==
  /\ \A i \in 2 .. Len(pendingTsPackets) : pendingTsPackets[i].pcr = NoPcr
  /\ CarriesPcr =>
       IF settings.cbr
       THEN /\ pc = "loop" /\ numTsPacketsEmitted < expected
            /\ ~IsTimeToSendPsiTables(numTsPacketsEmitted)
            /\ pcr.lastEmissionTime = numTsPacketsEmitted
            /\ pendingTsPackets[1].pcr = numTsPacketsEmitted - pcr.anchor
       ELSE /\ pc = "drain" /\ pcr.lastEmissionTime = now
            /\ pendingTsPackets[1].pcr = now - pcr.anchor

\* The muxer's time of the tables is that of the PAT, and content waits for them.
PsiInv ==
  /\ IF pc = "pmt" THEN patAt = now ELSE psiSendTime = patAt
  /\ pc \in {"au", "drain", "pcr", "while"} =>
       psiSendTime # NeverSent /\ now - psiSendTime < settings.psiInterval
  /\ settings.cbr /\ pc = "pmt" => numTsPacketsEmitted = now + 1

\* CBR: a PCR is due at most two packets too late, and only behind the two tables.
DueInv ==
  settings.cbr /\ settings.psiInterval > 2 /\ pcrAt # NeverSent /\ ~CarriesPcr =>
    /\ pcr.lastEmissionTime = pcrAt
    /\ IF pc = "pmt" THEN numTsPacketsEmitted - pcrAt <= settings.pcrInterval + 1
       ELSE \/ numTsPacketsEmitted - pcrAt <= settings.pcrInterval
            \/ /\ ~IsTimeToSendPsiTables(numTsPacketsEmitted)
               /\ numTsPacketsEmitted - pcrAt <= settings.pcrInterval + 2

ClockInv == AnchorInv /\ InlinePcrInv /\ PsiInv /\ DueInv

\* What the three clock properties say of one step.
OnlyTimelyPackets ==
  /\ Emitting /\ Sent.pcr # NoPcr => Sent.pcr = EmissionTime - pcr'.anchor /\ Sent.pcr >= 0
  /\ Emitting /\ settings.cbr /\ settings.psiInterval > 2 /\ pcrAt # NeverSent
       /\ Sent.pcr = NoPcr => EmissionTime - pcrAt < settings.pcrInterval + 2
  /\ Emitting /\ Sent.pid \notin {PID_PAT, settings.pmtPid} =>
       patAt # NeverSent /\ EmissionTime - patAt < settings.psiInterval

-----------------------------------------------------------------------------

\* The numbers the clocks are made of.
LEMMA ClockTypes ==
  ASSUME ClockAssumption, SettingsAssumption, TypeInv
  PROVE  /\ numTsPacketsEmitted \in Nat /\ now \in Nat /\ expected \in Nat
         /\ TransportTime \in Nat /\ now <= TransportTime
         /\ pcr \in PcrStates /\ pcr.anchor \in Nat /\ pcr.anchor <= now
         /\ pcr.lastEmissionTime \in Nat \cup {NeverSent}
         /\ psiSendTime \in Nat \cup {NeverSent}
         /\ settings.psiInterval \in Nat \ {0} /\ settings.pcrInterval \in Nat \ {0}
         /\ settings.cbr \in BOOLEAN
         /\ settings.cbr => TransportTime = numTsPacketsEmitted
<1>1. settings \in TSMuxerSettings /\ ValidSettings(settings)
  BY DEF TypeInv, TypeOK, SettingsAssumption
<1>2. settings.psiInterval \in Nat \ {0} /\ settings.pcrInterval \in Nat \ {0}
      /\ settings.cbr \in BOOLEAN
  BY <1>1 DEF ValidSettings, TSMuxerSettings
<1>3. settings.cbr => TransportTime = numTsPacketsEmitted
  BY DEF TransportTime
<1> QED
  BY <1>2, <1>3, TransportTimeType DEF TypeInv, TypeOK, ClocksInOrder, PcrStates

\* A PMT does not go on the PID of the PAT (validateSettings).
LEMMA PmtPidIsNotPat ==
  ASSUME SettingsAssumption, TypeInv
  PROVE  settings.pmtPid # PID_PAT
BY DEF TypeInv, TypeOK, ValidSettings, isCustomPidInvalid, isReservedPid, reservedPids, PID_PAT

\* What the receiver notes of a packet, and of a step without one.
LEMMA WatchClocks ==
  ASSUME Watch
  PROVE  /\ out' = <<>> => ~Emitting /\ UNCHANGED <<patAt, pcrAt, lastPmt>>
         /\ \A p : out' = <<p>> =>
              /\ Emitting /\ Sent = p
              /\ patAt' = IF p.pid = PID_PAT THEN EmissionTime ELSE patAt
              /\ pcrAt' = IF p.pcr # NoPcr THEN EmissionTime ELSE pcrAt
              /\ lastPmt' = IF p.pid = settings.pmtPid THEN p ELSE lastPmt
<1>1. out' = <<>> => ~Emitting /\ UNCHANGED <<patAt, pcrAt, lastPmt>>
  BY DEF Watch, Emitting
<1>2. ASSUME NEW p, out' = <<p>>
      PROVE  Emitting /\ Sent = p
  BY <1>2 DEF Emitting, Sent
<1> QED
  BY <1>1, <1>2 DEF Watch

\* Nothing has been sent.
LEMMA ClockInit ==
  ASSUME MInit
  PROVE  ClockInv
BY DEF MInit, Init, ClockInv, AnchorInv, InlinePcrInv, PsiInv, DueInv, CarriesPcr, NeverSent

\* A step that sends nothing and leaves all times alone, but for the time of the iteration.
LEMMA ClockRest ==
  ASSUME ClockAssumption, SettingsAssumption, TypeInv, ModeInv, ClockInv,
         out' = <<>>, Watch,
         UNCHANGED <<settings, pcr, ptsAnchor, psiSendTime, numTsPacketsEmitted,
                     pendingTsPackets>>,
         \/ UNCHANGED <<pc, now, expected>>
         \/ pc = "idle" /\ pc' = "loop" /\ now' = now
         \/ /\ ~settings.cbr /\ pc = "loop" /\ pc' = "au" /\ now' = TransportTime
            /\ ~IsTimeToSendPsiTables(now')
         \/ ~settings.cbr /\ pc = "au" /\ pc' = "pcr" /\ now' = now
         \/ ~settings.cbr /\ pc \in {"pcr", "while"} /\ pc' \in {"loop", "idle"} /\ now' = now
         \/ /\ settings.cbr /\ pc = "loop" /\ pc' = "idle" /\ now' = now
            /\ numTsPacketsEmitted >= expected
  PROVE  ClockInv' /\ OnlyTimelyPackets
<1>1. ~Emitting /\ UNCHANGED <<patAt, pcrAt>>
  BY WatchClocks
<1>2. CarriesPcr' <=> CarriesPcr
  BY DEF CarriesPcr
<1>3. AnchorInv'
  BY <1>1 DEF ClockInv, AnchorInv
<1>4. InlinePcrInv'
  BY <1>2, ClockTypes
  DEF ClockInv, InlinePcrInv, ModeInv, CarriesPcr, IsTimeToSendPsiTables, IsIntervalElapsed
<1>5. PsiInv'
  BY <1>1, ClockTypes
  DEF ClockInv, PsiInv, ModeInv, IsTimeToSendPsiTables, IsIntervalElapsed
<1>6. DueInv'
  BY <1>1, <1>2 DEF ClockInv, DueInv, IsTimeToSendPsiTables, IsIntervalElapsed
<1> QED
  BY <1>1, <1>3, <1>4, <1>5, <1>6 DEF ClockInv, OnlyTimelyPackets

\* The client, the clock, and the branches of tick that neither send nor packetize.
LEMMA ClockQuiet ==
  ASSUME ClockAssumption, SettingsAssumption, TypeInv, ModeInv, ClockInv, Watch,
         \/ Feed \/ AdvanceClock \/ BeginTick
         \/ SkipPsiVBR \/ NothingQueuedVBR \/ EndIterationVBR \/ EndTickCBR
  PROVE  ClockInv' /\ OnlyTimelyPackets
<1>1. CASE Feed \/ AdvanceClock
  BY <1>1, ClockRest DEF Feed, EnqueueAccessUnit, AdvanceClock, tickVars, sendVars
<1>2. CASE BeginTick
  BY <1>2, ClockRest DEF BeginTick
<1>3. CASE SkipPsiVBR
  <2>1. ~IsTimeToSendPsiTables(now')
    BY <1>3 DEF SkipPsiVBR, Iterate
  <2> QED
    BY <1>3, <2>1, ClockRest DEF SkipPsiVBR, MayIterate, Iterate, sendVars
<1>4. CASE NothingQueuedVBR
  BY <1>4, ClockRest DEF NothingQueuedVBR, ModeInv, GoTo, sendVars
<1>5. CASE EndIterationVBR
  BY <1>5, ClockRest DEF EndIterationVBR, ModeInv, GoTo, sendVars
<1>6. CASE EndTickCBR
  BY <1>6, ClockRest DEF EndTickCBR, GoTo, sendVars
<1> QED
  BY <1>1, <1>2, <1>3, <1>4, <1>5, <1>6

\* A table is sent: the next packet is due a packet later, and no PCR waits.
LEMMA ClockPsi ==
  ASSUME ClockAssumption, SettingsAssumption, TypeInv, ModeInv, ClockInv, Watch,
         SendPat \/ SendPmt
  PROVE  ClockInv' /\ OnlyTimelyPackets
<1>1. PICK pid \in {PID_PAT, settings.pmtPid} :
        /\ Emit(pcr, PsiPacket(pid))
        /\ UNCHANGED <<settings, expected, pendingTsPackets, ptsAnchor>>
        /\ \/ /\ pid = PID_PAT /\ pc = "loop" /\ pc' = "pmt" /\ now' = TransportTime
              /\ IsTimeToSendPsiTables(TransportTime) /\ psiSendTime' = psiSendTime
           \/ /\ pid = settings.pmtPid /\ pc = "pmt" /\ now' = now /\ psiSendTime' = now
              /\ pc' = IF settings.cbr THEN "loop" ELSE "au"
  BY DEF SendPat, SendPmt, EmitPsiPacket, MayIterate, Iterate, GoTo, KeepQueues
<1>2. /\ PsiPacket(pid).pid = pid /\ PsiPacket(pid).pcr = NoPcr
      /\ settings.pcrPid # pid /\ settings.pmtPid # PID_PAT
  <2>1. PsiPacket(pid).pid = pid /\ PsiPacket(pid).pcr = NoPcr
    BY DEF PsiPacket, PlainPacket
  <2>2. settings.pcrPid # pid
    BY PidsApart DEF TypeInv
  <2> QED
    BY <2>1, <2>2, PmtPidIsNotPat
<1>3. /\ pcr' = pcr /\ numTsPacketsEmitted' = numTsPacketsEmitted + 1
      /\ Emitting /\ Sent = PsiPacket(pid) /\ pcrAt' = pcrAt
      /\ patAt' = IF pid = PID_PAT THEN EmissionTime ELSE patAt
  BY <1>1, <1>2, WatchClocks DEF Emit
<1>4. ~CarriesPcr /\ ~CarriesPcr'
  BY <1>1, ClockTypes DEF ClockInv, InlinePcrInv, CarriesPcr, ModeInv
<1>5. EmissionTime = IF settings.cbr THEN numTsPacketsEmitted ELSE now'
  BY DEF EmissionTime
<1>6. AnchorInv'
  BY <1>1, <1>3, <1>5, ClockTypes DEF ClockInv, AnchorInv
<1>7. InlinePcrInv'
  BY <1>1, <1>4 DEF ClockInv, InlinePcrInv
<1>8. PsiInv'
  BY <1>1, <1>2, <1>3, <1>5, ClockTypes DEF ClockInv, PsiInv, NeverSent
<1>9. DueInv' /\ OnlyTimelyPackets
  <2>1. CASE ~settings.cbr
    BY <2>1, <1>1, <1>2, <1>3 DEF DueInv, OnlyTimelyPackets
  <2>2. CASE settings.cbr /\ settings.psiInterval > 2 /\ pcrAt # NeverSent
    <3>1. pcrAt \in Nat /\ pcr.lastEmissionTime = pcrAt
      BY <2>2, <1>4 DEF ClockInv, AnchorInv, DueInv
    <3>2. numTsPacketsEmitted - pcrAt
            <= (IF pc = "pmt" THEN settings.pcrInterval + 1 ELSE settings.pcrInterval)
      <4>1. CASE pc = "pmt"
        BY <4>1, <2>2, <1>4 DEF ClockInv, DueInv
      <4>2. CASE pc # "pmt"
        <5>1. IsTimeToSendPsiTables(numTsPacketsEmitted)
          BY <4>2, <1>1, <2>2, ClockTypes
        <5> QED
          BY <5>1, <4>2, <2>2, <1>4 DEF ClockInv, DueInv
      <4> QED
        BY <4>1, <4>2
    <3>3. OnlyTimelyPackets
      BY <1>1, <1>2, <1>3, <1>5, <2>2, <3>1, <3>2, ClockTypes DEF OnlyTimelyPackets
    <3>4. DueInv'
      <4>1. CASE pc = "pmt"
        <5>1. /\ psiSendTime' = now /\ numTsPacketsEmitted = now + 1
              /\ numTsPacketsEmitted' = now + 2 /\ pc' = "loop"
          BY <4>1, <1>1, <1>3, <2>2, ClockTypes DEF ClockInv, PsiInv
        <5>2. ~IsTimeToSendPsiTables(numTsPacketsEmitted)'
          BY <5>1, <1>1, <2>2, ClockTypes
          DEF IsTimeToSendPsiTables, IsIntervalElapsed, NeverSent
        <5> QED
          BY <4>1, <5>1, <5>2, <1>1, <1>3, <3>1, <3>2, ClockTypes DEF DueInv
      <4>2. CASE pc # "pmt"
        BY <4>2, <1>1, <1>3, <3>1, <3>2, ClockTypes DEF DueInv
      <4> QED
        BY <4>1, <4>2
    <3> QED
      BY <3>3, <3>4
  <2>3. CASE settings.cbr /\ ~(settings.psiInterval > 2 /\ pcrAt # NeverSent)
    BY <2>3, <1>1, <1>2, <1>3 DEF DueInv, OnlyTimelyPackets
  <2> QED
    BY <2>1, <2>2, <2>3, ClockTypes
<1> QED
  BY <1>6, <1>7, <1>8, <1>9 DEF ClockInv

\* A packet of content or stuffing goes before no PCR that is due (CBR).
NoPcrIsLate ==
  pcrAt # NeverSent /\ pcr.lastEmissionTime = pcrAt =>
    numTsPacketsEmitted - pcrAt < settings.pcrInterval

\* A packet that is not a table is sent: the last tables are not a PSI interval old.
LEMMA ContentIsBehindTables ==
  ASSUME ClockAssumption, SettingsAssumption, TypeInv, ModeInv, ClockInv,
         \/ settings.cbr /\ MayIterate /\ ~IsTimeToSendPsiTables(TransportTime)
         \/ ~settings.cbr /\ pc \in {"drain", "pcr"} /\ now' = now
  PROVE  /\ patAt = psiSendTime /\ patAt # NeverSent
         /\ EmissionTime - patAt < settings.psiInterval
BY ClockTypes
DEF EmissionTime, MayIterate, IsTimeToSendPsiTables, IsIntervalElapsed, ClockInv, PsiInv

\* The turn of content in CBR.
LEMMA TurnOfContent ==
  ASSUME ClockAssumption, SettingsAssumption, TypeInv, ClockInv, ContentTurnCBR
  PROVE  NoPcrIsLate
BY ClockTypes
DEF ContentTurnCBR, ShouldSendStandalonePcr, IsTimeToSendPcr, IsIntervalElapsed, NoPcrIsLate,
    ClockInv, AnchorInv

\* A standalone PCR is sent.
LEMMA ClockPcr ==
  ASSUME ClockAssumption, SettingsAssumption, TypeInv, ModeInv, ClockInv, Watch,
         SendPcrVBR \/ SendPcrCBR
  PROVE  ClockInv' /\ OnlyTimelyPackets
<1>1. PICK t \in Nat :
        /\ EmitStandalonePcr(t) /\ ShouldSendStandalonePcr(t)
        /\ UNCHANGED <<settings, expected, pendingTsPackets, ptsAnchor, psiSendTime>>
        /\ \/ /\ settings.cbr /\ MayIterate /\ ~IsTimeToSendPsiTables(TransportTime)
              /\ t = numTsPacketsEmitted /\ pc = "loop" /\ pc' = "loop" /\ now' = t
           \/ ~settings.cbr /\ pc = "pcr" /\ pc' = "while" /\ now' = now /\ t = now
  BY ClockTypes
  DEF SendPcrVBR, SendPcrCBR, MayIterate, Iterate, GoTo, KeepQueues, ModeInv
<1>2. /\ PcrPacket(t).pid = settings.pcrPid /\ PcrPacket(t).pcr = t - pcr.anchor
      /\ settings.pcrPid \notin {PID_PAT, settings.pmtPid}
  <2>1. PcrPacket(t).pid = settings.pcrPid /\ PcrPacket(t).pcr = t - pcr.anchor
    BY DEF PcrPacket, PlainPacket, CalculatePcr
  <2> QED
    BY <2>1, PidsApart DEF TypeInv
<1>3. pcr.anchor # 0 /\ (pcr.lastEmissionTime = NeverSent
                          \/ t - pcr.lastEmissionTime >= settings.pcrInterval)
  BY <1>1 DEF ShouldSendStandalonePcr, IsTimeToSendPcr, IsIntervalElapsed
<1>4. EmissionTime = t
  BY <1>1 DEF EmissionTime
<1>5. PcrPacket(t).pcr \in Nat /\ PcrPacket(t).pcr # NoPcr
  BY <1>1, <1>2, ClockTypes DEF NoPcr
<1>6. /\ pcr'.lastEmissionTime = t /\ pcr'.anchor = pcr.anchor
      /\ numTsPacketsEmitted' = numTsPacketsEmitted + 1
      /\ Emitting /\ Sent = PcrPacket(t) /\ pcrAt' = t /\ patAt' = patAt
  <2>1. /\ numTsPacketsEmitted' = numTsPacketsEmitted + 1 /\ out' = <<PcrPacket(t)>>
        /\ pcr'.lastEmissionTime = t /\ pcr'.anchor = pcr.anchor
    BY <1>1, ClockTypes DEF EmitStandalonePcr, Emit, PcrStates
  <2> QED
    BY <2>1, <1>2, <1>4, <1>5, WatchClocks
<1>7. ~CarriesPcr /\ ~CarriesPcr'
  <2>1. ~CarriesPcr
    BY <1>1, <1>3, ClockTypes DEF ClockInv, InlinePcrInv, NeverSent
  <2> QED
    BY <2>1, <1>1 DEF CarriesPcr
<1>8. AnchorInv'
  BY <1>1, <1>3, <1>6, ClockTypes DEF ClockInv, AnchorInv, NeverSent
<1>9. InlinePcrInv'
  BY <1>1, <1>7 DEF ClockInv, InlinePcrInv
<1>10. patAt = psiSendTime /\ patAt # NeverSent /\ EmissionTime - patAt < settings.psiInterval
  BY <1>1, ContentIsBehindTables
<1>11. PsiInv'
  BY <1>1, <1>6, <1>10, ClockTypes, <1>4 DEF ClockInv, PsiInv
<1>12. DueInv'
  BY <1>1, <1>6, ClockTypes DEF DueInv
<1>13. OnlyTimelyPackets
  BY <1>2, <1>4, <1>5, <1>6, <1>10 DEF OnlyTimelyPackets
<1> QED
  BY <1>8, <1>9, <1>11, <1>12, <1>13 DEF ClockInv

\* A packet of a unit is sent.  When it carries a PCR, that PCR is of this moment.
LEMMA ClockPending ==
  ASSUME ClockAssumption, SettingsAssumption, TypeInv, ModeInv, PartsInv, ClockInv, Watch,
         EmitPendingVBR \/ EmitPendingCBR
  PROVE  ClockInv' /\ OnlyTimelyPackets
<1> DEFINE first == Head(pendingTsPackets)
           rest  == Tail(pendingTsPackets)
<1>1. /\ Emit(pcr, first) /\ pendingTsPackets' = rest /\ pendingTsPackets # <<>>
      /\ UNCHANGED <<settings, expected, ptsAnchor, psiSendTime>>
      /\ \/ /\ settings.cbr /\ MayIterate /\ ~IsTimeToSendPsiTables(TransportTime)
            /\ pc = "loop" /\ pc' = "loop" /\ now' = numTsPacketsEmitted /\ NoPcrIsLate
         \/ ~settings.cbr /\ pc = "drain" /\ pc' \in {"pcr", "drain"} /\ now' = now
  BY ClockTypes, TurnOfContent
  DEF EmitPendingVBR, EmitPendingCBR, EmitPending, ContentTurnCBR, MayIterate, Iterate, GoTo,
      ModeInv, TypeInv, DrainsSomething
<1>2. /\ first = pendingTsPackets[1] /\ first.pid \in UnitPids
      /\ first.pid \notin {PID_PAT, settings.pmtPid}
      /\ rest # <<>> => 2 \in 2 .. Len(pendingTsPackets) /\ rest[1] = pendingTsPackets[2]
      /\ \A i \in 1 .. Len(rest) : rest[i] = pendingTsPackets[i + 1]
      /\ Len(rest) = Len(pendingTsPackets) - 1 /\ Len(pendingTsPackets) \in Nat \ {0}
  <2>1. /\ first = pendingTsPackets[1] /\ first.pid \in UnitPids
        /\ Len(rest) = Len(pendingTsPackets) - 1 /\ Len(pendingTsPackets) \in Nat \ {0}
        /\ \A i \in 1 .. Len(rest) : rest[i] = pendingTsPackets[i + 1]
        /\ rest = <<>> <=> Len(rest) = 0
    BY <1>1, PendingHead
  <2>2. rest # <<>> => 1 \in 1 .. Len(rest) /\ 2 \in 2 .. Len(pendingTsPackets) /\ 1 + 1 = 2
    BY <2>1
  <2> QED
    BY <2>1, <2>2, PidsApart DEF TypeInv
<1> HIDE DEF first, rest
<1>3. /\ pcr'.lastEmissionTime = pcr.lastEmissionTime /\ pcr'.anchor = pcr.anchor
      /\ numTsPacketsEmitted' = numTsPacketsEmitted + 1
      /\ Emitting /\ Sent = first /\ patAt' = patAt
      /\ pcrAt' = IF first.pcr # NoPcr THEN EmissionTime ELSE pcrAt
  <2>1. /\ numTsPacketsEmitted' = numTsPacketsEmitted + 1 /\ out' = <<first>>
        /\ pcr'.lastEmissionTime = pcr.lastEmissionTime /\ pcr'.anchor = pcr.anchor
    BY <1>1, ClockTypes DEF Emit, PcrStates
  <2> QED
    BY <2>1, <1>2, WatchClocks
<1>4. EmissionTime = IF settings.cbr THEN numTsPacketsEmitted ELSE now
  BY <1>1 DEF EmissionTime
<1>5. CarriesPcr <=> first.pcr # NoPcr
  BY <1>1, <1>2 DEF CarriesPcr
<1>6. InlinePcrInv' /\ ~CarriesPcr'
  <2>1. ~CarriesPcr'
    BY <1>1, <1>2 DEF ClockInv, InlinePcrInv, CarriesPcr
  <2>2. ASSUME NEW i \in 2 .. Len(rest) PROVE rest[i].pcr = NoPcr
    <3>1. i \in 1 .. Len(rest) /\ i + 1 \in 2 .. Len(pendingTsPackets)
      BY <1>2
    <3> QED
      BY <3>1, <1>2 DEF ClockInv, InlinePcrInv
  <2> QED
    BY <1>1, <2>1, <2>2 DEF InlinePcrInv
<1>7. first.pcr # NoPcr => /\ pcr.lastEmissionTime # NeverSent
                           /\ first.pcr = EmissionTime - pcr.anchor /\ first.pcr \in Nat
                           /\ pcr.lastEmissionTime = EmissionTime
  <2> SUFFICES ASSUME first.pcr # NoPcr
               PROVE  /\ first.pcr = EmissionTime - pcr.anchor
                      /\ pcr.lastEmissionTime = EmissionTime
    BY <1>4, ClockTypes DEF NeverSent
  <2> QED
    BY <1>2, <1>4, <1>5 DEF ClockInv, InlinePcrInv
<1>8. AnchorInv'
  BY <1>1, <1>3, <1>4, <1>7, ClockTypes DEF ClockInv, AnchorInv, NeverSent
<1>9. patAt = psiSendTime /\ patAt # NeverSent /\ EmissionTime - patAt < settings.psiInterval
  BY <1>1, ContentIsBehindTables
<1>10. PsiInv'
  BY <1>1, <1>3, <1>4, <1>9, ClockTypes DEF ClockInv, PsiInv
<1>11. ASSUME settings.cbr, settings.psiInterval > 2, pcrAt # NeverSent, first.pcr = NoPcr
       PROVE  /\ pcrAt \in Nat /\ pcr.lastEmissionTime = pcrAt
              /\ numTsPacketsEmitted - pcrAt < settings.pcrInterval
  <2>1. pcrAt \in Nat /\ pcr.lastEmissionTime = pcrAt
    BY <1>5, <1>11 DEF ClockInv, AnchorInv, DueInv
  <2> QED
    BY <1>1, <1>11, <2>1 DEF NoPcrIsLate
<1>12. DueInv'
  <2>1. CASE first.pcr # NoPcr
    BY <1>1, <1>3, <1>4, <1>7, <2>1, ClockTypes DEF DueInv
  <2>2. CASE first.pcr = NoPcr
    BY <1>1, <1>3, <1>11, <2>2, ClockTypes DEF DueInv
  <2> QED
    BY <2>1, <2>2
<1>13. OnlyTimelyPackets
  <2>1. Sent.pcr # NoPcr => Sent.pcr = EmissionTime - pcr'.anchor /\ Sent.pcr >= 0
    BY <1>3, <1>7
  <2>2. settings.cbr /\ settings.psiInterval > 2 /\ pcrAt # NeverSent /\ Sent.pcr = NoPcr
          => EmissionTime - pcrAt < settings.pcrInterval + 2
    BY <1>3, <1>4, <1>11, ClockTypes
  <2> QED
    BY <1>9, <2>1, <2>2 DEF OnlyTimelyPackets
<1> QED
  BY <1>6, <1>8, <1>10, <1>12, <1>13 DEF ClockInv

\* Stuffing is sent.
LEMMA ClockNull ==
  ASSUME ClockAssumption, SettingsAssumption, TypeInv, ModeInv, ClockInv, Watch, SendNullCBR
  PROVE  ClockInv' /\ OnlyTimelyPackets
<1> DEFINE p == PlainPacket(PID_NULL_PACKET, 0)
<1>1. /\ Emit(pcr, p) /\ ContentTurnCBR /\ settings.cbr /\ MayIterate
      /\ ~IsTimeToSendPsiTables(TransportTime) /\ TransportTime = numTsPacketsEmitted
      /\ pc = "loop" /\ pc' = "loop" /\ now' = numTsPacketsEmitted /\ pendingTsPackets = <<>>
      /\ UNCHANGED <<settings, expected, ptsAnchor, psiSendTime, pendingTsPackets>>
  BY ClockTypes DEF SendNullCBR, ContentTurnCBR, MayIterate, Iterate, KeepQueues
<1>2. p.pid # PID_PAT /\ p.pcr = NoPcr
  BY DEF PlainPacket, PID_PAT, PID_NULL_PACKET
<1> HIDE DEF p
<1>3. /\ pcr'.lastEmissionTime = pcr.lastEmissionTime /\ pcr'.anchor = pcr.anchor
      /\ numTsPacketsEmitted' = numTsPacketsEmitted + 1
      /\ Emitting /\ Sent = p /\ patAt' = patAt /\ pcrAt' = pcrAt
  <2>1. /\ numTsPacketsEmitted' = numTsPacketsEmitted + 1 /\ out' = <<p>>
        /\ pcr'.lastEmissionTime = pcr.lastEmissionTime /\ pcr'.anchor = pcr.anchor
    BY <1>1, ClockTypes DEF Emit, PcrStates
  <2> QED
    BY <2>1, <1>2, WatchClocks
<1>4. EmissionTime = numTsPacketsEmitted
  BY <1>1 DEF EmissionTime
<1>5. ~CarriesPcr /\ ~CarriesPcr'
  BY <1>1 DEF CarriesPcr
<1>6. AnchorInv' /\ InlinePcrInv'
  BY <1>1, <1>3, <1>5 DEF ClockInv, AnchorInv, InlinePcrInv
<1>7. patAt = psiSendTime /\ patAt # NeverSent /\ EmissionTime - patAt < settings.psiInterval
  BY <1>1, ContentIsBehindTables
<1>8. PsiInv'
  BY <1>1, <1>3, <1>7 DEF PsiInv
<1>9. settings.psiInterval > 2 /\ pcrAt # NeverSent =>
        /\ pcrAt \in Nat /\ pcr.lastEmissionTime = pcrAt
        /\ numTsPacketsEmitted - pcrAt < settings.pcrInterval
  BY <1>1, <1>5, TurnOfContent DEF NoPcrIsLate, ClockInv, AnchorInv, DueInv
<1>10. DueInv' /\ OnlyTimelyPackets
  BY <1>1, <1>2, <1>3, <1>4, <1>7, <1>9, ClockTypes DEF DueInv, OnlyTimelyPackets
<1> QED
  BY <1>6, <1>8, <1>10 DEF ClockInv

\* A unit is packetized: its first packet gets a PCR if one is due, and nothing else does.
LEMMA ClockPacketize ==
  ASSUME ClockAssumption, InputAssumption, SettingsAssumption, TypeInv, TypeInv', ModeInv,
         ClockInv, Watch, PacketizeVBR \/ PacketizeCBR
  PROVE  ClockInv' /\ OnlyTimelyPackets
<1>1. PICK n \in AuPacketCounts, t \in Nat :
        /\ PacketizeAccessUnit(n, t) /\ accessUnits # <<>>
        /\ UNCHANGED <<settings, expected>>
        /\ \/ /\ settings.cbr /\ pc = "loop" /\ numTsPacketsEmitted < expected
              /\ ~IsTimeToSendPsiTables(numTsPacketsEmitted)
              /\ t = numTsPacketsEmitted /\ pc' = "loop" /\ now' = t
           \/ ~settings.cbr /\ pc = "au" /\ pc' = "drain" /\ now' = now /\ t = now
        /\ pendingTsPackets = <<>>
  BY ClockTypes
  DEF PacketizeVBR, PacketizeCBR, ContentTurnCBR, MayIterate, Iterate, GoTo, ModeInv
<1>2. PICK head : head = Head(accessUnits)
  OBVIOUS
<1> DEFINE state   == Anchored(head, t)
           withPcr == head.pid = settings.pcrPid /\ IsTimeToSendPcr(state, t)
           value   == IF withPcr THEN t - state.anchor ELSE NoPcr
           anchor  == IF ptsAnchor = NoTime THEN head.time ELSE ptsAnchor
<1>3. /\ ptsAnchor' = anchor /\ out' = <<>>
      /\ pcr' = IF withPcr THEN [state EXCEPT !.lastEmissionTime = t] ELSE state
      /\ pendingTsPackets' = PesPackets(head, n, anchor, value)
      /\ UNCHANGED <<psiSendTime, numTsPacketsEmitted>>
  BY <1>1, <1>2 DEF PacketizeAccessUnit, CalculatePcr
<1>4. state \in PcrStates /\ state.lastEmissionTime = pcr.lastEmissionTime
      /\ state.anchor = IF ptsAnchor = NoTime /\ head.time # NoTime THEN t ELSE pcr.anchor
  BY ClockTypes DEF Anchored, PcrStates
<1>5. withPcr => /\ state.anchor # 0
                 /\ IsIntervalElapsed(state.lastEmissionTime, settings.pcrInterval, t)
  BY DEF IsTimeToSendPcr
<1>6. ~Emitting /\ UNCHANGED <<patAt, pcrAt>>
  BY <1>3, WatchClocks
<1>7. \A i \in 1 .. n : pendingTsPackets'[i].pcr = IF i = 1 THEN value ELSE NoPcr
  BY <1>3 DEF PesPackets, PlainPacket
<1>8. pendingTsPackets' # <<>> /\ Len(pendingTsPackets') = n /\ n \in Nat \ {0}
  <2>1. n \in Nat \ {0} /\ pendingTsPackets' \in Seq(Packets)
    BY InputAssumption DEF TypeInv, TypeOK
  <2>2. DOMAIN pendingTsPackets' = 1 .. n
    BY <1>3 DEF PesPackets
  <2>3. Len(pendingTsPackets') = n
    BY <2>1, <2>2, LenProperties
  <2> QED
    BY <2>1, <2>3, EmptySeq
<1> HIDE DEF state, withPcr, value, anchor
<1>9. /\ pcr'.anchor = state.anchor
      /\ pcr'.lastEmissionTime = IF withPcr THEN t ELSE pcr.lastEmissionTime
  BY <1>3, <1>4 DEF PcrStates
<1>10. /\ CarriesPcr' <=> value # NoPcr
       /\ \A i \in 2 .. Len(pendingTsPackets') : pendingTsPackets'[i].pcr = NoPcr
       /\ pendingTsPackets'[1].pcr = value
  BY <1>7, <1>8 DEF CarriesPcr
<1>11. AnchorInv'
  BY <1>3, <1>4, <1>5, <1>6, <1>9, ClockTypes
  DEF ClockInv, AnchorInv, NeverSent, NoTime, anchor
<1>12. InlinePcrInv'
  <2>1. value # NoPcr => withPcr /\ value = t - pcr'.anchor /\ pcr'.lastEmissionTime = t
    BY <1>9 DEF value
  <2>2. settings.cbr => ~IsTimeToSendPsiTables(numTsPacketsEmitted)'
    BY <1>1, <1>3 DEF IsTimeToSendPsiTables, IsIntervalElapsed
  <2> QED
    BY <1>1, <1>3, <1>10, <2>1, <2>2 DEF InlinePcrInv
<1>13. PsiInv'
  BY <1>1, <1>3, <1>6, ClockTypes DEF ClockInv, PsiInv
<1>14. DueInv'
  <2> SUFFICES ASSUME settings.cbr, settings.psiInterval > 2, pcrAt # NeverSent, ~CarriesPcr'
               PROVE  DueInv'
    BY <1>1, <1>6 DEF DueInv
  <2>1. ~withPcr
    <3>1. withPcr => value # NoPcr
      BY <1>1, <1>4, ClockTypes DEF value, NoPcr
    <3> QED
      BY <3>1, <1>10
  <2>2. pcr'.lastEmissionTime = pcrAt /\ ~CarriesPcr
    BY <1>1, <1>9, <2>1 DEF ClockInv, DueInv, CarriesPcr
  <2>3. numTsPacketsEmitted - pcrAt <= settings.pcrInterval
          \/ /\ ~IsTimeToSendPsiTables(numTsPacketsEmitted)
             /\ numTsPacketsEmitted - pcrAt <= settings.pcrInterval + 2
    BY <1>1, <2>2 DEF ClockInv, DueInv
  <2> QED
    BY <1>1, <1>3, <1>6, <2>2, <2>3 DEF DueInv, IsTimeToSendPsiTables, IsIntervalElapsed
<1>15. OnlyTimelyPackets
  BY <1>6 DEF OnlyTimelyPackets
<1> QED
  BY <1>11, <1>12, <1>13, <1>14, <1>15 DEF ClockInv

\* Every step keeps the clocks.
LEMMA ClockNext ==
  ASSUME ClockAssumption, InputAssumption, SettingsAssumption, FlowInv, ClockInv, MNext
  PROVE  ClockInv' /\ OnlyTimelyPackets
<1>1. TypeInv /\ TypeInv' /\ ModeInv /\ PartsInv /\ Watch
  BY WatchedStep, TypeNext DEF FlowInv, MNext
<1> QED
  BY <1>1, ClockQuiet, ClockPsi, ClockPcr, ClockPending, ClockNull, ClockPacketize
  DEF MNext, MuxStep, TickStep

\* The clocks fit together in every reachable state.
THEOREM ClocksFit == MSpec => []ClockInv
<1>1. MInit => ClockInv
  BY ClockInit
<1>2. FlowInv /\ ClockInv /\ [MNext]_allVars => ClockInv'
  <2>1. ASSUME ClockInv, UNCHANGED allVars PROVE ClockInv'
    BY <2>1
    DEF allVars, vars, tickVars, queueVars, sendVars, watchVars, ClockInv, AnchorInv,
        InlinePcrInv, PsiInv, DueInv, CarriesPcr, IsTimeToSendPsiTables, IsIntervalElapsed
  <2> QED
    BY <2>1, ClockNext, ClockAssumption, InputAssumption, SettingsAssumption
<1> QED
  BY <1>1, <1>2, UnitsFlow, PTL DEF MSpec

\* No step sends a packet that is late or tells the wrong time.
LEMMA OnlyTimelySteps == MSpec => [][OnlyTimelyPackets]_allVars
<1>1. FlowInv /\ ClockInv /\ [MNext]_allVars => [OnlyTimelyPackets]_allVars
  BY ClockNext, ClockAssumption, InputAssumption, SettingsAssumption
<1> QED
  BY <1>1, UnitsFlow, ClocksFit, PTL DEF MSpec

\* A PCR on the wire is the transport time at which its packet leaves, also when it was put in
\* the first packet of a unit long before (packetizeAccessUnit, calculatePcr).
THEOREM PcrsTellTheTime == MSpec => PcrIsTransportTime
<1>1. [][OnlyTimelyPackets]_allVars => PcrIsTransportTime
  BY PTL DEF OnlyTimelyPackets, PcrIsTransportTime
<1> QED
  BY <1>1, OnlyTimelySteps

\* CBR: the next PCR is late by the two packets of the tables at most, for every PCR interval
\* and every PSI interval of more than two packets (the order of the branches in doMuxCBR).
THEOREM PcrsAreInTime == MSpec => PcrInTime
<1>1. [][OnlyTimelyPackets]_allVars => PcrInTime
  BY PTL DEF OnlyTimelyPackets, PcrInTime
<1> QED
  BY <1>1, OnlyTimelySteps

\* Nothing but tables leaves before the first PAT, or when the last one is a PSI interval old
\* (isTimeToSendPsiTables in both loops).
THEOREM TablesAreInTime == MSpec => PsiInTime
<1>1. [][OnlyTimelyPackets]_allVars => PsiInTime
  BY PTL DEF OnlyTimelyPackets, PsiInTime
<1> QED
  BY <1>1, OnlyTimelySteps

-----------------------------------------------------------------------------
(* The version of the PMT *)

\* A version has 5 bits: it tells apart at most 31 additions of a stream.
StreamsFitTheVersion == IsFiniteSet(AuPids) /\ Cardinality(AuPids) <= 31

\* Each new stream makes a new version, so that the version counts the streams.
VersionInv ==
  /\ elementaryStreams \subseteq AuPids
  /\ versionNumber = Cardinality(elementaryStreams) % 32
  /\ lastPmt.streams \subseteq elementaryStreams
  /\ lastPmt.version = Cardinality(lastPmt.streams) % 32

\* What PmtVersionTellsStreams says of one step.
OnlyTellingVersions ==
  Emitting /\ Sent.pid = settings.pmtPid /\ lastPmt # NoPmt =>
    (Sent.version = lastPmt.version <=> Sent.streams = lastPmt.streams)

\* Among the sets a PMT can list, one that has the size of a larger one is that one.
LEMMA SizeTellsStreams ==
  ASSUME StreamsFitTheVersion, NEW more \in SUBSET AuPids, NEW less \in SUBSET more
  PROVE  /\ Cardinality(more) \in 0 .. 31 /\ Cardinality(less) \in 0 .. 31
         /\ Cardinality(less) = Cardinality(more) => less = more
<1>1. IsFiniteSet(more) /\ Cardinality(more) <= Cardinality(AuPids)
  BY FS_Subset DEF StreamsFitTheVersion
<1>2. IsFiniteSet(less) /\ Cardinality(less) <= Cardinality(more)
      /\ (Cardinality(less) = Cardinality(more) => less = more)
  BY <1>1, FS_Subset
<1>3. Cardinality(AuPids) \in Nat /\ Cardinality(more) \in Nat /\ Cardinality(less) \in Nat
  BY <1>1, <1>2, FS_CardinalityType DEF StreamsFitTheVersion
<1> QED
  BY <1>1, <1>2, <1>3 DEF StreamsFitTheVersion

\* A unit is enqueued: a new stream counts.
LEMMA VersionFeed ==
  ASSUME StreamsFitTheVersion, VersionInv, Watch, Feed
  PROVE  VersionInv' /\ OnlyTellingVersions
<1>1. PICK pid \in AuPids : AddElementaryStream(pid) /\ out' = <<>>
  BY DEF Feed, EnqueueAccessUnit
<1>2. ~Emitting /\ lastPmt' = lastPmt
  BY <1>1, WatchClocks
<1>3. IsFiniteSet(elementaryStreams) /\ Cardinality(elementaryStreams) \in 0 .. 31
  BY SizeTellsStreams, FS_Subset DEF VersionInv, StreamsFitTheVersion
<1>4. versionNumber' = Cardinality(elementaryStreams') % 32
  <2>1. CASE pid \in elementaryStreams
    <3>1. elementaryStreams' = elementaryStreams /\ versionNumber' = versionNumber
      BY <1>1, <2>1 DEF AddElementaryStream
    <3> QED
      BY <3>1 DEF VersionInv
  <2>2. CASE pid \notin elementaryStreams
    <3>1. Cardinality(elementaryStreams') = Cardinality(elementaryStreams) + 1
      BY <1>1, <1>3, <2>2, FS_AddElement DEF AddElementaryStream
    <3>2. versionNumber' = (versionNumber + 1) % 32
      BY <1>1, <2>2 DEF AddElementaryStream
    <3> QED
      BY <1>3, <3>1, <3>2 DEF VersionInv
  <2> QED
    BY <2>1, <2>2
<1> QED
  BY <1>1, <1>2, <1>4 DEF VersionInv, OnlyTellingVersions, AddElementaryStream

\* A PMT tells what it lists; other packets are not looked at.
LEMMA VersionSend ==
  ASSUME StreamsFitTheVersion, SettingsAssumption, TypeInv, ModeInv, PartsInv, VersionInv, Watch,
         MuxStep
  PROVE  VersionInv' /\ OnlyTellingVersions
<1>1. UNCHANGED <<elementaryStreams, versionNumber>>
  BY DEF MuxStep, TickStep, AdvanceClock, BeginTick, SendPat, SendPmt, SkipPsiVBR, PacketizeVBR,
         NothingQueuedVBR, EmitPendingVBR, SendPcrVBR, EndIterationVBR, SendPcrCBR,
         EmitPendingCBR, PacketizeCBR, SendNullCBR, EndTickCBR, PacketizeAccessUnit, EmitPending,
         KeepQueues, queueVars
<1>2. CASE out' = <<>>
  BY <1>1, <1>2, WatchClocks DEF VersionInv, OnlyTellingVersions
<1>3. CASE SendPmt
  <2> DEFINE p == PsiPacket(settings.pmtPid)
  <2>1. out' = <<p>>
    BY <1>3 DEF SendPmt, EmitPsiPacket, Emit
  <2>2. p.pid = settings.pmtPid /\ p.version = versionNumber /\ p.streams = elementaryStreams
    BY PmtPidIsNotPat DEF PsiPacket, PlainPacket
  <2> HIDE DEF p
  <2>3. Sent = p /\ lastPmt' = p
    BY <2>1, <2>2, WatchClocks
  <2>4. p.version = lastPmt.version <=> p.streams = lastPmt.streams
    BY <2>2, SizeTellsStreams DEF VersionInv
  <2> QED
    BY <1>1, <2>2, <2>3, <2>4 DEF VersionInv, OnlyTellingVersions
<1>4. CASE \E p : out' = <<p>> /\ p.pid # settings.pmtPid
  <2>1. PICK p : out' = <<p>> /\ p.pid # settings.pmtPid
    BY <1>4
  <2>2. Sent = p /\ lastPmt' = lastPmt
    BY <2>1, WatchClocks
  <2> QED
    BY <1>1, <2>1, <2>2 DEF VersionInv, OnlyTellingVersions
<1>5. MuxStep => SendPmt \/ out' = <<>> \/ \E p : out' = <<p>> /\ p.pid # settings.pmtPid
  <2>1. CASE SendPat
    <3>1. out' = <<PsiPacket(PID_PAT)>> /\ PsiPacket(PID_PAT).pid = PID_PAT
      BY <2>1, PsiPacketFields DEF SendPat, EmitPsiPacket, Emit
    <3> QED
      BY <3>1, PmtPidIsNotPat
  <2>2. CASE SendPcrVBR \/ SendPcrCBR
    <3>1. PICK t \in {now, TransportTime} : out' = <<PcrPacket(t)>>
      BY <2>2 DEF SendPcrVBR, SendPcrCBR, EmitStandalonePcr, Emit
    <3>2. PcrPacket(t).pid = settings.pcrPid /\ settings.pcrPid # settings.pmtPid
      BY PidsApart DEF PcrPacket, PlainPacket, TypeInv
    <3> QED
      BY <3>1, <3>2
  <2>3. CASE SendNullCBR
    <3>1. out' = <<PlainPacket(PID_NULL_PACKET, 0)>>
      BY <2>3 DEF SendNullCBR, Emit
    <3>2. PlainPacket(PID_NULL_PACKET, 0).pid # settings.pmtPid
      BY PidsApart DEF PlainPacket, TypeInv, CountedPids
    <3> QED
      BY <3>1, <3>2
  <2>4. CASE EmitPendingVBR \/ EmitPendingCBR
    <3>1. out' = <<Head(pendingTsPackets)>> /\ pendingTsPackets # <<>>
      BY <2>4 DEF EmitPendingVBR, EmitPendingCBR, EmitPending, Emit, TypeInv, DrainsSomething
    <3>2. Head(pendingTsPackets).pid # settings.pmtPid
      BY <3>1, PendingHead, PidsApart DEF TypeInv
    <3> QED
      BY <3>1, <3>2
  <2>5. CASE AdvanceClock \/ BeginTick \/ SkipPsiVBR \/ PacketizeVBR \/ NothingQueuedVBR
               \/ EndIterationVBR \/ PacketizeCBR \/ EndTickCBR
    BY <2>5 DEF AdvanceClock, BeginTick, SkipPsiVBR, PacketizeVBR, NothingQueuedVBR,
                EndIterationVBR, PacketizeCBR, EndTickCBR, PacketizeAccessUnit
  <2> QED
    BY <2>1, <2>2, <2>3, <2>4, <2>5 DEF MuxStep, TickStep
<1> QED
  BY <1>2, <1>3, <1>4, <1>5

\* A receiver that ignores a PMT whose version it knows misses nothing, as long as there are at
\* most 31 streams (addElementaryStream).
THEOREM VersionsTellStreams ==
  ASSUME StreamsFitTheVersion PROVE MSpec => PmtVersionTellsStreams
<1>1. MInit => VersionInv
  BY FS_EmptySet DEF MInit, Init, VersionInv, NoPmt, PlainPacket
<1>2. FlowInv /\ VersionInv /\ MNext => VersionInv' /\ OnlyTellingVersions
  BY VersionFeed, VersionSend, StreamsFitTheVersion, SettingsAssumption DEF MNext, FlowInv
<1>3. FlowInv /\ VersionInv /\ [MNext]_allVars
        => VersionInv' /\ [OnlyTellingVersions]_allVars
  <2>1. ASSUME VersionInv, UNCHANGED allVars PROVE VersionInv'
    BY <2>1 DEF allVars, vars, queueVars, watchVars, VersionInv
  <2> QED
    BY <1>2, <2>1
<1>4. [][OnlyTellingVersions]_allVars => PmtVersionTellsStreams
  BY PTL DEF OnlyTellingVersions, PmtVersionTellsStreams
<1> QED
  BY <1>1, <1>3, <1>4, UnitsFlow, PTL DEF MSpec

=============================================================================
