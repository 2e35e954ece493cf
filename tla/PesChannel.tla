----------------------------- MODULE PesChannel -----------------------------
(***************************************************************************)
(* One elementary stream over a channel that loses and repeats packets:    *)
(* a sender that cuts PES packets into transport packets the way           *)
(* packetizePayload does, and a TSElementaryStreamBuilder that receives    *)
(* what is left of them.  Transport streams are never reordered.           *)
(***************************************************************************)
EXTENDS TSElementaryStreamBuilder, FiniteSets

CONSTANTS
    PesSizes,       \* how many packets a PES packet may take
    PtsValues,      \* its presentation times
    Flags,          \* may its first packet carry the discontinuity flag?
    Headers,        \* may its header be unreadable?
    MaxBurst,       \* most consecutive packets of this PID that are lost
    MaxFaults,      \* BOUND on the bursts and repetitions
    MaxPes          \* BOUND on the PES packets sent

ASSUME ChannelAssumption ==
    /\ PesSizes \subseteq Nat \ {0} /\ PtsValues \subseteq Nat
    /\ Flags \subseteq BOOLEAN /\ Headers \subseteq BOOLEAN
    /\ {MaxBurst, MaxFaults, MaxPes} \subseteq Nat

VARIABLES
    next,       \* the next packet to be sent: its place and its counter
    last,       \* the packet that arrived in the step before, if it may come again
    burst,      \* packets lost since the last one that arrived
    faults,     \* bursts and repetitions so far
    arrived,    \* what the channel has brought whole so far of the PES packets of one time
    tainted,    \* the unit being collected may be flawed, unknown to the builder
    excused     \* so was the unit delivered in this step

channelVars == <<next, last, burst, faults>>
vars == <<builderVars, channelVars, arrived, tainted, excused>>

NothingArrived == [pts |-> NoTime, chunks |-> <<>>]

PesStart(k, cc) == {[cc |-> cc, pes |-> k, part |-> 1, of |-> n] : n \in PesSizes}

PacketAt(place, disc, header, t, empty) ==
    [cc |-> place.cc, payload |-> TRUE, disc |-> disc, pusi |-> place.part = 1,
     header |-> header, pts |-> t,
     chunk |-> [pes |-> place.pes, part |-> place.part, of |-> place.of, empty |-> empty]]

\* The packets next may turn out to be.  Only the first of a PES packet has a header and a
\* flag, and only that one may have no byte behind the header.
PacketsAt(place) ==
    IF place.part = 1
    THEN {PacketAt(place, disc, header, t, empty) :
            disc \in Flags, header \in Headers, t \in PtsValues \cup {NoTime},
            empty \in BOOLEAN}
    ELSE {PacketAt(place, FALSE, FALSE, NoTime, FALSE)}

Init ==
    /\ BuilderInit
    /\ next \in PesStart(1, 0)
    /\ last = <<>> /\ burst = 0 /\ faults = 0
    /\ arrived = NothingArrived /\ tainted = FALSE /\ excused = FALSE

\* The next part of the PES packet, or the next PES packet.
Send ==
    /\ next.pes <= MaxPes
    /\ next' \in IF next.part < next.of
                 THEN {[next EXCEPT !.cc = NextCC(@), !.part = @ + 1]}
                 ELSE PesStart(next.pes + 1, NextCC(next.cc))

\* There is a byte behind the PES headers of these chunks.
SomeBytes(chunks) == \E i \in DOMAIN chunks : ~chunks[i].empty

\* p starts another PES packet of the time of what arrived.
Joins(p) == SomeBytes(arrived.chunks) /\ p.pts # NoTime /\ p.pts = arrived.pts

\* What has arrived with p, seen from the channel alone: p and the packet before it arrived,
\* and so did all packets between p and the start of the PES packet it belongs to.
Arrived(p) ==
    IF burst > 0 THEN NothingArrived
    ELSE IF p.pusi
    THEN IF ~p.header THEN NothingArrived
         ELSE [pts    |-> p.pts,
               chunks |-> IF Joins(p) THEN Append(arrived.chunks, p.chunk) ELSE <<p.chunk>>]
    ELSE IF arrived.chunks = <<>> THEN NothingArrived
         ELSE [pts |-> arrived.pts, chunks |-> Append(arrived.chunks, p.chunk)]

\* A PES packet whose flagged start comes again starts again.
ArrivedAgain(p) ==
    IF p.disc /\ arrived.chunks # <<>>
    THEN [pts |-> arrived.pts, chunks |-> <<p.chunk>>]
    ELSE arrived

\* flaw: this step flaws what is collected.  A unit that p starts is free of it.
Taint(p, flaw) ==
    /\ excused' = (tainted \/ flaw)
    /\ tainted' = (collecting' /\ (tainted \/ flaw) /\ collectedData' # <<p.chunk>>)

\* A discontinuity flag hides a loss; a PES packet whose header cannot be read does not end
\* the unit before it, and its other packets are taken for more of that unit.
Flaws(p) == p.pusi /\ collecting /\ (~p.header \/ (p.disc /\ burst > 0))

ArriveAs(p) ==
    /\ Send
    /\ AddTsPacket(p)
    /\ last' = <<p>> /\ burst' = 0
    /\ arrived' = Arrived(p)
    /\ Taint(p, Flaws(p))
    /\ UNCHANGED faults

Arrive == \E p \in PacketsAt(next) : ArriveAs(p)

Lose ==
    /\ Send /\ burst < MaxBurst
    /\ burst = 0 => faults < MaxFaults
    /\ faults' = IF burst = 0 THEN faults + 1 ELSE faults
    /\ burst' = burst + 1
    /\ last' = <<>> /\ arrived' = NothingArrived /\ delivered' = <<>> /\ excused' = FALSE
    /\ UNCHANGED <<ccChecker, collecting, collectedData, pts, tainted>>

\* The channel may deliver a packet twice, and no more than twice; a flag hides that too.
Repeat ==
    /\ last # <<>> /\ faults < MaxFaults
    /\ AddTsPacket(last[1])
    /\ last' = <<>> /\ faults' = faults + 1
    /\ arrived' = ArrivedAgain(last[1])
    /\ Taint(last[1], last[1].disc)
    /\ UNCHANGED <<next, burst>>

Next == Arrive \/ Lose \/ Repeat

Spec == Init /\ [][Next]_vars

-----------------------------------------------------------------------------
(* Properties *)

\* Type invariant of the builder.
BuilderTypeOK ==
    /\ ccChecker \in Checkers
    /\ collecting \in BOOLEAN /\ (~collecting => collectedData = <<>> )
    /\ pts \in PtsValues \cup {NoTime}
    /\ Len(delivered) <= 1 /\ \A i \in DOMAIN delivered : delivered[i].data # <<>>

\* data is one PES packet, or several in succession, from their first to their last chunk.
Whole(data) ==
    /\ data[1].part = 1
    /\ data[Len(data)].part = data[Len(data)].of
    /\ \A i \in 1 .. Len(data) - 1 :
          \/ data[i + 1].pes = data[i].pes /\ data[i + 1].part = data[i].part + 1
          \/ /\ data[i + 1].pes = data[i].pes + 1
             /\ data[i].part = data[i].of /\ data[i + 1].part = 1

\* No unit with a hole, a foreign part or a repeated part is delivered: every loss of at most
\* 14 packets in a row is seen before the unit it hit is delivered, except where a flag or an
\* unreadable header keeps it from the builder (addTsPacket's promise not to deliver
\* corrupted access units).
DeliveredWhole ==
    \A i \in DOMAIN delivered : Whole(delivered[i].data) \/ excused

EndsWith(data, chunks) ==
    /\ Len(chunks) <= Len(data)
    /\ \A i \in 1 .. Len(chunks) : data[Len(data) - Len(chunks) + i] = chunks[i]

\* What the channel brought whole is delivered, to the last chunk and with its time, when the
\* next PES packet of another time begins: the builder throws away no more than the units a
\* loss touches and the one that follows it (addTsPacket:).
WholePesIsDelivered ==
    [][\A p \in PacketsAt(next) :
          ArriveAs(p) /\ p.pusi /\ p.header /\ SomeBytes(arrived.chunks) /\ ~Joins(p)
             => /\ delivered' # <<>> /\ delivered'[1].pts = arrived.pts
                /\ EndsWith(delivered'[1].data, arrived.chunks)
      ]_vars

=============================================================================
