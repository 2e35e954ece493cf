--------------------------- MODULE BuilderProofs ---------------------------
(* What holds of an elementary stream builder behind a channel that loses and *)
(* repeats packets, for PES packets of every size and any number of faults.   *)
EXTENDS PesChannel, SequenceTheorems, TLAPS

Chunks == [pes : Nat, part : Nat \ {0}, of : Nat \ {0}, empty : BOOLEAN]

Places == [cc : CC, pes : Nat, part : Nat \ {0}, of : Nat \ {0}]

Times == PtsValues \cup {NoTime}

Packets ==
    [cc : CC, payload : {TRUE}, disc : BOOLEAN, pusi : BOOLEAN, header : BOOLEAN,
     pts : Times, chunk : Chunks]

\* The packet at a place is the next one behind a chunk.
Follows(chunk, place) ==
    IF chunk.part < chunk.of
    THEN place.pes = chunk.pes /\ place.part = chunk.part + 1 /\ place.of = chunk.of
    ELSE place.pes = chunk.pes + 1 /\ place.part = 1 /\ chunk.part = chunk.of

\* Every chunk but the first one continues the one before it.
Chained(data) ==
    \A i \in 1 .. Len(data) - 1 :
       \/ data[i + 1].pes = data[i].pes /\ data[i + 1].part = data[i].part + 1
       \/ /\ data[i + 1].pes = data[i].pes + 1
          /\ data[i].part = data[i].of /\ data[i + 1].part = 1

\* The types of the channel and the builder.
ChannelTypeOK ==
    /\ next \in Places /\ next.part <= next.of
    /\ burst \in 0 .. MaxBurst
    /\ ccChecker \in Checkers /\ collecting \in BOOLEAN /\ tainted \in BOOLEAN
    /\ collectedData \in Seq(Chunks) /\ pts \in Times
    /\ arrived \in [pts : Times, chunks : Seq(Chunks)]

\* The counter of the packet to be sent is as far ahead of the checker's as packets were lost.
CountersAgree ==
    ccChecker.hasLastCC => next.cc = (ccChecker.lastCC + 1 + burst) % 16

\* The packet that may come again is the last one that the checker has seen.
LastIsLast ==
    last # <<>> =>
        /\ last[1] \in Packets /\ burst = 0
        /\ ccChecker.hasLastCC /\ last[1].cc = ccChecker.lastCC
        /\ last[1].disc => last[1].pusi
        /\ last[1].pusi => last[1].chunk.part = 1
        /\ Follows(last[1].chunk, next)

\* Collecting starts with the first packet of a PES packet.
CollectsFromAStart ==
    /\ ~collecting => collectedData = <<>>
    /\ collecting =>
          /\ collectedData # <<>> /\ collectedData[1].part = 1
          /\ ccChecker.hasLastCC

\* What is collected without a flaw goes on where the channel goes on, while it loses nothing.
FlawlessIsChained ==
    collecting /\ ~tainted =>
        /\ Chained(collectedData)
        /\ burst = 0 => Follows(collectedData[Len(collectedData)], next)

\* What the channel brought whole is the end of what is collected, flawed or not before it.
ArrivedIsCollected ==
    arrived.chunks # <<>> =>
        /\ burst = 0 /\ collecting /\ pts = arrived.pts
        /\ EndsWith(collectedData, arrived.chunks)
        /\ last # <<>> /\ last[1].disc => last[1].header /\ last[1].pts = arrived.pts

\* The inductive invariant, however many packets in a row are lost.
ChannelInv ==
    /\ ChannelTypeOK /\ CountersAgree /\ LastIsLast
    /\ CollectsFromAStart /\ ArrivedIsCollected

-----------------------------------------------------------------------------
(* The channel *)

\* A packet that is sent has the place and the counter of next.
LEMMA PacketAtNext ==
  ASSUME ChannelTypeOK, NEW p \in PacketsAt(next)
  PROVE  /\ p \in Packets /\ p.cc = next.cc
         /\ p.pusi <=> next.part = 1
         /\ p.disc => p.pusi
         /\ p.chunk.pes = next.pes /\ p.chunk.part = next.part /\ p.chunk.of = next.of
<1>1. next \in Places
  BY DEF ChannelTypeOK
<1>2. PICK disc \in BOOLEAN, header \in BOOLEAN, t \in Times, empty \in BOOLEAN :
         p = PacketAt(next, disc, header, t, empty) /\ (disc => next.part = 1)
  <2>1. CASE next.part = 1
    <3>1. p \in {PacketAt(next, disc, header, t, empty) :
                    disc \in Flags, header \in Headers, t \in Times, empty \in BOOLEAN}
      BY <2>1 DEF PacketsAt, Times
    <3>2. Flags \subseteq BOOLEAN /\ Headers \subseteq BOOLEAN
      BY ChannelAssumption DEF ChannelAssumption
    <3> QED
      BY <2>1, <3>1, <3>2
  <2>2. CASE next.part # 1
    <3>1. p = PacketAt(next, FALSE, FALSE, NoTime, FALSE)
      BY <2>2 DEF PacketsAt
    <3>2. NoTime \in Times
      BY DEF Times
    <3> QED
      BY <3>1, <3>2
  <2> QED
    BY <2>1, <2>2
<1>3. [pes |-> next.pes, part |-> next.part, of |-> next.of, empty |-> empty] \in Chunks
  BY <1>1, <1>2 DEF Places, Chunks
<1>4. p \in Packets
  BY <1>1, <1>2, <1>3 DEF Packets, Places, PacketAt
<1> QED
  BY <1>2, <1>4 DEF PacketAt

\* The place after next is typed, and is the place behind the packet at next.
LEMMA SendStep ==
  ASSUME ChannelTypeOK, Send
  PROVE  /\ next' \in Places /\ next'.part <= next'.of
         /\ next'.cc = NextCC(next.cc)
         /\ \A chunk \in Chunks :
               chunk.pes = next.pes /\ chunk.part = next.part /\ chunk.of = next.of
                  => Follows(chunk, next')
<1>1. next \in Places /\ next.part <= next.of /\ NextCC(next.cc) \in CC
  BY DEF ChannelTypeOK, Places, NextCC, CC
<1>2. CASE next.part < next.of
  <2>1. next' = [next EXCEPT !.cc = NextCC(next.cc), !.part = next.part + 1]
    BY <1>2 DEF Send
  <2>2. /\ next'.cc = NextCC(next.cc) /\ next'.pes = next.pes
        /\ next'.part = next.part + 1 /\ next'.of = next.of
    BY <1>1, <2>1 DEF Places
  <2>3. next.part \in Nat /\ next.of \in Nat /\ next.part + 1 \in Nat \ {0}
    BY <1>1 DEF Places
  <2>4. next' \in Places
    BY <1>1, <2>1, <2>3 DEF Places
  <2> QED
    BY <1>2, <2>2, <2>3, <2>4 DEF Follows
<1>3. CASE next.part = next.of
  <2>1. PICK n \in PesSizes :
            next' = [cc |-> NextCC(next.cc), pes |-> next.pes + 1, part |-> 1, of |-> n]
    BY <1>1, <1>3 DEF Send, PesStart, Places
  <2>2. n \in Nat \ {0}
    BY ChannelAssumption DEF ChannelAssumption
  <2> QED
    BY <1>1, <1>3, <2>1, <2>2 DEF Places, Chunks, Follows
<1> QED
  BY <1>1, <1>2, <1>3 DEF Places

-----------------------------------------------------------------------------
(* The builder *)

\* What addTsPacket: does to the collected data: nothing, drop it, add to it, or deliver it
\* and start anew.
Kept == delivered' = <<>> /\ UNCHANGED <<collecting, collectedData, pts>>

Dropped ==
    delivered' = <<>> /\ collecting' = FALSE /\ collectedData' = <<>> /\ pts' = NoTime

Extended(p) ==
    /\ collecting /\ collecting' /\ pts' = pts /\ delivered' = <<>>
    /\ collectedData' = Append(collectedData, p.chunk)

Started(p) ==
    /\ p.pusi /\ p.header /\ Deliver
    /\ collecting' = TRUE /\ collectedData' = <<p.chunk>> /\ pts' = p.pts

\* addTsPacket: by the result of the continuity check.
LEMMA Outcomes ==
  ASSUME ChannelTypeOK, NEW p \in Packets, AddTsPacket(p)
  PROVE  /\ ccChecker' = Checked(p)
         /\ Check(ccChecker, p) \in {"Gap", "Duplicate", "OK"}
         /\ Check(ccChecker, p) = "Gap" => Dropped
         /\ Check(ccChecker, p) = "Duplicate" => Kept
         /\ Check(ccChecker, p) = "OK" =>
               \/ Kept /\ (p.pusi => ~p.header) /\ (~p.pusi => ~collecting)
               \/ Extended(p) /\ (p.pusi => p.header /\ IsSameAccessUnit(p))
               \/ Started(p) /\ ~IsSameAccessUnit(p)
<1>1. p.pusi \in BOOLEAN /\ p.header \in BOOLEAN /\ collecting \in BOOLEAN
  BY DEF Packets, ChannelTypeOK
<1>2. ccChecker' = Checked(p) /\ Check(ccChecker, p) \in {"Gap", "Duplicate", "OK"}
  BY DEF AddTsPacket, Check
<1>3. Check(ccChecker, p) = "Gap" => Dropped
  BY DEF AddTsPacket, DiscardOnGap, Dropped
<1>4. Check(ccChecker, p) = "Duplicate" => Kept
  BY DEF AddTsPacket, Nothing, Kept
<1>5. ASSUME Check(ccChecker, p) = "OK", p.pusi
      PROVE  \/ Kept /\ ~p.header
             \/ Extended(p) /\ p.header /\ IsSameAccessUnit(p)
             \/ Started(p) /\ ~IsSameAccessUnit(p)
  <2>1. IF p.header THEN StartPes(p) ELSE Nothing
    BY <1>5 DEF AddTsPacket
  <2>2. CASE ~p.header
    BY <2>1, <2>2 DEF Nothing, Kept
  <2>3. CASE p.header /\ IsSameAccessUnit(p)
    <3>1. collecting
      BY <2>3 DEF IsSameAccessUnit, HasBytes
    <3> QED
      BY <2>1, <2>3, <3>1 DEF StartPes, Extended
  <2>4. CASE p.header /\ ~IsSameAccessUnit(p)
    BY <1>5, <2>1, <2>4 DEF StartPes, Started
  <2> QED
    BY <1>1, <2>2, <2>3, <2>4
<1>6. ASSUME Check(ccChecker, p) = "OK", ~p.pusi
      PROVE  (Kept /\ ~collecting) \/ Extended(p)
  <2>1. ContinuePes(p)
    BY <1>6 DEF AddTsPacket
  <2> QED
    BY <1>1, <2>1 DEF ContinuePes, Kept, Extended
<1> QED
  BY <1>1, <1>2, <1>3, <1>4, <1>5, <1>6

\* A packet that follows the last one seen is in order.  After a loss of 1 to 14 packets it is
\* seen to be missing some, unless its discontinuity flag hides that: 15 would look like a
\* repetition, 16 like none.
LEMMA LossesAreSeen ==
  ASSUME ChannelTypeOK, CountersAgree, NEW p \in Packets, p.cc = next.cc
  PROVE  /\ burst = 0 => Check(ccChecker, p) = "OK"
         /\ ccChecker.hasLastCC /\ ~p.disc /\ burst \in 1 .. 14 => Check(ccChecker, p) = "Gap"
<1> DEFINE has == ccChecker.hasLastCC
           cc  == ccChecker.lastCC
<1>1. has \in BOOLEAN /\ cc \in CC /\ p.payload /\ p.disc \in BOOLEAN
  BY DEF ChannelTypeOK, Checkers, Packets
<1>2. has => p.cc = (cc + 1 + burst) % 16
  BY DEF CountersAgree
<1>3. burst \in Nat
  BY ChannelAssumption DEF ChannelTypeOK, ChannelAssumption
<1>4. \A a \in CC : (a + 1 + 0) % 16 = NextCC(a) /\ NextCC(a) # a
  BY DEF CC, NextCC
<1>5. \A a \in CC, n \in 1 .. 14 : (a + 1 + n) % 16 # a /\ (a + 1 + n) % 16 # NextCC(a)
  BY DEF CC, NextCC
<1>6. Check(ccChecker, p) =
         IF has /\ ~p.disc /\ p.cc = cc THEN "Duplicate"
         ELSE IF has /\ ~p.disc /\ ~(p.payload /\ p.cc = NextCC(cc)) THEN "Gap" ELSE "OK"
  BY DEF Check
<1> HIDE DEF has, cc
<1> QED
  BY <1>1, <1>2, <1>4, <1>5, <1>6 DEF has, cc

\* A packet that comes again is a repetition, unless its discontinuity flag hides that.
LEMMA RepetitionsAreSeen ==
  ASSUME ChannelTypeOK, NEW p \in Packets, ccChecker.hasLastCC, p.cc = ccChecker.lastCC
  PROVE  Check(ccChecker, p) = IF p.disc THEN "OK" ELSE "Duplicate"
BY DEF ChannelTypeOK, Checkers, Packets, Check

\* What is collected after a packet: still a sequence of chunks that starts with the first one
\* of a PES packet, and that ends with this packet's if it was taken in.
LEMMA Collected ==
  ASSUME ChannelTypeOK, CollectsFromAStart, NEW p \in Packets, AddTsPacket(p),
         p.pusi => p.chunk.part = 1
  PROVE  /\ ccChecker' = Checked(p) /\ ccChecker' \in Checkers
         /\ collecting' \in BOOLEAN /\ collectedData' \in Seq(Chunks) /\ pts' \in Times
         /\ CollectsFromAStart'
         /\ Extended(p) \/ Started(p) =>
               collecting' /\ collectedData'[Len(collectedData')] = p.chunk
<1>1. p.chunk \in Chunks /\ p.pts \in Times /\ p.cc \in CC /\ NoTime \in Times
  BY DEF Packets, Times
<1>2. ccChecker' = Checked(p)
  BY Outcomes
<1>3. ccChecker' \in Checkers /\ ccChecker'.hasLastCC
  BY <1>1, <1>2 DEF Checked, Checkers
<1>4. collectedData \in Seq(Chunks) /\ Len(collectedData) \in Nat
  BY LenProperties DEF ChannelTypeOK
<1>5. CASE Kept
  <2>1. Extended(p) \/ Started(p) =>
           collecting' /\ collectedData'[Len(collectedData')] = p.chunk
    <3>1. ASSUME Extended(p)
          PROVE  FALSE
      <4>1. collectedData = Append(collectedData, p.chunk)
        BY <1>5, <3>1 DEF Kept, Extended
      <4> QED
        BY <1>1, <1>4, <4>1, AppendProperties
    <3>2. ASSUME Started(p)
          PROVE  collecting' /\ collectedData'[Len(collectedData')] = p.chunk
      BY <3>2 DEF Started
    <3> QED
      BY <3>1, <3>2
  <2> QED
    BY <1>2, <1>3, <1>5, <2>1 DEF Kept, CollectsFromAStart, ChannelTypeOK
<1>6. CASE Dropped
  <2>1. ~Extended(p) /\ ~Started(p)
    BY <1>6 DEF Dropped, Extended, Started
  <2>2. <<>> \in Seq(Chunks)
    BY EmptySeq
  <2> QED
    BY <1>1, <1>2, <1>3, <1>6, <2>1, <2>2 DEF Dropped, CollectsFromAStart
<1>7. CASE Extended(p)
  <2>1. /\ collectedData' \in Seq(Chunks) /\ collectedData' # <<>>
        /\ Len(collectedData') = Len(collectedData) + 1
        /\ collectedData'[Len(collectedData) + 1] = p.chunk
        /\ \A i \in 1 .. Len(collectedData) : collectedData'[i] = collectedData[i]
    BY <1>1, <1>4, <1>7, AppendProperties DEF Extended
  <2>2. collecting /\ collectedData # <<>> /\ collectedData[1].part = 1
    BY <1>7 DEF Extended, CollectsFromAStart
  <2>3. 1 \in 1 .. Len(collectedData)
    BY <1>4, <2>2, EmptySeq
  <2>4. collecting' /\ pts' \in Times
    BY <1>7 DEF Extended, ChannelTypeOK
  <2>5. collecting' \in BOOLEAN
    BY <1>7, <2>2, <2>4 DEF Extended, ChannelTypeOK, AddTsPacket, StartPes, ContinuePes,
                            Deliver, DiscardOnGap, Nothing
  <2> QED
    BY <1>2, <1>3, <2>1, <2>2, <2>3, <2>4, <2>5 DEF CollectsFromAStart
<1>8. CASE Started(p)
  <2>1. /\ collecting' = TRUE /\ collectedData' = <<p.chunk>> /\ pts' = p.pts
        /\ p.chunk.part = 1
    BY <1>8 DEF Started
  <2>2. <<p.chunk>> \in Seq(Chunks) /\ <<p.chunk>> # <<>> /\ Len(<<p.chunk>>) = 1
    BY <1>1
  <2> QED
    BY <1>1, <1>2, <1>3, <2>1, <2>2 DEF CollectsFromAStart
<1> QED
  BY <1>5, <1>6, <1>7, <1>8, Outcomes

-----------------------------------------------------------------------------
(* What arrived and what is collected *)

\* A chunk that goes to both is the end of both.
LEMMA BothGoOn ==
  ASSUME NEW data \in Seq(Chunks), NEW chunks \in Seq(Chunks), NEW c \in Chunks,
         EndsWith(data, chunks)
  PROVE  EndsWith(Append(data, c), Append(chunks, c))
<1> DEFINE m == Len(data)
           n == Len(chunks)
           longer == Append(data, c)
           more   == Append(chunks, c)
<1>1. m \in Nat /\ n \in Nat /\ n <= m /\ \A i \in 1 .. n : data[m - n + i] = chunks[i]
  BY LenProperties DEF EndsWith
<1>2. /\ Len(longer) = m + 1 /\ longer[m + 1] = c /\ \A i \in 1 .. m : longer[i] = data[i]
      /\ Len(more) = n + 1 /\ more[n + 1] = c /\ \A i \in 1 .. n : more[i] = chunks[i]
  BY AppendProperties
<1> HIDE DEF m, n, longer, more
<1>3. ASSUME NEW i \in 1 .. n + 1
      PROVE  longer[(m + 1) - (n + 1) + i] = more[i]
  <2>1. (m + 1) - (n + 1) + i = m - n + i
    BY <1>1
  <2>2. CASE i = n + 1
    <3>1. m - n + i = m + 1
      BY <1>1, <2>2
    <3> QED
      BY <1>2, <2>1, <2>2, <3>1
  <2>3. CASE i \in 1 .. n
    <3>1. m - n + i \in 1 .. m
      BY <1>1, <2>3
    <3> QED
      BY <1>1, <1>2, <2>1, <2>3, <3>1
  <2> QED
    BY <1>1, <2>2, <2>3
<1>4. EndsWith(longer, more)
  BY <1>1, <1>2, <1>3 DEF EndsWith
<1> QED
  BY <1>4 DEF longer, more

\* The last chunk alone is the end.
LEMMA LastIsTheEnd ==
  ASSUME NEW data \in Seq(Chunks), data # <<>>, NEW c \in Chunks, data[Len(data)] = c
  PROVE  EndsWith(data, <<c>>)
<1>1. Len(data) \in Nat \ {0}
  BY EmptySeq, LenProperties
<1>2. Len(<<c>>) = 1 /\ <<c>>[1] = c
  OBVIOUS
<1>3. Len(data) - 1 + 1 = Len(data) /\ 1 <= Len(data)
  BY <1>1
<1> QED
  BY <1>2, <1>3 DEF EndsWith

\* Bytes that arrived are collected: the next PES packet of the time joins them.
LEMMA ArrivedBytes ==
  ASSUME ChannelTypeOK, ArrivedIsCollected, SomeBytes(arrived.chunks)
  PROVE  /\ HasBytes /\ pts = arrived.pts /\ burst = 0 /\ arrived.chunks # <<>>
         /\ EndsWith(collectedData, arrived.chunks)
<1>1. PICK i \in DOMAIN arrived.chunks : ~arrived.chunks[i].empty
  BY DEF SomeBytes
<1>2. /\ arrived.chunks \in Seq(Chunks) /\ collectedData \in Seq(Chunks)
      /\ Len(arrived.chunks) \in Nat /\ Len(collectedData) \in Nat
      /\ i \in 1 .. Len(arrived.chunks)
  BY <1>1, LenProperties DEF ChannelTypeOK
<1>3. arrived.chunks # <<>>
  BY <1>2, EmptySeq
<1>4. /\ burst = 0 /\ collecting /\ pts = arrived.pts
      /\ EndsWith(collectedData, arrived.chunks)
  BY <1>3 DEF ArrivedIsCollected
<1> DEFINE j == Len(collectedData) - Len(arrived.chunks) + i
<1>5. j \in 1 .. Len(collectedData) /\ collectedData[j] = arrived.chunks[i]
  <2>1. Len(arrived.chunks) <= Len(collectedData) /\ collectedData[j] = arrived.chunks[i]
    BY <1>2, <1>4 DEF EndsWith
  <2>2. \A m, n \in Nat : n <= m => \A k \in 1 .. n : m - n + k \in 1 .. m
    OBVIOUS
  <2> QED
    BY <1>2, <2>1, <2>2
<1>6. HasBytes
  BY <1>1, <1>2, <1>4, <1>5 DEF HasBytes
<1> QED
  BY <1>3, <1>4, <1>6

-----------------------------------------------------------------------------
(* The inductive invariant *)

\* A packet arrives (addTsPacket:).
LEMMA ArriveStep ==
  ASSUME ChannelInv, NEW p \in PacketsAt(next), ArriveAs(p)
  PROVE  ChannelInv'
<1> USE DEF ChannelInv
<1>1. /\ p \in Packets /\ p.cc = next.cc
      /\ p.pusi <=> next.part = 1
      /\ p.disc => p.pusi
      /\ p.chunk.pes = next.pes /\ p.chunk.part = next.part /\ p.chunk.of = next.of
  BY PacketAtNext
<1>2. p.chunk \in Chunks /\ next \in Places
  BY <1>1 DEF Packets, ChannelTypeOK
<1>3. /\ next' \in Places /\ next'.part <= next'.of
      /\ next'.cc = NextCC(next.cc) /\ Follows(p.chunk, next')
  BY <1>1, <1>2, SendStep DEF ArriveAs
<1>4. /\ AddTsPacket(p) /\ last' = <<p>> /\ burst' = 0 /\ arrived' = Arrived(p)
      /\ tainted' = (collecting' /\ (tainted \/ Flaws(p)) /\ collectedData' # <<p.chunk>>)
  BY DEF ArriveAs, Taint
<1>5. /\ ccChecker' = Checked(p) /\ ccChecker' \in Checkers
      /\ collecting' \in BOOLEAN /\ collectedData' \in Seq(Chunks) /\ pts' \in Times
      /\ CollectsFromAStart'
      /\ Extended(p) \/ Started(p) =>
            collecting' /\ collectedData'[Len(collectedData')] = p.chunk
  BY <1>1, <1>4, Collected
<1>6. ChannelTypeOK'
  <2>1. burst' \in 0 .. MaxBurst
    BY <1>4, ChannelAssumption DEF ChannelAssumption
  <2>2. tainted' \in BOOLEAN
    BY <1>4
  <2>3. arrived' \in [pts : Times, chunks : Seq(Chunks)]
    <3>1. /\ <<>> \in Seq(Chunks) /\ <<p.chunk>> \in Seq(Chunks)
          /\ arrived.pts \in Times /\ arrived.chunks \in Seq(Chunks)
          /\ p.pts \in Times /\ NoTime \in Times
      BY <1>1, <1>2, EmptySeq DEF ChannelTypeOK, Packets, Times
    <3>2. Append(arrived.chunks, p.chunk) \in Seq(Chunks)
      BY <1>2, <3>1, AppendProperties
    <3> QED
      BY <1>4, <3>1, <3>2 DEF Arrived, NothingArrived
  <2> QED
    BY <1>3, <1>5, <2>1, <2>2, <2>3 DEF ChannelTypeOK
<1>7. CountersAgree'
  <2>1. next.cc \in Nat
    BY <1>2 DEF Places, CC
  <2> QED
    BY <1>1, <1>3, <1>4, <1>5, <2>1 DEF CountersAgree, Checked, NextCC
<1>8. LastIsLast'
  BY <1>1, <1>3, <1>4, <1>5 DEF LastIsLast, Checked
<1>9. ArrivedIsCollected'
  <2>1. SUFFICES ASSUME arrived'.chunks # <<>>
                 PROVE  /\ collecting' /\ pts' = arrived'.pts
                        /\ EndsWith(collectedData', arrived'.chunks)
                        /\ p.pusi => p.header /\ p.pts = arrived'.pts
    BY <1>1, <1>4 DEF ArrivedIsCollected
  <2>2. /\ burst = 0 /\ (p.pusi => p.header)
        /\ ~p.pusi => arrived.chunks # <<>>
        /\ arrived' = IF p.pusi
                      THEN [pts    |-> p.pts,
                            chunks |-> IF Joins(p) THEN Append(arrived.chunks, p.chunk)
                                       ELSE <<p.chunk>>]
                      ELSE [pts    |-> arrived.pts,
                            chunks |-> Append(arrived.chunks, p.chunk)]
    <3>1. burst \in Nat
      BY ChannelAssumption DEF ChannelTypeOK, ChannelAssumption
    <3>2. arrived' # NothingArrived
      BY <2>1 DEF NothingArrived
    <3> QED
      BY <1>4, <3>1, <3>2 DEF Arrived
  <2>3. Check(ccChecker, p) = "OK"
    BY <1>1, <2>2, LossesAreSeen
  <2>4. /\ collectedData \in Seq(Chunks) /\ arrived.chunks \in Seq(Chunks)
        /\ collectedData' # <<>> \/ ~collecting'
    BY <1>5 DEF ChannelTypeOK, CollectsFromAStart
  <2>5. CASE p.pusi /\ Joins(p)
    <3>1. /\ HasBytes /\ pts = arrived.pts /\ EndsWith(collectedData, arrived.chunks)
          /\ p.pts # NoTime /\ p.pts = arrived.pts
      BY <2>5, ArrivedBytes DEF Joins
    <3>2. IsSameAccessUnit(p)
      BY <3>1 DEF IsSameAccessUnit
    <3>3. Extended(p)
      BY <1>1, <1>4, <2>2, <2>3, <2>5, <3>2, Outcomes
    <3>4. EndsWith(Append(collectedData, p.chunk), Append(arrived.chunks, p.chunk))
      BY <1>2, <2>4, <3>1, BothGoOn
    <3> QED
      BY <2>2, <2>5, <3>1, <3>3, <3>4 DEF Extended
  <2>6. CASE p.pusi /\ ~Joins(p)
    <3>1. (Extended(p) /\ IsSameAccessUnit(p)) \/ Started(p)
      BY <1>1, <1>4, <2>2, <2>3, <2>6, Outcomes
    <3>2. pts' = p.pts
      BY <3>1 DEF Extended, Started, IsSameAccessUnit
    <3>3. EndsWith(collectedData', <<p.chunk>>)
      BY <1>2, <1>5, <2>4, <3>1, LastIsTheEnd
    <3> QED
      BY <1>5, <2>2, <2>6, <3>1, <3>2, <3>3
  <2>7. CASE ~p.pusi
    <3>1. collecting /\ pts = arrived.pts /\ EndsWith(collectedData, arrived.chunks)
      BY <2>2, <2>7 DEF ArrivedIsCollected
    <3>2. Extended(p)
      BY <1>1, <1>4, <2>3, <2>7, <3>1, Outcomes DEF Started
    <3>3. EndsWith(Append(collectedData, p.chunk), Append(arrived.chunks, p.chunk))
      BY <1>2, <2>4, <3>1, BothGoOn
    <3> QED
      BY <2>2, <2>7, <3>1, <3>2, <3>3 DEF Extended
  <2> QED
    BY <2>5, <2>6, <2>7
<1> QED
  BY <1>5, <1>6, <1>7, <1>8, <1>9

\* A packet is lost.
LEMMA LoseStep ==
  ASSUME ChannelInv, Lose
  PROVE  ChannelInv'
<1> USE DEF ChannelInv
<1>1. next' \in Places /\ next'.part <= next'.of /\ next'.cc = NextCC(next.cc)
  BY SendStep DEF Lose
<1>2. /\ burst < MaxBurst /\ burst' = burst + 1 /\ last' = <<>>
      /\ arrived' = NothingArrived
      /\ UNCHANGED <<ccChecker, collecting, collectedData, pts, tainted>>
  BY DEF Lose
<1>3. burst \in Nat /\ MaxBurst \in Nat
  BY ChannelAssumption DEF ChannelTypeOK, ChannelAssumption
<1>4. ChannelTypeOK'
  <2>1. NothingArrived \in [pts : Times, chunks : Seq(Chunks)]
    BY EmptySeq DEF NothingArrived, Times
  <2> QED
    BY <1>1, <1>2, <1>3, <2>1 DEF ChannelTypeOK
<1>5. CountersAgree'
  <2>1. \A x \in Nat : ((x % 16) + 1) % 16 = (x + 1) % 16
    OBVIOUS
  <2>2. ccChecker.lastCC \in Nat
    BY DEF ChannelTypeOK, Checkers, CC
  <2>3. ASSUME ccChecker.hasLastCC
        PROVE  next'.cc = (ccChecker.lastCC + 1 + (burst + 1)) % 16
    <3>1. next.cc = (ccChecker.lastCC + 1 + burst) % 16
      BY <2>3 DEF CountersAgree
    <3>2. next'.cc = (next.cc + 1) % 16
      BY <1>1 DEF NextCC
    <3>3. ccChecker.lastCC + 1 + burst \in Nat
      BY <1>3, <2>2
    <3> DEFINE x == ccChecker.lastCC + 1 + burst
    <3>4. ((x % 16) + 1) % 16 = (x + 1) % 16
      BY <2>1, <3>3
    <3>5. x + 1 = ccChecker.lastCC + 1 + (burst + 1)
      BY <1>3, <2>2
    <3> QED
      BY <3>1, <3>2, <3>4, <3>5
  <2> QED
    BY <1>2, <2>3 DEF CountersAgree
<1>6. LastIsLast' /\ CollectsFromAStart'
  BY <1>2 DEF LastIsLast, CollectsFromAStart
<1>7. ArrivedIsCollected'
  BY <1>2 DEF ArrivedIsCollected, NothingArrived
<1> QED
  BY <1>4, <1>5, <1>6, <1>7

\* A packet comes again.
LEMMA RepeatStep ==
  ASSUME ChannelInv, Repeat
  PROVE  ChannelInv'
<1> USE DEF ChannelInv
<1> DEFINE p == last[1]
<1>1. /\ p \in Packets /\ burst = 0
      /\ ccChecker.hasLastCC /\ p.cc = ccChecker.lastCC
      /\ p.pusi => p.chunk.part = 1
      /\ p.disc => p.pusi
      /\ arrived.chunks # <<>> /\ p.disc => p.header /\ p.pts = arrived.pts
      /\ Follows(p.chunk, next)
  BY DEF Repeat, LastIsLast, ArrivedIsCollected
<1>2. /\ AddTsPacket(p) /\ last' = <<>> /\ UNCHANGED <<next, burst>>
      /\ arrived' = ArrivedAgain(p)
      /\ tainted' = (collecting' /\ (tainted \/ p.disc) /\ collectedData' # <<p.chunk>>)
  BY DEF Repeat, Taint
<1> HIDE DEF p
<1>3. /\ ccChecker' = Checked(p) /\ ccChecker' \in Checkers
      /\ collecting' \in BOOLEAN /\ collectedData' \in Seq(Chunks) /\ pts' \in Times
      /\ CollectsFromAStart'
      /\ Extended(p) \/ Started(p) =>
            collecting' /\ collectedData'[Len(collectedData')] = p.chunk
  BY <1>1, <1>2, Collected
<1>4. ChannelTypeOK'
  <2>1. tainted' \in BOOLEAN
    BY <1>2
  <2>2. arrived' \in [pts : Times, chunks : Seq(Chunks)]
    <3>1. p.chunk \in Chunks /\ <<p.chunk>> \in Seq(Chunks)
      BY <1>1 DEF Packets
    <3> QED
      BY <1>2, <3>1 DEF ArrivedAgain, ChannelTypeOK
  <2> QED
    BY <1>2, <1>3, <2>1, <2>2 DEF ChannelTypeOK
<1>5. CountersAgree'
  BY <1>1, <1>2, <1>3 DEF CountersAgree, Checked
<1>6. LastIsLast'
  BY <1>2 DEF LastIsLast
<1>7. ArrivedIsCollected'
  <2>1. SUFFICES ASSUME arrived'.chunks # <<>>
                 PROVE  /\ collecting' /\ pts' = arrived'.pts
                        /\ EndsWith(collectedData', arrived'.chunks)
    BY <1>1, <1>2 DEF ArrivedIsCollected
  <2>2. arrived.chunks # <<>>
    BY <1>2, <2>1 DEF ArrivedAgain
  <2>3. /\ collecting /\ pts = arrived.pts /\ EndsWith(collectedData, arrived.chunks)
    BY <2>2 DEF ArrivedIsCollected
  <2>4. CASE p.disc
    <3>1. arrived' = [pts |-> arrived.pts, chunks |-> <<p.chunk>>]
      BY <1>2, <2>2, <2>4 DEF ArrivedAgain
    <3>2. p.pusi /\ p.header /\ p.pts = arrived.pts
      BY <1>1, <2>2, <2>4
    <3>3. Check(ccChecker, p) = "OK"
      BY <1>1, <2>4, RepetitionsAreSeen
    <3>4. Extended(p) \/ Started(p)
      BY <1>1, <1>2, <3>2, <3>3, Outcomes
    <3>5. pts' = arrived.pts
      BY <2>3, <3>2, <3>4 DEF Extended, Started
    <3>6. p.chunk \in Chunks /\ collectedData' # <<>>
      BY <1>1, <1>3, <3>4 DEF Packets, CollectsFromAStart
    <3>7. EndsWith(collectedData', <<p.chunk>>)
      BY <1>3, <3>4, <3>6, LastIsTheEnd
    <3> QED
      BY <1>3, <3>1, <3>4, <3>5, <3>7
  <2>5. CASE ~p.disc
    <3>1. Kept
      BY <1>1, <1>2, <2>5, RepetitionsAreSeen, Outcomes
    <3> QED
      BY <1>2, <2>3, <2>5, <3>1 DEF ArrivedAgain, Kept
  <2> QED
    BY <2>4, <2>5
<1> QED
  BY <1>3, <1>4, <1>5, <1>6, <1>7

\* The inductive invariant holds, however many packets in a row are lost.
THEOREM BuilderFollowsTheChannel == Spec => []ChannelInv
<1>1. ASSUME Init
      PROVE  ChannelInv
  <2>1. /\ ccChecker = NewChecker /\ collecting = FALSE /\ collectedData = <<>>
        /\ pts = NoTime /\ last = <<>> /\ burst = 0 /\ tainted = FALSE
        /\ arrived = NothingArrived
    BY <1>1 DEF Init, BuilderInit
  <2>2. PICK n \in PesSizes : next = [cc |-> 0, pes |-> 1, part |-> 1, of |-> n]
    BY <1>1 DEF Init, PesStart
  <2>3. n \in Nat \ {0} /\ MaxBurst \in Nat
    BY ChannelAssumption DEF ChannelAssumption
  <2>4. next \in Places /\ next.part <= next.of
    BY <2>2, <2>3 DEF Places, CC
  <2>5. NewChecker \in Checkers /\ ~NewChecker.hasLastCC
    BY DEF NewChecker, Checkers, CC
  <2>6. <<>> \in Seq(Chunks) /\ NoTime \in Times
    BY EmptySeq DEF Times
  <2>7. burst \in 0 .. MaxBurst /\ ccChecker \in Checkers /\ pts \in Times
    BY <2>1, <2>3, <2>5, <2>6
  <2>8. collecting \in BOOLEAN /\ tainted \in BOOLEAN /\ collectedData \in Seq(Chunks)
    BY <2>1, <2>6
  <2>9. ChannelTypeOK
    BY <2>1, <2>4, <2>6, <2>7, <2>8 DEF ChannelTypeOK, NothingArrived
  <2> QED
    BY <2>1, <2>5, <2>9
    DEF ChannelInv, CountersAgree, LastIsLast, CollectsFromAStart, ArrivedIsCollected,
        NothingArrived
<1>2. ASSUME ChannelInv, [Next]_vars
      PROVE  ChannelInv'
  <2>1. CASE UNCHANGED vars
    <3>1. UNCHANGED <<ccChecker, collecting, collectedData, pts, next, last, burst, arrived,
                     tainted>>
      BY <2>1 DEF vars, builderVars, channelVars
    <3> QED
      BY <1>2, <3>1 DEF ChannelInv, ChannelTypeOK, CountersAgree, LastIsLast,
                        CollectsFromAStart, ArrivedIsCollected
  <2> QED
    BY <1>2, <2>1, ArriveStep, LoseStep, RepeatStep DEF Next, Arrive
<1> QED
  BY <1>1, <1>2, PTL DEF Spec

-----------------------------------------------------------------------------
(* What is delivered *)

\* A packet delivers nothing, or, when it starts a unit, what was collected before it.
LEMMA DeliveredByAPacket ==
  ASSUME ChannelTypeOK, NEW p \in Packets, AddTsPacket(p)
  PROVE  \/ delivered' = <<>>
         \/ /\ Started(p) /\ HasBytes /\ ~IsSameAccessUnit(p)
            /\ Check(ccChecker, p) = "OK"
            /\ delivered' = <<[pts |-> pts, data |-> collectedData]>>
<1>1. CASE Check(ccChecker, p) = "OK"
  BY <1>1, Outcomes DEF Kept, Extended, Started, Deliver
<1> QED
  BY <1>1, Outcomes DEF Kept, Dropped

\* At most one unit is delivered at a time, and it is not empty.
UnitOK == Len(delivered) <= 1 /\ \A i \in DOMAIN delivered : delivered[i].data # <<>>

LEMMA UnitStep ==
  ASSUME ChannelInv, UnitOK, [Next]_vars
  PROVE  UnitOK'
<1> USE DEF ChannelInv
<1>1. delivered' = <<>> => UnitOK'
  BY EmptySeq DEF UnitOK
<1>2. ASSUME NEW p \in Packets, AddTsPacket(p)
      PROVE  UnitOK'
  <2>1. HasBytes => collectedData # <<>>
    BY DEF HasBytes
  <2>2. delivered' = <<[pts |-> pts, data |-> collectedData]>> /\ HasBytes => UnitOK'
    BY <2>1 DEF UnitOK
  <2> QED
    BY <1>1, <1>2, <2>2, DeliveredByAPacket
<1>3. CASE Arrive
  BY <1>2, <1>3, PacketAtNext DEF Arrive, ArriveAs
<1>4. CASE Repeat
  BY <1>2, <1>4 DEF Repeat, LastIsLast
<1>5. CASE Lose
  BY <1>1, <1>5 DEF Lose
<1>6. CASE UNCHANGED vars
  BY <1>6 DEF vars, builderVars, UnitOK
<1> QED
  BY <1>3, <1>4, <1>5, <1>6 DEF Next

\* The types of the builder.
THEOREM BuilderTypes == Spec => []BuilderTypeOK
<1>1. Init => UnitOK
  BY EmptySeq DEF Init, BuilderInit, UnitOK
<1>2. ChannelInv /\ UnitOK /\ [Next]_vars => UnitOK'
  BY UnitStep
<1>3. ChannelInv /\ UnitOK => BuilderTypeOK
  BY DEF ChannelInv, ChannelTypeOK, CollectsFromAStart, UnitOK, BuilderTypeOK, Times
<1> QED
  BY <1>1, <1>2, <1>3, BuilderFollowsTheChannel, PTL DEF Spec

\* What the channel brought whole, a PES packet or several of one time in a row, is delivered
\* to the last chunk when the next one of another time begins, however many packets the
\* channel loses elsewhere (addTsPacket:).
THEOREM WholePesComesOut == Spec => WholePesIsDelivered
<1> DEFINE ComesOut ==
             \A p \in PacketsAt(next) :
                ArriveAs(p) /\ p.pusi /\ p.header /\ SomeBytes(arrived.chunks) /\ ~Joins(p)
                   => /\ delivered' # <<>> /\ delivered'[1].pts = arrived.pts
                      /\ EndsWith(delivered'[1].data, arrived.chunks)
<1>1. ASSUME ChannelInv, NEW p \in PacketsAt(next),
             ArriveAs(p), p.pusi, p.header, SomeBytes(arrived.chunks), ~Joins(p)
      PROVE  /\ delivered' = <<[pts |-> pts, data |-> collectedData]>>
             /\ pts = arrived.pts /\ EndsWith(collectedData, arrived.chunks)
  <2> USE <1>1 DEF ChannelInv
  <2>1. p \in Packets /\ p.cc = next.cc
    BY PacketAtNext
  <2>2. /\ HasBytes /\ pts = arrived.pts /\ burst = 0
        /\ EndsWith(collectedData, arrived.chunks)
    BY ArrivedBytes
  <2>3. AddTsPacket(p) /\ Check(ccChecker, p) = "OK"
    BY <2>1, <2>2, LossesAreSeen DEF ArriveAs
  <2>4. ~IsSameAccessUnit(p)
    BY <2>2 DEF IsSameAccessUnit, Joins
  <2>5. Started(p)
    BY <2>1, <2>2, <2>3, <2>4, Outcomes DEF HasBytes
  <2>6. delivered' = <<[pts |-> pts, data |-> collectedData]>>
    BY <2>2, <2>5 DEF Started, Deliver
  <2> QED
    BY <2>2, <2>6
<1>2. ASSUME NEW t, NEW data, delivered' = <<[pts |-> t, data |-> data]>>
      PROVE  delivered' # <<>> /\ delivered'[1].pts = t /\ delivered'[1].data = data
  BY <1>2
<1>3. ASSUME ChannelInv
      PROVE  ComesOut
  <2> SUFFICES ASSUME NEW p \in PacketsAt(next), ArriveAs(p), p.pusi, p.header,
                      SomeBytes(arrived.chunks), ~Joins(p)
               PROVE  /\ delivered' # <<>> /\ delivered'[1].pts = arrived.pts
                      /\ EndsWith(delivered'[1].data, arrived.chunks)
    OBVIOUS
  <2>1. /\ delivered' = <<[pts |-> pts, data |-> collectedData]>>
        /\ pts = arrived.pts /\ EndsWith(collectedData, arrived.chunks)
    BY <1>1, <1>3
  <2>2. delivered' # <<>> /\ delivered'[1].pts = pts /\ delivered'[1].data = collectedData
    BY <1>2, <2>1
  <2> QED
    BY <2>1, <2>2
<1>4. ChannelInv => [ComesOut]_vars
  <2> HIDE DEF ComesOut
  <2> QED
    BY <1>3
<1> QED
  BY <1>4, BuilderFollowsTheChannel, PTL DEF WholePesIsDelivered

\* While the channel loses at most 14 packets in a row, what is collected without a flaw is
\* whole, up to the packet to be sent, and so is what is delivered.
LEMMA FlawlessStep ==
  ASSUME MaxBurst <= 14, ChannelInv, FlawlessIsChained, DeliveredWhole, [Next]_vars
  PROVE  FlawlessIsChained' /\ DeliveredWhole'
<1> USE DEF ChannelInv
<1>1. collectedData \in Seq(Chunks) /\ Len(collectedData) \in Nat
  BY LenProperties DEF ChannelTypeOK
<1>2. delivered' = <<>> => DeliveredWhole'
  BY DEF DeliveredWhole
<1>3. ASSUME NEW p \in Packets, collectedData' = <<p.chunk>>, Follows(p.chunk, next')
      PROVE  FlawlessIsChained'
  <2>1. Len(collectedData') = 1 /\ collectedData'[1] = p.chunk
    BY <1>3
  <2> QED
    BY <1>3, <2>1 DEF FlawlessIsChained, Chained
<1>4. ASSUME NEW p \in PacketsAt(next), ArriveAs(p)
      PROVE  FlawlessIsChained' /\ DeliveredWhole'
  <2>1. /\ p \in Packets /\ p.cc = next.cc
        /\ p.pusi <=> next.part = 1
        /\ p.disc => p.pusi
        /\ p.chunk.pes = next.pes /\ p.chunk.part = next.part /\ p.chunk.of = next.of
    BY <1>4, PacketAtNext
  <2>2. p.chunk \in Chunks /\ next \in Places /\ Follows(p.chunk, next')
    BY <1>4, <2>1, SendStep DEF ArriveAs, Packets, ChannelTypeOK
  <2>3. /\ AddTsPacket(p)
        /\ tainted' = (collecting' /\ (tainted \/ Flaws(p)) /\ collectedData' # <<p.chunk>>)
        /\ excused' = (tainted \/ Flaws(p))
    BY <1>4 DEF ArriveAs, Taint
  <2>4. ASSUME collecting, ~Flaws(p)
        PROVE  \/ Dropped
               \/ /\ burst = 0 /\ Check(ccChecker, p) = "OK"
                  /\ Extended(p) \/ Started(p)
    <3>1. ccChecker.hasLastCC /\ burst \in 0 .. 14
      BY <2>4, ChannelAssumption DEF CollectsFromAStart, ChannelTypeOK, ChannelAssumption
    <3>2. CASE burst = 0
      <4>1. Check(ccChecker, p) = "OK"
        BY <2>1, <3>2, LossesAreSeen
      <4>2. ~Kept \/ Extended(p) \/ Started(p) \/ (p.pusi /\ ~p.header)
        BY <2>1, <2>3, <2>4, <4>1, Outcomes
      <4> QED
        BY <2>1, <2>3, <2>4, <3>2, <4>1, <4>2, Outcomes DEF Flaws
    <3>3. CASE burst \in 1 .. 14
      <4>1. ~p.disc
        BY <2>1, <2>4, <3>3 DEF Flaws
      <4> QED
        BY <2>1, <2>3, <3>1, <3>3, <4>1, LossesAreSeen, Outcomes
    <3> QED
      BY <3>1, <3>2, <3>3
  <2>5. ASSUME collecting, ~tainted, burst = 0
        PROVE  Chained(collectedData) /\ Follows(collectedData[Len(collectedData)], next)
    BY <2>5 DEF FlawlessIsChained
  <2>6. ASSUME collecting
        PROVE  collectedData[Len(collectedData)] \in Chunks /\ Len(collectedData) \in Nat \ {0}
    <3>1. collectedData # <<>>
      BY <2>6 DEF CollectsFromAStart
    <3>2. Len(collectedData) \in 1 .. Len(collectedData)
      BY <1>1, <3>1, EmptySeq
    <3> QED
      BY <1>1, <3>2, ElementOfSeq
  <2>7. FlawlessIsChained'
    <3>1. SUFFICES ASSUME collecting', ~tainted', collectedData' # <<p.chunk>>
                   PROVE  FlawlessIsChained'
      BY <1>3, <2>1, <2>2 DEF FlawlessIsChained
    <3>2. ~tainted /\ ~Flaws(p)
      BY <2>3, <3>1
    <3>3. collecting
      <4>1. ~Started(p) /\ ~Dropped
        BY <3>1 DEF Started, Dropped
      <4>2. Kept \/ Extended(p)
        BY <2>1, <2>3, <4>1, Outcomes
      <4> QED
        BY <3>1, <4>2 DEF Kept, Extended
    <3>4. burst = 0 /\ Extended(p)
      BY <2>4, <3>1, <3>2, <3>3 DEF Dropped, Started
    <3>5. Chained(collectedData) /\ Follows(collectedData[Len(collectedData)], next)
      BY <2>5, <3>2, <3>3, <3>4
    <3> DEFINE n == Len(collectedData)
               end == collectedData[n]
    <3>6. n \in Nat \ {0} /\ end \in Chunks
      BY <2>6, <3>3
    <3>7. /\ Len(collectedData') = n + 1 /\ collectedData'[n + 1] = p.chunk
          /\ \A i \in 1 .. n : collectedData'[i] = collectedData[i]
      BY <1>1, <2>2, <3>4, AppendProperties DEF Extended
    <3>8. \/ p.chunk.pes = end.pes /\ p.chunk.part = end.part + 1
          \/ p.chunk.pes = end.pes + 1 /\ end.part = end.of /\ p.chunk.part = 1
      BY <2>1, <3>5 DEF Follows
    <3> HIDE DEF n
    <3>9. Chained(collectedData')
      <4> SUFFICES ASSUME NEW i \in 1 .. n
                   PROVE  \/ /\ collectedData'[i + 1].pes = collectedData'[i].pes
                             /\ collectedData'[i + 1].part = collectedData'[i].part + 1
                          \/ /\ collectedData'[i + 1].pes = collectedData'[i].pes + 1
                             /\ collectedData'[i].part = collectedData'[i].of
                             /\ collectedData'[i + 1].part = 1
        BY <3>6, <3>7 DEF Chained
      <4>1. CASE i = n
        BY <3>6, <3>7, <3>8, <4>1
      <4>2. CASE i \in 1 .. n - 1
        <5>1. i \in 1 .. n /\ i + 1 \in 1 .. n
          BY <3>6, <4>2
        <5> QED
          BY <3>5, <3>7, <4>2, <5>1 DEF Chained, n
      <4> QED
        BY <3>6, <4>1, <4>2
    <3> QED
      BY <2>2, <3>7, <3>9 DEF FlawlessIsChained
  <2>8. DeliveredWhole'
    <3>1. SUFFICES ASSUME delivered' # <<>>, ~excused'
                   PROVE  DeliveredWhole'
      BY <1>2 DEF DeliveredWhole
    <3>2. /\ Started(p) /\ HasBytes
          /\ delivered' = <<[pts |-> pts, data |-> collectedData]>>
      BY <2>1, <2>3, <3>1, DeliveredByAPacket
    <3>3. collecting /\ ~tainted /\ ~Flaws(p)
      BY <2>3, <3>1, <3>2 DEF HasBytes
    <3>4. burst = 0 /\ next.part = 1
      BY <2>1, <2>4, <3>2, <3>3 DEF Dropped, Started
    <3>5. Chained(collectedData) /\ Follows(collectedData[Len(collectedData)], next)
      BY <2>5, <3>3, <3>4
    <3> DEFINE end == collectedData[Len(collectedData)]
    <3>6. end \in Chunks
      BY <2>6, <3>3
    <3> HIDE DEF end
    <3>7. end.part = end.of
      BY <3>4, <3>5, <3>6 DEF Follows, Chunks, end
    <3>8. collectedData[1].part = 1
      BY <3>3 DEF CollectsFromAStart
    <3>9. Whole(collectedData)
      BY <3>5, <3>7, <3>8 DEF Whole, Chained, end
    <3> QED
      BY <3>2, <3>9 DEF DeliveredWhole
  <2> QED
    BY <2>7, <2>8
<1>5. CASE Repeat
  <2> DEFINE p == last[1]
  <2>1. /\ p \in Packets /\ burst = 0
        /\ ccChecker.hasLastCC /\ p.cc = ccChecker.lastCC
        /\ Follows(p.chunk, next)
    BY <1>5 DEF Repeat, LastIsLast
  <2>2. /\ AddTsPacket(p) /\ UNCHANGED <<next, burst>>
        /\ tainted' = (collecting' /\ (tainted \/ p.disc) /\ collectedData' # <<p.chunk>>)
        /\ excused' = (tainted \/ p.disc)
    BY <1>5 DEF Repeat, Taint
  <2> HIDE DEF p
  <2>3. CASE p.disc
    <3>1. collecting' /\ ~tainted' => collectedData' = <<p.chunk>>
      BY <2>2, <2>3
    <3>2. FlawlessIsChained'
      BY <1>3, <2>1, <2>2, <3>1 DEF FlawlessIsChained
    <3> QED
      BY <2>2, <2>3, <3>2 DEF DeliveredWhole
  <2>4. CASE ~p.disc
    <3>1. Kept
      BY <2>1, <2>2, <2>4, RepetitionsAreSeen, Outcomes
    <3>2. CASE collectedData' = <<p.chunk>>
      BY <1>2, <1>3, <2>1, <2>2, <3>1, <3>2 DEF Kept
    <3>3. CASE collectedData' # <<p.chunk>>
      BY <1>2, <2>2, <2>4, <3>1, <3>3 DEF Kept, FlawlessIsChained
    <3> QED
      BY <3>2, <3>3
  <2> QED
    BY <2>3, <2>4
<1>6. CASE Lose
  <2>1. burst' # 0 /\ delivered' = <<>> /\ UNCHANGED <<collecting, collectedData, tainted>>
    BY <1>6, ChannelAssumption DEF Lose, ChannelTypeOK, ChannelAssumption
  <2> QED
    BY <1>2, <2>1 DEF FlawlessIsChained
<1>7. CASE UNCHANGED vars
  BY <1>7 DEF vars, builderVars, channelVars, FlawlessIsChained, DeliveredWhole
<1> QED
  BY <1>4, <1>5, <1>6, <1>7 DEF Next, Arrive

\* No access unit with a hole, a foreign part or a repeated part is delivered as long as no
\* more than 14 packets are lost in a row, a flag or an unreadable header does not hide the
\* loss, for PES packets of every size and any number of losses (addTsPacket:).
THEOREM DeliveredUnitsAreWhole ==
  ASSUME MaxBurst <= 14
  PROVE  Spec => []DeliveredWhole
<1>1. Init => FlawlessIsChained /\ DeliveredWhole
  BY DEF Init, BuilderInit, FlawlessIsChained, DeliveredWhole
<1>2. ChannelInv /\ FlawlessIsChained /\ DeliveredWhole /\ [Next]_vars
        => (FlawlessIsChained /\ DeliveredWhole)'
  BY FlawlessStep
<1> QED
  BY <1>1, <1>2, BuilderFollowsTheChannel, PTL DEF Spec

=============================================================================
