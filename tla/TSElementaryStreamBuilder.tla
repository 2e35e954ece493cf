--------------------- MODULE TSElementaryStreamBuilder ---------------------
(***************************************************************************)
(* TSElementaryStreamBuilder: the demuxer's half of one elementary stream. *)
(* It is fed the transport packets of its PID and collects the payload of  *)
(* PES packets into access units; a unit is delivered when the next one    *)
(* starts.                                                                 *)
(*                                                                         *)
(* A packet says what the code reads of it: the fields of a continuity     *)
(* check, and                                                              *)
(*   pusi    a PES packet starts here                                      *)
(*   header  its PES header can be parsed (TSPesHeader.parseFromPacket)    *)
(*   pts     its presentation time, or NoTime                              *)
(*   chunk   its payload: the PES packet, which part of how many, and      *)
(*           whether it is empty, the PES header being all there is        *)
(***************************************************************************)
EXTENDS Integers, Sequences, TSContinuityChecker

VARIABLES
    ccChecker,
    collecting,      \* collectedData is not nil
    collectedData,   \* the chunks that were appended, in order
    pts,             \* kCMTimeInvalid is NoTime
    delivered        \* the unit handed to the delegate in this step, if any

builderVars == <<ccChecker, collecting, collectedData, pts, delivered>>

NoTime == -1

BuilderInit ==
    /\ ccChecker = NewChecker
    /\ collecting = FALSE /\ collectedData = <<>>
    /\ pts = NoTime /\ delivered = <<>>

\* collectedData.length > 0
HasBytes == collecting /\ \E i \in DOMAIN collectedData : ~collectedData[i].empty

Nothing == delivered' = <<>> /\ UNCHANGED <<collecting, collectedData, pts>>

\* Mutant: an empty unit is delivered too.
DeliverAlways == delivered' = <<[pts |-> pts, data |-> collectedData]>>

\* dts and the flags of a unit are those of the PES packet it starts with: its first packet.
Deliver ==
    delivered' = IF HasBytes THEN <<[pts |-> pts, data |-> collectedData]>> ELSE <<>>

\* Mutant: a loss skips a packet but keeps what was collected.
KeepOnGap == Nothing

\* Packets were lost: what was collected goes, and this packet with it.
DiscardOnGap ==
    /\ collecting' = FALSE /\ collectedData' = <<>>
    /\ pts' = NoTime /\ delivered' = <<>>

\* PES packets with one PTS are one unit: fields of a picture, slices.
IsSameAccessUnit(p) == HasBytes /\ pts # NoTime /\ p.pts = pts

\* Mutant: a unit that starts is dropped together with the one it ends.
StartPesAndDrop(p) ==
    IF IsSameAccessUnit(p)
    THEN /\ collectedData' = Append(collectedData, p.chunk)
         /\ delivered' = <<>> /\ UNCHANGED <<collecting, pts>>
    ELSE /\ Deliver
         /\ collecting' = FALSE /\ collectedData' = <<>> /\ pts' = NoTime

StartPes(p) ==
    IF IsSameAccessUnit(p)
    THEN /\ collectedData' = Append(collectedData, p.chunk)
         /\ delivered' = <<>> /\ UNCHANGED <<collecting, pts>>
    ELSE /\ Deliver
         /\ collecting' = TRUE /\ collectedData' = <<p.chunk>> /\ pts' = p.pts

ContinuePes(p) ==
    /\ collectedData' = IF collecting THEN Append(collectedData, p.chunk) ELSE collectedData
    /\ delivered' = <<>> /\ UNCHANGED <<collecting, pts>>

AddTsPacket(p) ==
    LET ccResult == Check(ccChecker, p)
    IN  /\ ccChecker' = Checked(p)
        /\ CASE ccResult = "Gap"               -> DiscardOnGap
             [] ccResult = "Duplicate"         -> Nothing
             [] ccResult = "OK" /\ p.pusi      -> IF p.header THEN StartPes(p) ELSE Nothing
             [] ccResult = "OK" /\ ~p.pusi     -> ContinuePes(p)

=============================================================================
