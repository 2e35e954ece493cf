------------------------ MODULE TSContinuityChecker ------------------------
(***************************************************************************)
(* TSContinuityChecker: one instance per PID judges the 4-bit continuity   *)
(* counter of every packet of that PID.  Constant-level: the owner of a    *)
(* checker (an elementary stream builder, a section builder) keeps its     *)
(* state in a variable of its own and applies Check and Checked to it.     *)
(*                                                                         *)
(* A packet is any record with at least the fields                         *)
(*   cc       the continuity counter of its header                         *)
(*   payload  the adaptation mode says that it carries a payload           *)
(*   disc     the discontinuity flag of its adaptation field               *)
(***************************************************************************)
EXTENDS Integers

CC == 0 .. 15

NextCC(cc) == (cc + 1) % 16

Checkers == [hasLastCC : BOOLEAN, lastCC : CC]

NewChecker == [hasLastCC |-> FALSE, lastCC |-> 0]

\* The result of checkPacket: a payload packet may repeat the last counter
\* (a retransmission) or follow it; a packet without payload repeats it.
Check(checker, p) ==
    LET judged  == checker.hasLastCC /\ ~p.disc
        follows == p.payload /\ p.cc = NextCC(checker.lastCC)
    IN  IF judged /\ p.cc = checker.lastCC THEN "Duplicate"
        ELSE IF judged /\ ~follows THEN "Gap" ELSE "OK"

\* Whatever the result, the packet becomes the last one seen.
Checked(p) == [hasLastCC |-> TRUE, lastCC |-> p.cc]

=============================================================================
