----------------------------- MODULE ByteStream -----------------------------
(***************************************************************************)
(* What reading a section promises, of all its bytes only how many were    *)
(* read: a part of it is read forward and never past its end; bytes that   *)
(* were set aside, the descriptors of an entry, are bytes just passed, and *)
(* are read forward and never past their own end; once reading has failed, *)
(* nothing moves.  Offsets and sizes are in bits.                          *)
(***************************************************************************)
EXTENDS Integers

VARIABLES
    part,                   \* how many parts of the section were opened
    size, pos,              \* of the part that is read
    innerSize, innerPos,    \* of what was set aside
    failed

vars == <<part, size, pos, innerSize, innerPos, failed>>

Init == part = 0 /\ size = 0 /\ pos = 0 /\ innerSize = 0 /\ innerPos = 0 /\ failed = FALSE

Open ==
    /\ part' = part + 1
    /\ size' \in Nat /\ pos' \in 0 .. size'
    /\ innerSize' = 0 /\ innerPos' = 0 /\ failed' \in BOOLEAN

\* What was set aside before is done with.
Read ==
    /\ ~failed
    /\ pos' \in pos + 1 .. size
    /\ innerSize' \in 0 .. pos' - pos - 1 /\ innerPos' = 0
    /\ UNCHANGED <<part, size, failed>>

ReadInner ==
    /\ innerPos' \in innerPos + 1 .. innerSize
    /\ UNCHANGED <<part, size, pos, innerSize, failed>>

Fail ==
    /\ ~failed /\ failed' = TRUE
    /\ pos' \in pos .. size
    /\ innerSize' = 0 /\ innerPos' = 0
    /\ UNCHANGED <<part, size>>

Next == Open \/ Read \/ ReadInner \/ Fail

Spec == Init /\ [][Next]_vars

=============================================================================
