------------------------------ MODULE UnitPipe ------------------------------
(***************************************************************************)
(* What muxing and demuxing one elementary stream promise together: every  *)
(* access unit that goes in comes out, once, in the order they went in,    *)
(* with its time and whole.  Units come out when the next one goes in that *)
(* does not share their time, and come out together; of units without data *)
(* nothing comes out.                                                      *)
(*                                                                         *)
(* A unit is a record with its pts, NoTime if it has none, and its size.   *)
(* What is held and what came out has the number with which it went in.    *)
(***************************************************************************)
EXTENDS Integers, Sequences

CONSTANTS Units, NoTime

VARIABLES
    in,     \* the units that went in
    held,   \* those that went in and are still to come out as one, with their numbers
    out     \* what came out: sequences of numbered units

Entry(unit) == [number |-> Len(in) + 1, unit |-> unit]

HasData(entries) == \E i \in DOMAIN entries : entries[i].unit.size > 0

Init == in = <<>> /\ held = <<>> /\ out = <<>>

Joins(unit) ==
    HasData(held) /\ held[1].unit.pts # NoTime /\ unit.pts = held[1].unit.pts

Accept(unit) ==
    /\ in' = Append(in, unit)
    /\ \/ /\ Joins(unit)
          /\ held' = Append(held, Entry(unit)) /\ UNCHANGED out
       \/ /\ ~Joins(unit)
          /\ held' = <<Entry(unit)>>
          /\ out' = IF HasData(held) THEN Append(out, held) ELSE out

Next == \E unit \in Units : Accept(unit)

Spec == Init /\ [][Next]_<<in, held, out>>

=============================================================================
