----------------------------- MODULE MCAnalyzer -----------------------------
(***************************************************************************)
(* The filter is off, or lets only some other stream pass.                 *)
(* A behaviour is about the intervals, and time passes, or about the       *)
(* counters, and packets are lost, copied and corrupted.  The exception    *)
(* `resumed' of CcErrorsAreReal takes three faults to meet: the budgets    *)
(* have two, and CountedErrorsAreReal is about any number.                 *)
(***************************************************************************)
EXTENDS AnalyzedStream

MCFilters == {{}, {49}}

MCBudgets == {[delays |-> {1, 6}, packets |-> 4, faults |-> 0, changes |-> 2],
              [delays |-> {0}, packets |-> 4, faults |-> 2, changes |-> 0],
              [delays |-> {0}, packets |-> 4, faults |-> 1, changes |-> 2]}
=============================================================================
