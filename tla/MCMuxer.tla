------------------------------ MODULE MCMuxer ------------------------------
(* Instances of MuxedStream for TLC. *)
EXTENDS MuxedStream

Video == 256
Audio == 257
Pmt == 4096
Clock == 258

Base == [pmtPid |-> Pmt, pcrPid |-> Video, videoPid |-> Video, audioPid |-> Audio,
         cbr |-> TRUE, psiInterval |-> 5, pcrInterval |-> 3, maxNumQueuedAccessUnits |-> 1]

\* Shared and dedicated PCR PID; a queue that overflows and one that never does.
CbrSettings ==
    {[Base EXCEPT !.pcrPid = pid, !.psiInterval = psi] :
        pid \in {Video, Clock}, psi \in {5, 6}}

VbrSettings ==
    {[Base EXCEPT !.cbr = FALSE, !.pcrPid = s[1], !.maxNumQueuedAccessUnits = s[2],
                  !.psiInterval = 2, !.pcrInterval = 1] : s \in {<<Video, 1>>, <<Clock, 0>>}}

Pids == {Video, Audio}

=============================================================================
