-------------------------- MODULE MCTransportPath --------------------------
EXTENDS TransportPath

Unit(size, stamps, t, pcr, disc, rai) ==
    [size |-> size, stamps |-> stamps, pts |-> IF stamps = 0 THEN NoTime ELSE t,
     flags |-> [pcr |-> pcr, disc |-> disc, rai |-> rai]]

\* PES packets that end around the end of a packet, with and without the 8 bytes of a PCR and
\* the 2 of a flag.
MCUnits ==
    {Unit(length - 9 - 5 * 1, 1, 5, FALSE, FALSE, FALSE) : length \in {14, 15, 182, 183, 184, 185, 367}}
        \cup {Unit(length - 14, 1, 5, TRUE, FALSE, FALSE) : length \in {176, 177, 360}}
        \cup {Unit(length - 19, 2, 7, FALSE, TRUE, FALSE) : length \in {183, 366}}
        \cup {Unit(length - 19, 2, 7, TRUE, FALSE, TRUE) : length \in {19, 177}}
        \cup {Unit(length - 9, 0, 0, FALSE, FALSE, TRUE) : length \in {9, 182, 183}}

MCStreamCounts == {1, 33, 34, 35, 144, 201, 202}

MCBudgets == {[units |-> 3, pmts |-> 0, pcrs |-> 1], [units |-> 1, pmts |-> 2, pcrs |-> 1]}

=============================================================================
