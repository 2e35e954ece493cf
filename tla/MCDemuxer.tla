----------------------------- MODULE MCDemuxer -----------------------------
(***************************************************************************)
(* Two programs that may share a stream or a PMT PID, come and go, and     *)
(* change the type of a stream.                                            *)
(***************************************************************************)
EXTENDS TSDemuxer, TLC

\* The PMT PIDs are 32 and 33, the streams have PIDs 48 and 49.
MCCustomPids == {32, 33, 48, 49}

Pat(programmes) == [kind |-> "PAT", programmes |-> programmes]
Pmt(program, version, streams) ==
    [kind |-> "PMT", program |-> program, version |-> version, streams |-> streams]

MCPats == {Pat(<<>>), Pat(<<(1 :> 32)>>), Pat(<<(1 :> 32) @@ (2 :> 33)>>),
           Pat(<<(0 :> 33) @@ (1 :> 32) @@ (2 :> 32)>>)}
MCPmts == {Pmt(1, 0, 48 :> 27), Pmt(1, 1, 48 :> 36), Pmt(1, 1, (48 :> 27) @@ (49 :> 15)),
           Pmt(2, 0, 48 :> 27), Pmt(2, 1, 49 :> 15)}
MCTables == MCPats \cup MCPmts \cup {[kind |-> "SDT"], [kind |-> "VCT"], [kind |-> "Other"]}

MCFilters == {{}, {49}}
=============================================================================
