--------------------------- MODULE PacketRouting ---------------------------
(***************************************************************************)
(* Where TSDemuxer sends a packet, by its PID, and which elementary        *)
(* streams it processes.  Constant-level: shared by the demuxer and by the *)
(* stream that the TR 101 290 analyzer sees.                               *)
(*                                                                         *)
(* pat is <<>> for nil, or <<programmes>>, the PMT PID of every program.   *)
(***************************************************************************)
EXTENDS TSConstants, Functions

Modes == {"DVB", "ATSC"}

\* The PID that carries the tables of the broadcast standard.
ServicePid(mode) == IF mode = "DVB" THEN PID_DVB_SDT_BAT_ST ELSE PID_ATSC_PSIP

\* Received, but not parsed (yet), or reserved by the other standard.
IgnoredPids(mode) ==
    ({PID_CAT, PID_TSDT, PID_IPMP, PID_ASI, PID_NULL_PACKET}
        \cup {pid \in reservedPids : isDvbReservedPid(pid) \/ isAtscReservedPid(pid)})
        \ {ServicePid(mode)}

programNumbersFromPid(pat, pid) ==
    IF pat = <<>> THEN {} ELSE {n \in DOMAIN pat[1] : pat[1][n] = pid}

\* "Table", "Ignore" or "Pes".  When programs share a PMT PID the first of them in the order
\* of a hash table decides.
RoutesOf(mode, pat, pid) ==
    IF pid \in {PID_PAT, ServicePid(mode)} THEN {"Table"}
    ELSE IF pid \in IgnoredPids(mode) THEN {"Ignore"}
    ELSE IF programNumbersFromPid(pat, pid) # {}
         THEN {IF n = PROGRAM_NUMBER_NETWORK_INFO THEN "Ignore" ELSE "Table" :
                  n \in programNumbersFromPid(pat, pid)}
    ELSE {IF isReservedPid(pid) THEN "Ignore" ELSE "Pes"}

\* A filter that is nil or empty, both {} here, lets every stream pass.
shouldProcessEsPid(esPidFilter, pid) == esPidFilter = {} \/ pid \in esPidFilter

\* The PMT of every program of the PAT, by its PID; of the programs that share a PID, any.
PmtMapsByPid(pat, pmts) ==
    LET known == IF pat = <<>> THEN {} ELSE DOMAIN pat[1] \cap DOMAIN pmts
        pids  == {pat[1][n] : n \in known}
    IN  {[p \in pids |-> pmts[of[p]]] :
            of \in {f \in [pids -> known] : \A p \in pids : pat[1][f[p]] = p}}

=============================================================================
