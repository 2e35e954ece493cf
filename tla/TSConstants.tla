---------------------------- MODULE TSConstants ----------------------------
(***************************************************************************)
(* The packet identifiers of Sources/TSMuxDemux/TSConstants.m that the     *)
(* muxer, the demuxer and the TR 101 290 analyzer branch on, and TSPidUtil. *)
(***************************************************************************)
EXTENDS Integers

PID_PAT == 0
PID_CAT == 1
PID_TSDT == 2
PID_IPMP == 3
PID_ASI == 4
PID_OTHER_START_INDEX == 16     \* 0x10
PID_OTHER_END_INDEX == 8190     \* 0x1FFE
PID_NULL_PACKET == 8191         \* 0x1FFF
PROGRAM_NUMBER_NETWORK_INFO == 0

PID_DVB_NIT_ST == 16            \* 0x10
PID_DVB_SDT_BAT_ST == 17        \* 0x11
PID_DVB_SIT == 31               \* 0x1F
PID_ATSC_PSIP == 8187           \* 0x1FFB

TABLE_ID_PAT == 0
TABLE_ID_PMT == 2
TABLE_ID_DVB_SDT_ACTUAL_TS == 66
TABLE_ID_ATSC_TVCT == 200
TABLE_ID_ATSC_CVCT == 201

\* PAT, CAT, TSDT, IPMP, ASI and the ISO reserved range; the DVB range; ATSC PSIP; null.
reservedPids == (PID_PAT .. 15) \cup (PID_DVB_NIT_ST .. PID_DVB_SIT)
                    \cup {PID_ATSC_PSIP, PID_NULL_PACKET}

isReservedPid(pid) == pid \in reservedPids

isDvbReservedPid(pid) == pid \in PID_DVB_NIT_ST .. PID_DVB_SIT

isAtscReservedPid(pid) == pid = PID_ATSC_PSIP

isCustomPidInvalid(pid) ==
    isReservedPid(pid) \/ pid < PID_OTHER_START_INDEX \/ pid > PID_OTHER_END_INDEX

=============================================================================
