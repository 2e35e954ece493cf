SPECIFICATION MSpec
CONSTANTS
    SettingsSpace <- CbrSettings
    AuPids <- Pids
    Times = {1}
    AuPacketCounts = {1, 3}
    ReentrantEnqueue = FALSE
    StartClocks = {1}
    MaxClock = 10
    MaxAccessUnits = 3
INVARIANTS
    PacedToTarget
PROPERTIES
    ContinuousOutput
    LossIsSignalled
    PcrIsTransportTime
    PcrInTime
    PsiInTime
    PmtVersionTellsStreams
