SPECIFICATION MFairSpec
CONSTANTS
    SettingsSpace <- VbrSettings
    AuPids <- Pids
    Times = {1, 3}
    AuPacketCounts = {6}
    ReentrantEnqueue = TRUE
    StartClocks = {0}
    MaxClock = 2
    MaxAccessUnits = 3
INVARIANTS
    TypeOK
    QueueInDtsOrder
PROPERTIES
    ContinuousOutput
    WholeUnits
    TickFlushes
    EveryUnitLeaves
