SPECIFICATION Spec
CONSTANTS
    PayloadLength = 16
    MaxSectionLength = 30
    Tables <- SomeTables
    MaxBurst = 3
    MaxFaults = 2
    MaxSections = 5
INVARIANTS
    TableIsOneVersion
    TableIsBuilt
CHECK_DEADLOCK FALSE
