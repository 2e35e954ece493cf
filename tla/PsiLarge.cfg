SPECIFICATION Spec
CONSTANTS
    PayloadLength = 16
    MaxSectionLength = 30
    Tables <- SomeTables
    MaxBurst = 0
    MaxFaults = 0
    MaxSections = 2
INVARIANTS
    LargeTableIsBuilt
CHECK_DEADLOCK FALSE
