SPECIFICATION Spec
CONSTANTS
    Tables <- MCTables
    Filters <- MCFilters
    CustomPids <- MCCustomPids
    MaxSections = 2
PROPERTIES
    WhitelistIsProcessed
