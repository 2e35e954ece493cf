SPECIFICATION Spec
CONSTANTS
    Tables <- MCTables
    Filters <- MCFilters
    CustomPids <- MCCustomPids
    MaxSections = 2
INVARIANTS
    TypeOK
    BuildersAreListed
    AnalyzerSeesTheRegistry
PROPERTIES
    OtherProgramsKeepTheirStreams
    OfferedStreamsAreDemuxed
    TablesAreAnalyzedOnce
