SPECIFICATION Spec
CONSTANTS
    Tables <- SomeTables
    DamagedBytes <- SomeBytes
    MaxForeign = 12
INVARIANTS
    TypeOK
    ReadAsWritten
    EntriesBeforeTheDamageSurvive
    DamageStaysInItsEntry
    CodecSurvivesLaterDamage
PROPERTIES
    ReadersGoForward
    ParsingEnds
