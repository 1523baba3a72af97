SPECIFICATION FairPathSpec
CONSTANTS
    TextCount <- SourceTexts
    NumberKeys <- SourceNumberKeys
    Categories <- SourceCategories
    Catalogs <- MCAll
    MaxSelect = 3
    MaxCycle = 8
INVARIANTS
    TypeOK
    CoveredPathsAreSafe
    CoveredPathsNeverRepeat
    RejectionsAreJustified
    AcceptedCoverage
    CompiledIsAccepted
PROPERTY VerificationEnds
CHECK_DEADLOCK FALSE
