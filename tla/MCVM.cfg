SPECIFICATION FairSpec
CONSTANTS
    TextCount <- SourceTexts
    NumberKeys <- SourceNumberKeys
    Categories <- SourceCategories
    Catalogs <- MCCatalogs
    Requests <- MCRequests
    HostValues <- MCHostValues
    EmptyText <- MCEmptyText
INVARIANTS
    SkipsOnlyItsOwnOperand
    BadSelectorTakesDefault
    CompiledAlwaysFormats
    MeansItsMessage
    MeansItsSource
PROPERTY FormatReturns
