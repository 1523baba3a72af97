SPECIFICATION Spec
CONSTANTS
    TextCount <- SourceTexts
    NumberKeys <- SourceNumberKeys
    Categories <- SourceCategories
    Catalogs <- MCUntidy
    Requests <- MCBudgets
    HostValues <- MCHostValues
    EmptyText <- MCEmptyText
INVARIANTS
    TypeOK
    FallbackOnlyAtConsumer
    DirectOutputIsConsumed
PROPERTY DiagnosticsAreObservers
