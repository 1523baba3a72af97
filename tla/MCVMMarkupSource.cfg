SPECIFICATION Spec
CONSTANTS
    TextCount <- SourceTexts
    NumberKeys <- SourceNumberKeys
    Categories <- SourceCategories
    Catalogs <- MCMarkupSource
    Requests <- MCRequests
    HostValues <- MCHostValues
    EmptyText <- MCEmptyText
INVARIANT MarkupMeansItsSource
