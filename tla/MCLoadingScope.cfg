SPECIFICATION PathSpec
CONSTANTS
    TextCount <- SourceTexts
    NumberKeys <- SourceNumberKeys
    Categories <- SourceCategories
    Catalogs <- MCScope
    MaxSelect = 3
    MaxCycle = 3
INVARIANT CompiledIsAccepted
CHECK_DEADLOCK FALSE
