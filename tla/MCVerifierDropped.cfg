SPECIFICATION PathSpec
CONSTANTS
    TextCount <- SourceTexts
    NumberKeys <- SourceNumberKeys
    Categories <- SourceCategories
    Catalogs <- MCDropped
    MaxSelect = 2
    MaxCycle = 8
INVARIANT AcceptedPathsAreSafe
CHECK_DEADLOCK FALSE
