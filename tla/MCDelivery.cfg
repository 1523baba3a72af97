SPECIFICATION Spec
CONSTANTS
    None = None
    KeyTexts <- MCKeyTexts
    LiteralDomain <- MCLiteralDomain
    Known <- MCKnown
    LiteralDeduplication = "enabled"
    Manifests <- MCManifests
    Inputs <- MCInputs
    Resources <- MCResources
    Structured <- MCStructured
    MaxOptions = 1
    MaxAdded = 3
    Chain <- MCChain
    HostLocales <- MCHostLocales
    Ids <- MCIds
    Given <- MCGiven
    Damages <- MCDamages
    DamagedLength = 2
    MaxShipped = 2
INVARIANTS
    CompiledIsPermitted
    ContextIsTheFaultys
    LoadedTablesAreSound
    ShownIsTheMostSpecific
CHECK_DEADLOCK FALSE
