SPECIFICATION Spec
CONSTANTS
    NumberKeys <- MCNumberKeys
    Categories <- MCCategories
    Build <- BuildTree
    TextCount = 0
    Tables <- MCTables
    Outcomes <- MCOutcomes
INVARIANTS
    BestVariantIsSelected
    EachVariantOnce
CHECK_DEADLOCK FALSE
