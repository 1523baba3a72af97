CONSTANTS
  None = None
  DeclarationPool <- MCDeclarations
  NamePool <- MCNames
  VariantPool <- MCVariants
  SegmentPool <- MCSegments
  Layouts <- MCLayouts
  PlainTexts <- MCPlainTexts
  MaxPieces = 5
  MaxEach = 2
SPECIFICATION Spec
PROPERTIES TreeIsRead VerdictIsTheTrees PlainTextComesBack
CHECK_DEADLOCK FALSE
