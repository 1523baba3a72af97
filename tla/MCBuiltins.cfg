CONSTANTS
  None = None
  MaxInt = 127
  MaxWide = 32767
  MaxExact = 100
  CanBuild <- MCCanBuild
  Supports <- MCSupports
  Catalogs <- MCCatalogs
SPECIFICATION Spec
INVARIANTS HistoryIndependent ShownAlikeButDigits SelectionSeesWhatIsShown
  SelectOfCallIsProjection ShownIsRounded OffsetIsExact
