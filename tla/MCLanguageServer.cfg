CONSTANTS
  None = None
  Uris <- MCUris
  KindOf <- MCKindOf
  Contents <- MCContents
  Places <- MCPlaces
  Manifests <- MCManifests
  MaxSent = 3
SPECIFICATION Spec
INVARIANT AnalysisIsOfTheText
PROPERTIES PublishedIsForTheText DefinitionsAreDeclared ReferencesAreTheUses RequestsAreAnswered
CHECK_DEADLOCK FALSE
