CONSTANTS
  s1 = s1
  Boot = Boot
  Searchers = {s1}
  Paths = {1, 2}
  Manifests <- MCManifests
  Texts = {1, 2}
  NoText = NoText
  MaxSearches = 1
  MaxEdits = 1
  MaxRestarts = 1
  MaxFaults = 1
SPECIFICATION Spec
INVARIANT StoreMatchesCache
INVARIANT UploadsAreDeleted
PROPERTY SearchesEnd
CHECK_DEADLOCK FALSE
