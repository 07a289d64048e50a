\* L1 settings of nested routes.
CONSTANTS
  Sites <- SomeSites
  Uris <- SpelledUris
  Media <- AnyMedia
  Rounds = 2
SPECIFICATION Spec
INVARIANT LoadedSettingsValid
CHECK_DEADLOCK FALSE
