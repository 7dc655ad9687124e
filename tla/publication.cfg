SPECIFICATION Spec
CONSTANTS
  Names = {"body", "receipt", "index"}
  Publishers = {"snapshot", "rival", "single"}
  Contents <- MCContents
  NoOne = NoOne
  Another = Another
CHECK_DEADLOCK FALSE
INVARIANTS
  MarkerIsComplete
  NothingLeftBehind
PROPERTIES
  RivalsSurvive
