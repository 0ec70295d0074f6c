SPECIFICATION Spec
CONSTANTS
  Reports = {r1}
  NoReport = NoReport
  HasTypes = TRUE
  Manual = TRUE
  Relogin = FALSE
  Patient = FALSE
  MaxInFlight = 2
INVARIANTS
  FlagsOfActiveWindow
  OpenWindowHasReport
  ResponseAtHand
  AgreesWithServer
CHECK_DEADLOCK FALSE
