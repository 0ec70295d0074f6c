SPECIFICATION FairSpec
CONSTANTS
  Reports = {r1}
  NoReport = NoReport
  HasTypes = FALSE
  Manual = FALSE
  Relogin = TRUE
  Patient = TRUE
  MaxInFlight = 2
INVARIANT ForgottenWhenClosed
PROPERTIES
  ResetEnds
  SearchEnds
CHECK_DEADLOCK FALSE
