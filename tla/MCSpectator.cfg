SPECIFICATION Spec
CONSTANTS
  Players = {0, 1}
  Me = 2
  Unassigned = 3
  Drivers = {1}
  MaxInFlight = 2
INVARIANTS
  RightPlayer
  OwnKeysAndShots
  OwnStatistics
  DialogsShown
  CameraFollows
