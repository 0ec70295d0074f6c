SPECIFICATION FairSpec
CONSTANTS
  Others = {a1}
  Me = me
  UntilWarning = 1
  UntilAlogout = 2
  MaxInFlight = 2
INVARIANTS
  OnlyOnServersAlogin
  NobodyMissing
  ListedAtMostTwice
PROPERTIES
  AwayLeaves
  LoginNoticed
CHECK_DEADLOCK FALSE
