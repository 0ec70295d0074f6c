SPECIFICATION Spec
CONSTANTS
  Others = {a1}
  Me = me
  UntilWarning = 1
  UntilAlogout = 2
  MaxInFlight = 2
INVARIANT OnlyOnline
CHECK_DEADLOCK FALSE
