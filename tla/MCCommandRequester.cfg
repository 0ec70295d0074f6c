SPECIFICATION Spec
CONSTANTS
  a1 = a1
  a2 = a2
  a3 = a3
  slap = slap
  vspawn = vspawn
  ban = ban
  Admins = {a1, a2, a3}
  Commands = {slap, ban}
  None = None
  TypeOf <- MCTypeOf
  CanUse <- MCCanUse
  CheckLevel = FALSE
  Patient = TRUE
  MaxInFlight = 2
INVARIANTS
  AsksOnlyRefused
  TakenIsWithdrawn
  AnnouncedIsKept
CHECK_DEADLOCK FALSE
