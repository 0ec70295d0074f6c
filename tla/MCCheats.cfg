SPECIFICATION MCSpec
CONSTANTS
  Limits = {1, 2}
  MaxTracers = 4
  Vehicles = {v1, v2}
  Ped = ped
  None = none
INVARIANTS
  CursorKept
  CursorAsked
  GivesBack
  OnlyOnAlogin
  TagsRestored
  TracersLimited
