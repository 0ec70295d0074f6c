SPECIFICATION MCSpec
CONSTANTS
  Keys = {k1, k2}
  Fresh = {k2}
  Values = {0, 1}
  Default = 0
  TypeCount = 2
  Together = {{2}, {1, 2}}
  MaxClock = 2
  MaxCount = 2
  None = none
  Cut = cut
  FontCount = 2
INVARIANTS
  SettingsKept
  StatisticsKept
  RenderHasFonts
  UpdateInOrder
