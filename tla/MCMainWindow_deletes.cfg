SPECIFICATION MCSpec
CONSTANTS
  Uuids = {1, 2, 3}
  NoUuid = none
  FadeIn = 2
  FadeOut = 4
  SizeT = 16
  SwitchIn = 3
  SwitchOut = 4
  FrameCount = 3
  BinderFrame = 1
  Delays = {1, 3}
  Server = server
  Delay = 2
  MaxCalls = 3
  Texts <- MCTexts
  Said <- MCSaid
INVARIANT DeletesChosen
CHECK_DEADLOCK FALSE
