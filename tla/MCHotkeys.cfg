SPECIFICATION Spec
CONSTANTS
  Pool <- MCPool
  Keys = {1, 2}
  DefaultBind <- MCDefaultBind
  Changeable = {"single"}
INVARIANTS
  HeldWhenCalled
  CapturedByOwner
PROPERTY CalledOnce
