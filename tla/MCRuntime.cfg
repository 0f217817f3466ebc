SPECIFICATION Spec
CONSTANTS
  PostWake = 1
  PostSleep = 1
  ConfirmWindow = 1
  FuzzyCooldown = 2
  MaxNow = 3
  None = None
INVARIANTS
  AwakeHoldsItAll
  QuestionFitsState
  OneListener
PROPERTIES
  ClipsLeaveAwake
  YesInTime
  ChangesAreTold
VIEW WithoutOut
CHECK_DEADLOCK FALSE
