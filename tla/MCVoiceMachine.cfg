SPECIFICATION MachineSpec
CONSTANTS
  PostWake = 2
  PostSleep = 3
  MaxNow = 7
PROPERTIES
  NoPhraseLoop
CHECK_DEADLOCK FALSE
