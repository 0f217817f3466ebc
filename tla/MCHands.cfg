SPECIFICATION Spec
CONSTANTS
  Profile <- MCProfile
  AllowAll <- MCAllowAll
  Settings <- MCSettings
  WireCalls <- InPlace
  PeerCalls <- InPlace
  MaxPending = 2
  None = None
INVARIANTS
  ActingStopsOutsideAwake
  NothingDeniedRuns
  InstallsAskOperator
  ConfirmRunsOnce
  TurnRunsAsItsOwner
PROPERTIES
  EffectAnswersOwnCall
  ReplacedOnlyByInstall
CHECK_DEADLOCK FALSE
