SPECIFICATION Spec
CONSTANTS
  Profile <- MCProfile
  AllowAll <- MCAllowAll
  Settings <- MCSettings
  WireCalls <- InPlace
  PeerCalls <- AllCalls
  MaxPending = 1
  None = None
INVARIANTS
  AllowAllStaysWithOwner
CHECK_DEADLOCK FALSE
