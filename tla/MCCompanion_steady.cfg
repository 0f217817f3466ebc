SPECIFICATION FairSpec
CONSTANTS
  Slots <- TwoSlots
  Scan <- CronScan
  RunOn = "auto"
  Grace = 2
  LeaseTTL = 1
  PresenceGrace = 2
  Faults <- NoFault
  MaxNow = 7
  None = None
INVARIANTS
  FiredOnce
  NoSlotDropped
PROPERTIES
  EverySlotSettles
CHECK_DEADLOCK FALSE
