SPECIFICATION Spec
CONSTANTS
  Slots <- TwoSlots
  Scan <- DailyScan
  RunOn = "auto"
  Grace = 1
  LeaseTTL = 2
  PresenceGrace = 1
  Faults <- AllFaults
  MaxNow = 5
  None = None
INVARIANTS
  LeaseKeepsApart
  FiresWhenDue
VIEW WhatMatters
CHECK_DEADLOCK FALSE
