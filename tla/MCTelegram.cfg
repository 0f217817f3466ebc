SPECIFICATION FairSpec
CONSTANTS
  MaxSent = 2
  MaxTurns = 2
  MaxCrashes = 1
  Suspends = TRUE
INVARIANTS
  RepliesBounded
PROPERTIES
  IsMailbox
