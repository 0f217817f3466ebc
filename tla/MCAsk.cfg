CONSTANTS
  Replies <- MCReplies
  Deltas = {1, 3}
  MinSentence = 2
  MinTotal = 3
  MaxRounds = 2
  MaxAsks = 1
  MaxCancels = 1
  MaxLines = 2
  NoPlayer = NoPlayer
SPECIFICATION AskSpec
INVARIANTS
  SaidAsStreamed
  QueueIsDropped
PROPERTIES
  CancelEndsRounds
  AskEnds
CHECK_DEADLOCK FALSE
