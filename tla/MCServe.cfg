CONSTANTS
  hud = hud
  watcher = watcher
  Clients = {hud, watcher}
  Polite = {hud}
  Sends <- MCSends
  QueueCap = 1
  SockCap = 1
  MaxChanges = 2
SPECIFICATION Spec
INVARIANTS
  EventsReach
PROPERTIES
  NobodyWaits
  ThinkingEnds
  StopEnds
CHECK_DEADLOCK FALSE
