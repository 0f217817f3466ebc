CONSTANTS
  Members = {sally, tom}
  Texts = {hello, yes}
  Recheck = TRUE
  MaxPosts = 1
  MaxClears = 1
  MaxGiveUps = 1
  NoPlayer = NoPlayer
  sally = sally
  tom = tom
  hello = hello
  yes = yes
SPECIFICATION Spec
VIEW WhatMatters
INVARIANTS
  EveryClipIsDriven
  StaleVoiceDies
  HeardAsLogged
PROPERTY RoomDoesNotStall
CHECK_DEADLOCK FALSE
