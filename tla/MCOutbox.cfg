SPECIFICATION FairSpec
CONSTANTS
  Pushers <- TwoThreads
  Pullers <- TwoPulls
  Capacity = 2
  MaxClock = 2
  MaxItems = 3
  MaxSlips = 1
  Unreliable = TRUE
INVARIANTS
  NothingPassedOver
  ToldRarely
PROPERTIES
  EveryItemNoticed
VIEW WhatMatters
