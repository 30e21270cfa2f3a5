SPECIFICATION FairSpec
CONSTANTS
  Frames <- SomeFrames
  MaxTime = 4
  MaxSessions = 2
  MaxFrames = 3
  MaxCrashes = 2
  MaxFaults = 1
  MergeGap = 1
  ChargeTimeout = 1
  Staleness = 2
  StateLookback = 3
INVARIANTS ChargesInv
PROPERTIES SessionsStand ImplementsTimeline TimelineSettles
CHECK_DEADLOCK FALSE
