SPECIFICATION Spec
CONSTANTS
  Shapes <- SomeShapes
  MaxTime = 4
  Lateness = 1
  Memory = 1
  MaxFaults = 1
  PowerAge = 1
  FixAge = 1
  FixGap = 2
  StopAfter = 1
  AnchorAge = 3
INVARIANTS TripsInv
CHECK_DEADLOCK FALSE
