SPECIFICATION StopFairSpec
CONSTANTS
  Stopper = {h1, h2}
  StoreFaults = TRUE
PROPERTIES
  AcceptedStopEnds
CHECK_DEADLOCK FALSE
