SPECIFICATION SearchSpec
CONSTANTS
  Meeting = {m1, m2}
  MaxDeliveries = 2
  Silent = {}
  MaxRuns = 1
  MaxFaults = 0
INVARIANT ForgetsOnlyVanished
CHECK_DEADLOCK FALSE
