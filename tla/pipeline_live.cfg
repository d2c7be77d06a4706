SPECIFICATION FairSpec
CONSTANTS
  b1 = b1
  s1 = s1
  p1 = p1
  Jobs = {j1}
  Worker = {b1, s1, p1}
  Serves <- OneOfEach
  Disposing = {}
  MaxDeferrals = 1
  QueueCap = 1
  StoreFaults = FALSE
  MaxAttempts = 1
  DeferCap = 2
  MaxTimers = 1
  MaxRestarts = 1
INVARIANTS
  WorkIsCarried
PROPERTIES
  Settles
