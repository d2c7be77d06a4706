SPECIFICATION Spec
CONSTANTS
  b1 = b1
  s1 = s1
  p1 = p1
  Jobs = {j1}
  Worker = {b1, s1, p1}
  Serves <- OneOfEach
  Disposing = {}
  MaxDeferrals = 0
  QueueCap = 1
  StoreFaults = FALSE
  MaxAttempts = 2
  DeferCap = 1
  MaxTimers = 1
  MaxRestarts = 0
INVARIANTS
  SealsItsOwnMeeting
