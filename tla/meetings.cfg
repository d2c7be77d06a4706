SPECIFICATION MeetingsSpec
CONSTANTS
  Request = {e1, e2}
  MaxPublish = 2
  MaxCarry = 2
  MaxOutside = 1
  MaxSnapshots = 3
  Person = {p1, p2}
  MaxVersions = 4
  MaxRevisions = 2
  MaxStageFaults = 1
  Meeting = {m1, m2}
  MaxDeliveries = 2
  Silent = {2}
  MaxRuns = 2
  MaxFaults = 1
  Starter = s1
  Guest = {g1}
  MaxPublishes = 2
  MaxReshares = 1
  MaxVanishes = 1
  MaxEvents = 3
  TagId = {1, 2}
  Label = {1, 2}
  Target = {1, 2}
  Color = {1}
  MaxBatches = 2
  builder = builder
  sealer = sealer
  deliverer = deliverer
  Jobs = {m1}
  Worker = {builder, sealer, deliverer}
  Serves <- PoolServes
  Disposing = {}
  MaxDeferrals = 0
  QueueCap = 1
  StoreFaults = FALSE
  MaxAttempts = 2
  DeferCap = 1
  MaxTimers = 0
  MaxRestarts = 0
INVARIANTS
  MarksAreKept
  CorrectionsAreKept
  BackfillConverges
  SharesAreAccounted
  SpeechModelIsKept
  InstallIsRun
  OpsMeanWhatTheySay
  WorkIsCarried
SYMMETRY EditSymmetry
CHECK_DEADLOCK FALSE
