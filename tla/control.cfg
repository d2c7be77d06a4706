SPECIFICATION Spec
CONSTANTS
  Stopper = {h1, h2}
  StoreFaults = TRUE
  Recording = {r1, r2, r3}
  Builder = {b1, b2, m}
  Installer = {m}
  MaxRecordWorkers = 2
  NoBuilder = NoBuilder
  MaxPublications = 3
  MaxAttempts = 3
  MaxRestarts = 2
  MaxFaults = 2
INVARIANTS
  StopIsSafe
  PriorityIsKept
  ArchiveIsWhole
  CanonicalCopySurvives
PROPERTIES
  StopsEnd
  BuildsAreServed
  ArchiveSettles
  MediaIsDisposed
CHECK_DEADLOCK FALSE
