SPECIFICATION Spec
CONSTANTS
  Run = {q1}
  Slots = 2
  MaxAttempts = 4
  MaxRunRestarts = 2
  MaxJob = 1
  MaxRetries = 2
  MaxRestarts = 2
  MaxSweeps = 2
  Meeting = {m1}
  Import = {}
  MaxOutside = 2
  MaxFaults = 2
  MaxSettings = 3
  MaxRecordings = 2
  MaxTries = 2
  MaxTalkRestarts = 1
INVARIANTS
  OneAttemptAtATime
  ImportNeverLost
  RetirementIsSafe
  CallbacksAreHonest
PROPERTIES
  RunsEnd
  
  RetirementsEnd
  RoomsAreTold
CHECK_DEADLOCK FALSE
