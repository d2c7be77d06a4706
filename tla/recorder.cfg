SPECIFICATION Spec
CONSTANTS
  Request = {r1, r2}
  ResumeAttempts = 2
  EventCap = 1
  MaxDials = 2
  Session = {c1, c2}
  MaxPeers = 3
  MaxRebuilds = 1
  Track = {t1}
  MaxStreams = 2
  MaxRecords = 2
  Process = {i1, i2}
  Size = 2
  MaxTries = 2
  MaxKills = 2
  MaxChanges = 2
  i1 = i1
  i2 = i2
  MaxOffers = 3
  MaxCandidates = 2
  MaxRetransmits = 2
  FreshSids = TRUE
INVARIANTS
  SignalsFollowAnswer
  ConnectionIsAccounted
  OpenPeersAreOwned
  CaptureIsWhole
  InstalledIsGenuine
PROPERTIES
  EmptyRoomStops
CHECK_DEADLOCK FALSE
