SPECIFICATION FairSpec
CONSTANTS
  MaxEpoch = 2
  Procs = {p1, p2}
  Timers = {p1}
  Requests = {r1, r2}
  Update = {1, 2, 3, 4, 5, 6, 7, 8}
  UpdateBytes = 2048
  MaxFaults = 1
  Environment = {"crash", "error", "lostReply", "manual", "staleIndex"}
  None = None
CHECK_DEADLOCK FALSE
INVARIANTS
  TypeOK
  SkippedIsRecorded
  RecordedFromItsModel
PROPERTY
  GetsRecorded
