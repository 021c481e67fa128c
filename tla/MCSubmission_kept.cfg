SPECIFICATION Spec
CONSTANTS
  MaxEpoch = 2
  Procs = {p1}
  Timers = {p1}
  Requests = {r1}
  Update = {1, 2, 3, 4, 5, 6, 7, 8}
  UpdateBytes = 2048
  MaxFaults = 1
  Environment = {"lostReply"}
  None = None
CHECK_DEADLOCK FALSE
INVARIANT
  RecordedIsKept
