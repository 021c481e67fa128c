SPECIFICATION Spec
CONSTANTS
  MaxEpoch = 3
  Threshold = 1
  Submissions = {s1, s2}
  Operators = {o1}
  Invocations = {i1}
  Workers = {w1, w2}
  MaxRetryAttempts = 1
  RunTaskAttempts = 2
  MaxFaults = 2
  Environment = {"crash", "lostReply", "launchError", "manualRun", "bootstrap",
                 "preSeed", "early", "staleIndex", "allBad"}
  NoSub = NoSub
CHECK_DEADLOCK FALSE
SYMMETRY MCSymmetry
INVARIANTS
  TypeOK
  QuorumBeforeAggregation
