SPECIFICATION Spec
CONSTANTS
  MaxEpoch = 3
  Threshold = 1
  Submissions = {s1, s2}
  Operators = {o1, o2}
  Invocations = {i1, i2}
  Workers = {w1, w2}
  MaxRetryAttempts = 1
  RunTaskAttempts = 2
  MaxFaults = 2
  Environment = {"crash", "launchError", "bootstrap", "preSeed", "early", "staleIndex"}
  NoSub = NoSub
CHECK_DEADLOCK FALSE
SYMMETRY MCSymmetry
INVARIANTS
  SingleActive
  OneAggregation
