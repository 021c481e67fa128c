SPECIFICATION Spec
CONSTANTS
  MaxEpoch = 4
  Threshold = 1
  Submissions = {s1, s2}
  Operators = {o1}
  Invocations = {i1}
  Workers = {w1}
  MaxRetryAttempts = 1
  RunTaskAttempts = 2
  MaxFaults = 0
  Environment = {"allBad", "preSeed"}
  NoSub = NoSub
CHECK_DEADLOCK FALSE
SYMMETRY MCSymmetry
INVARIANT
  SingleActive
