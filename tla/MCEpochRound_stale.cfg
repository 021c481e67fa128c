SPECIFICATION FairSpec
CONSTANTS
  MaxEpoch = 2
  Threshold = 2
  Submissions = {s1, s2}
  Operators = {o1}
  Invocations = {i1}
  Workers = {w1}
  MaxRetryAttempts = 1
  RunTaskAttempts = 3
  MaxFaults = 0
  Environment = {"staleIndex"}
  NoSub = NoSub
CHECK_DEADLOCK FALSE
PROPERTY CountTransitions
