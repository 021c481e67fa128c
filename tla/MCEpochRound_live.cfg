SPECIFICATION FairSpec
CONSTANTS
  MaxEpoch = 3
  Threshold = 2
  Submissions = {s1, s2, s3, s4}
  Operators = {o1}
  Invocations = {i1}
  Workers = {w1}
  MaxRetryAttempts = 1
  RunTaskAttempts = 3
  MaxFaults = 1
  Environment = {"crash", "allBad"}
  NoSub = NoSub
CHECK_DEADLOCK FALSE
INVARIANTS
  ServedModel
  NothingForgotten
PROPERTIES
  QuorumTriggers
  RoundResolves
  ImplementsProtocol
