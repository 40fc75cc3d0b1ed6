SPECIFICATION FairSpec
CONSTANTS
  s1 = s1
  s2 = s2
  s3 = s3
  s4 = s4
  Services = {s1, s2, s3, s4}
  AssumedHonest = 2
PROPERTIES
  CancelledStoreReturns
\* The call ends.
CHECK_DEADLOCK FALSE
