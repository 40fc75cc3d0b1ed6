SPECIFICATION DasSpec
CONSTANTS
  Services = {"s1", "s2", "s3"}
  AssumedHonest = 2
  BinSize = 4
  TreeInputs <- MCTreeInputs
  TreeKeys = 2
  MinLifetime = 2
  TreeTimeouts = {2, 3}
  Confirmations = 2
  BlocksPerRead = 3
  SyWord = 64
  SyKinds <- MCSyKinds
  SyMaxHead = 5
  SyMaxForks = 1
  SyMaxFaults = 1
  Storages = {"s", "t"}
  StoreCalls = {1, 2}
  MbScenarios <- MCMbScenarios
  Lifetime = 1
  CallTime = 1
  ArchiveTime = 3
  DataTime = 2
  RdWebs <- MCRdWebs
  RdDepth = 3
  RdHolders = {"c"}
  RdMaxGets = 3
  RdMaxFaults = 1
  RdMaxTicks = 2
INVARIANTS
  AggregatorSound
  MemberSound
  RetrievalRight
  NothingSkipped
PROPERTIES
  DasProgress
\* Each part may come to rest.
CHECK_DEADLOCK FALSE
