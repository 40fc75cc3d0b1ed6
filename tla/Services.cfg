SPECIFICATION ServicesSpec
CONSTANTS
  RtScenarios <- MCRtScenarios
  RtQueue = 1
  FsConns = {"a", "b", "c"}
  FsKeysOf <- MCFsKeysOf
  FsLimit <- MCFsLimit
  FsWorkers = 2
  FsFaults = 2
  SwThreads = {"t", "p", "l"}
  SwKind <- MCSwKind
  SwStoppers = {1, 2}
  HrListeners = {"a", "b"}
  HrWaiter = "w"
  HrMaxHead = 2
  HrFaults = 1
  HrUses = {{"listen"}, {"approval"}, {"approval", "safePoll"}, {"cache"}}
  MsCalls = {"x", "y", "z"}
  MsRootOf <- MCMsRootOf
  MsJit = {"j"}
  LcConfigs <- MCLcConfigs
INVARIANTS
  FeedPassedOn
  ConnectionsCounted
  HeadersSound
  MachinesSound
  StopsInOrder
PROPERTIES
  WaitersServed
\* Each part may come to rest.
CHECK_DEADLOCK FALSE
