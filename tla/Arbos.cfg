SPECIFICATION ArbosSpec
CONSTANTS
  Ids = {"a", "b"}
  Lifetime = 2
  LastUse = 2
  MaxTime = 7
  MaxCalls = 3
  AsAddrs = {"o1", "o2", "o3"}
  AsNone = "none"
  AsMaxSize = 4
  SkWord = 2
  SkMaxBytes = 5
  SkMaxOps = 5
  SkHalf = 4
  SkNumbers <- MCSkNumbers
  SkAddrs = {"a", "b", "c"}
  SkWindow = 3
  SkMaxL1 = 9
  ObMaxSends = 9
  ObMaxBlocks = 4
  Posters = {"p", "q"}
  EquilUnits = 4
  Inertia = 2
  PerUnitReward = 1
  LpScenarios <- MCLpScenarios
  LpMaxTime = 3
  GpWidth = 9
  GpBips = 8
  SpeedLimit = 2
  Tolerance = 1
  PricingInertia = 2
  MinBaseFee = 3
  GpUses = {0, 4, 200}
  GpTimes = {0, 1, 2}
  TfRetryables <- MCTfRetryables
  TfOrdinary <- MCTfOrdinary
  TfTxGas = 2
  TfFeeFunds = 20
  TfMinBases = {1, 2}
  TfMaxGas = 6
  BpTxs <- MCBpTxs
  BpMaxTxs = 3
  BpSenders = {"a", "b"}
  BpLimit = 12
  BpTxGas = 2
  BpVersions = {10, 11}
  BpMaxDepth = 2
  BpWide = 4
  BpMaxData = 2
  BpMaxSize = 6
  BpTrees <- MCBpTrees
  BpReports <- MCBpReports
  PgCodes = {"x", "y"}
  PgScenarios <- MCPgScenarios
  PgLruSize = 1
  PgFootprint <- MCPgFootprint
  PgExponents <- MCPgExponents
  PgStart = 3
  PgMaxTime = 8
  PgExpiry = 4
  PgKeepalive = 2
  PgFree = 1
  PgPageGas = 2
  PgMaxDepth = 2
  PgMaxVersion = 2
INVARIANTS
  StorageSound
  OutboxSound
  PricingSound
  MoneySound
  BlocksReplay
  
PROPERTIES
  TicketsSound
  OwnersSound
  ArbosProgress
CHECK_DEADLOCK FALSE
