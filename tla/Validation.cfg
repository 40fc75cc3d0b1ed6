SPECIFICATION ValidationSpec
CONSTANTS
  MaxMsgs = 4
  ForwardBlocks = 2
  PrerecordedBlocks = 2
  MaxRuns = 1
  BvBudgets <- MCBvBudgets
  MaxNodes = 3
  MaxCount = 2
  HighGasDelay = 1
  AdvanceLimit = 3
  StakerConfigs <- MCStakerConfigs
  MaxBisectionDegree = 3
  ChalScenarios <- MCChalScenarios
  McWord = 128
  McScenarios <- MCMcScenarios
  VwKinds <- MCVwKinds
  VwBatches <- MCVwBatches
  VwRounds = 2
  VwFaults = 2
INVARIANTS
  ValidatedSound
  StakeSound
  WalletSound
  DisputeSound
PROPERTIES
  ValidationProgress
\* The messages, the assertions and the moves are bounded.
CHECK_DEADLOCK FALSE
