SPECIFICATION ExecutionSpec
CONSTANTS
  QueueSize = 2
  MaxTxDataSize = 2
  NonceFailureCacheSize = 1
  SeqScenarios <- MCSeqScenarios
  FwUrls <- MCFwUrls
  FwSaturated = 3
  FwScenarios <- MCFwScenarios
  TxGas = 2
  PcInputs <- MCPcInputs
  SyScenarios <- MCSyScenarios
  PnMax = 4
  PnMaxBatches = 3
  PnMinLeft = 1
  PnFaults = 1
  PbMax = 4
  PbUnits = {1, 2}
INVARIANTS
  AnswersTruthful
PROPERTIES
  SubmittersAnswered
\* The submissions and the changes of role are bounded.
CHECK_DEADLOCK FALSE
