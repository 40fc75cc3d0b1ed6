SPECIFICATION PostingSpec
CONSTANTS
  p1 = p1
  p2 = p2
  Posters = {p1, p2}
  MaxQueued = 3
  MaxMempool = 2
  PosterBudgets <- MCPosterBudgets
  NoBatch = NoBatch
  Clients = {p1, p2}
  LockoutDuration = 3
  RefreshDuration = 2
  Pause = 3
  MaxSkew = 1
  Free = Free
  Gone = Gone
  MaxTime = 5
  FeeBalance = 600
  MaxMempoolWeight = 6
  BlobCounts = {0, 2}
  GasLimit = 2
  BlobGas = 3
  BlobNormalGas = 4
  BaseFees = {2, 20}
  BlobFees = {1, 10}
  Tips = {0, 3}
  Targets = {5, 10000}
  MaxFeeBidBips = 100000
  MaxReplace = 1
  Word = 4
  CodecMsgs <- MCCodecMsgs
  MaxSegments = 6
  MaxDecompressed = 9
  CodecSizeLimit = 6
  MaxDelayed = 2
  CodecBounds <- MCCodecBounds
  ForeignBatches <- MCForeignBatches
  ReadFaults = 1
  BrMax = 2
  BrForks = 1
  BrFaults = 1
  BrPrepared = 1
SYMMETRY PostingSymmetry
INVARIANTS
  QueueSound
  LockExclusive
  FeesSound
PROPERTIES
  BatchesAccepted
  RecorderSound
  BatchReadBack
\* The messages and the events of the outside are bounded.
CHECK_DEADLOCK FALSE
