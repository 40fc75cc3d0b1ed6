SPECIFICATION Spec
CONSTANTS
  Clients = {c1}
  MaxSeq = 5
  SegmentLimit = 2
  MaxSegs = 8
  MaxSendQueue = 2
  MaxClients = 1
  FirstSeq = 2
  MaxPerBroadcast = 2
  Budgets <- ConfirmBudgets
INVARIANT NoPanic
\* The inputs are bounded.
CHECK_DEADLOCK FALSE
