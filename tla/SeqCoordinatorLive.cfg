SPECIFICATION LiveSpec
CONSTANTS
  n1 = n1
  n2 = n2
  m1 = m1
  m2 = m2
  Nodes = {n1, n2}
  Priorities <- MCPriorities
  Msgs = {m1}
  MaxMsgs = 1
  LockoutDuration = 2
  LockoutSpare = 1
  MarginOfError = 1
  MsgPerPoll = 1
  MaxAvoid = 1
  MaxFaults = 1
  Prompt = TRUE
  SyncOutcomes = {TRUE}
  None = None
PROPERTIES
  LeaseMoves
