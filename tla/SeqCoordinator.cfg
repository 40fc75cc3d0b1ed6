SPECIFICATION SafeSpec
CONSTANTS
  n1 = n1
  n2 = n2
  m1 = m1
  m2 = m2
  Nodes = {n1, n2}
  Priorities <- MCPriorities
  Msgs = {m1, m2}
  MaxMsgs = 1
  LockoutDuration = 1
  LockoutSpare = 0
  MarginOfError = 0
  MsgPerPoll = 1
  MaxAvoid = 0
  MaxFaults = 1
  Prompt = FALSE
  SyncOutcomes = {TRUE}
  None = None
INVARIANTS
  LogsAgree
PROPERTIES
  ChosenNeverOverwritten
  ImplementsMessageLog
