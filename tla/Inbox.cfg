SPECIFICATION FairSpec
CONSTANTS
  Users = {u}
  Heights = {1, 2, 3, 4}
  Kinds = {0, 1, 2}
  MaxLen = 8
  ResequenceDepth = 4
  MaxQueueSize = 2
  None = None
  MaxBlocks = 4
  BackStep = 10
  Budgets <- MCBudgets
INVARIANTS
  InboxSound
PROPERTIES
  CatchesUpWithL1
