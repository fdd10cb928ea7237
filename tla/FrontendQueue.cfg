SPECIFICATION FairSpec
CONSTANTS
  Kinds = {"chat", "slash", "bash", "bang"}
  MaxPrompts = 4
  MaxKeys = 0
  MaxCalls = 0
  MayFail = FALSE
INVARIANTS PromptsConserved FirstInFirstOut ActiveIsPending
PROPERTIES QueueDrains
CHECK_DEADLOCK FALSE
