SPECIFICATION FairSpec
CONSTANTS
  Kinds = {"chat", "exit", "local"}
  MaxPrompts = 2
  MaxKeys = 1
  MaxCalls = 2
  MayFail = TRUE
INVARIANTS TypeOK ApprovalReachable DecisionsMeetTheirCall
PROPERTIES CallsSettle ShutdownEnds
CHECK_DEADLOCK FALSE
