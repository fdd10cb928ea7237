SPECIFICATION Spec
CONSTANTS
  Tools = {"shell", "file_read"}
  HighRisk = {"shell"}
  GivenIds = {"c1"}
  Yolo = FALSE
  MaxRounds = 1
  MaxCalls = 2
  MaxRequests = 4
  Methods = {"chat.send", "chat.cancel", "chat.approve"}
  Archive <- OneStored
  KeepRecent = 1
INVARIANTS TypeOK RunsOnlyWithConsent OneAnswerPerCall PendingIsCurrent OrphanCallsAreCancelled
PROPERTIES NoToolAfterCancel
CHECK_DEADLOCK FALSE
