SPECIFICATION FairSpec
CONSTANTS
  Tools = {"shell", "file_read"}
  HighRisk = {"shell"}
  GivenIds = {}
  Yolo = FALSE
  MaxRounds = 2
  MaxCalls = 1
  MaxRequests = 3
  Methods = {"chat.send", "chat.approve", "tools.run", "gateway.shutdown", "read_only", "malformed"}
  Archive <- OneStored
  KeepRecent = 1
INVARIANTS EndOfInputAnswersAll
PROPERTIES WorkEnds ShutdownTakesEffect
CHECK_DEADLOCK FALSE
