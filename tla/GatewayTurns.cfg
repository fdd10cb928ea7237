SPECIFICATION Spec
CONSTANTS
  Tools = {"file_read"}
  HighRisk = {}
  GivenIds = {}
  Yolo = FALSE
  MaxRounds = 2
  MaxCalls = 1
  MaxRequests = 4
  Methods = {"chat.send", "chat.cancel", "session.new", "session.resume", "commands.dispatch"}
  Archive <- OneStored
  KeepRecent = 1
INVARIANTS SingleFlight CancelReachesItsTarget StatusReported NoTurnIsLost TurnsInOrder
PROPERTIES ImplementsChat
CHECK_DEADLOCK FALSE
