SPECIFICATION Spec
CONSTANTS
  WordChars = {"a"}
  SpaceChars <- Blanks
  OtherChars = {"/", "!", "@"}
  Commands <- CommandNames
  HistoryLimit = 2
  Typed = {"a", " ", "/", "@"}
  Path <- FoundPath
  MaxText = 4
  MaxKeys = 7
INVARIANT TypeOK
PROPERTIES UndoRewinds
CHECK_DEADLOCK FALSE
