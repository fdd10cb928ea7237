SPECIFICATION Spec
CONSTANTS
  WordChars = {"a", "y"}
  SpaceChars <- Blanks
  OtherChars = {"/", "!", "@", "?"}
  Commands <- CommandNames
  Typed = {"a", "/", "@"}
  Path <- FoundPath
  MaxText = 3
  MaxKeys = 6
  MaxTurns = 2
INVARIANTS DraftIsBuffer MatchesCurrent
PROPERTIES TextKept
CHECK_DEADLOCK FALSE
