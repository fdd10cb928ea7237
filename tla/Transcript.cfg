SPECIFICATION Spec
CONSTANTS
  MaxTurns = 2
  MaxRounds = 2
  MaxTokens <- TokensPerTurn
  MaxCommands = 1
  MaxFrames = 2
INVARIANTS ActiveTurnComplete TextOfItsTurn NothingSpinsForEver
PROPERTIES CompletedTurnShown FinishedRowsKept
CHECK_DEADLOCK FALSE
