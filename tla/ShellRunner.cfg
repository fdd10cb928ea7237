SPECIFICATION Spec
CONSTANTS
  PipeSize = 2
  MaxOutput = 2
  MaxPieces = 6
INVARIANT ResultComplete
PROPERTY CallEnds
CHECK_DEADLOCK FALSE
