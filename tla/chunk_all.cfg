SPECIFICATION ChunkSpec
CONSTANTS
  Target = 6
  MaxSize = 7
  Overlap = 3
  MaxAtoms = 5
CHECK_DEADLOCK FALSE
INVARIANTS LengthIsExact NothingIsLost ChunkIsBounded
