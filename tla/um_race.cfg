SPECIFICATION MCSpec
CONSTANTS
  Mems = {1, 2, 3}
  Contents = {c1, c2}
  Actors = {a1, a2}
  None = None
  TopImp = 1
  Floor = 1
  NeighborLimit = 2
  Janitors = 2
  MaxEdits = 1
  MaxNights = 2
  MaxFaults = 1
  MaxDeletes = 1
  MaxTogether = 2
SYMMETRY Symmetry
VIEW View
CONSTRAINT IdsInOrder
INVARIANTS ActiveIsIndexed ProfileIsFreshInTurn IndexMatchesRowInTurn
PROPERTIES NoResurrection DedupKeepsOneInTurn CullsOnlyWorseInTurn
CHECK_DEADLOCK FALSE
