SPECIFICATION Spec
CONSTANTS
  Workers = {w1, w2}
  Tasks = {t1, t2}
  Pieces = {p1, p2}
  None = None
  WindowSize = 1
  Batch = 1
  MaxMessages = 4
  MaxImported = 2
  MaxLate = 1
  MaxEvictions = 1
SYMMETRY Symmetry
INVARIANTS TypeOK SummaryIsExact WindowStaysVerbatim WatermarkEndsRound UpdatesAreSound
PROPERTIES RefinesSummaryLog
