SPECIFICATION FairSpec
CONSTANTS
  Workers = {w1}
  Tasks = {t1, t2}
  Pieces = {p1}
  None = None
  WindowSize = 1
  Batch = 2
  MaxMessages = 6
  MaxImported = 5
  MaxLate = 1
  MaxEvictions = 0
PROPERTIES HotNeverRegresses EveryUpdateEnds
