SPECIFICATION MCSpec
CONSTANTS
  Docs = {f1, u1}
  UrlDocs = {u1}
  Actors = {a1, a2}
  MaxChunks = 1
  OwnCfg = FALSE
  SameDim = TRUE
  MaxRebuilds = 1
  MaxFaults = 1
SYMMETRY Symmetry
CHECK_DEADLOCK FALSE
INVARIANTS DocHasKBAndFile CountIsSum StoresAgree
PROPERTIES DeletedStaysDeleted
