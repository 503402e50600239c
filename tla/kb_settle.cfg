SPECIFICATION MCSpec
CONSTANTS
  Docs = {u1}
  UrlDocs = {u1}
  Actors = {a1, a2}
  MaxChunks = 2
  OwnCfg = TRUE
  SameDim = FALSE
  MaxRebuilds = 1
  MaxFaults = 1
CHECK_DEADLOCK FALSE
PROPERTIES EveryDocSettles
