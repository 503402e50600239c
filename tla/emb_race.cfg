SPECIFICATION MCSpec
CONSTANTS
  Users = {u1, u2}
  KBs = {k1}
  Spaces = {e1, e2, e3}
  Wide = {e2, e3}
  EnvSpace = e1
  ByokRequired = FALSE
  Requests = {r1, r2}
  None = None
SYMMETRY Symmetry
CHECK_DEADLOCK FALSE
INVARIANTS OwnSpaceOnly FallbackFitsInTurn 
