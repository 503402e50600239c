SPECIFICATION Spec
CONSTANTS
  Users = {u1}
  KBs = {k1}
  Spaces = {e1, e2}
  Wide = {}
  EnvSpace = e1
  ByokRequired = FALSE
  Requests = {r1}
  None = None
CHECK_DEADLOCK FALSE
INVARIANT OwnSpaceAlways
