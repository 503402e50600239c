SPECIFICATION MCSpec
CONSTANTS
  Users = {u1, u2, u3}
  Requests = {r1, r2}
  Allowlist = {u1}
  None = None
  Gone = Gone
SYMMETRY Symmetry
PROPERTIES NobodyPatchesItself ActiveAdminRemainsInTurn
