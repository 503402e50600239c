SPECIFICATION MCSpec
CONSTANTS
  Users = {u1, u2, u3}
  KBs = {k1}
  Links = {l1}
  Requests = {r1, r2}
  MaxUses = 1
  MaxAdmitted = 2
  MaxPurged = 1
  None = None
  Gone = Gone
SYMMETRY Symmetry
CHECK_DEADLOCK FALSE
INVARIANTS OwnerIsNoMember UsesWithinMax UsesCountAdmissionsInTurn
PROPERTIES MembersChangeByRight
