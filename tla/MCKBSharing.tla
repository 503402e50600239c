----------------------------- MODULE MCKBSharing -----------------------------
(***************************************************************************)
(* KBSharing for TLC.  Accepts that take turns count every use of a link,  *)
(* racing ones do not, so a history variable tells the two apart.          *)
(***************************************************************************)
EXTENDS KBSharing, TLC

VARIABLE raced  \* two requests have been in flight at once

mcvars == <<vars, raced>>

InFlight == {r \in Requests : requests[r] # Idle}

MCInit == Init /\ raced = FALSE

MCNext == Next /\ raced' = (raced \/ Cardinality(InFlight') > 1)

MCSpec == MCInit /\ [][MCNext]_mcvars

(* Users, ids and slots are interchangeable. *)
Symmetry ==
  Permutations(Users) \cup Permutations(KBs) \cup Permutations(Links)
    \cup Permutations(Requests)

-------------------------------------------------------------------------------

(* "The link can be bounded in uses (max_uses + uses_count)": it lets in as *)
(* many as it counts, and so no more than its limit, when accepts take      *)
(* turns - whatever members leave, come back or are removed on the way.     *)
UsesCountAdmissionsInTurn ==
  ~raced => \A l \in Links : links[l] # None => links[l].uses = admitted[l]
===============================================================================
