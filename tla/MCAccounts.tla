------------------------------ MODULE MCAccounts ------------------------------
(***************************************************************************)
(* Accounts for TLC.  The rule of the last active admin is kept by         *)
(* requests that take turns and broken by racing ones, so a history        *)
(* variable tells the two apart.                                           *)
(***************************************************************************)
EXTENDS Integers, Accounts, TLC

VARIABLE raced  \* two requests have been in flight, or one was DELETE /me

mcvars == <<vars, raced>>

InFlight == {r \in Requests : requests[r] # Idle}

MCInit == Init /\ raced = FALSE

TurnNext ==
  /\ Next
  /\ raced' = \/ raced
              \/ Cardinality(InFlight') > 1
              \/ \E r \in InFlight' : requests'[r].op = "leave"

TurnSpec == MCInit /\ [][TurnNext]_mcvars

(* Bound: a patch that sets both flags is in flight alone. *)
RacingPatchesSetOneFlag ==
  Cardinality(InFlight) > 1 =>
    \A r \in Requests : None \in {requests[r].active, requests[r].admin}

MCNext == TurnNext /\ RacingPatchesSetOneFlag'

MCSpec == MCInit /\ [][MCNext]_mcvars

(* Slots are interchangeable, and so are the users outside the allowlist. *)
Symmetry == Permutations(Requests) \cup Permutations(Users \ Allowlist)

-------------------------------------------------------------------------------

(* "the last active admin cannot be demoted / banned / deleted": a platform *)
(* that has an active admin keeps one, as long as the admin requests take   *)
(* turns, through any restarts and whoever loses its role on the way.       *)
ActiveAdminRemainsInTurn ==
  [][~raced /\ ActiveAdmins # {} => ActiveAdmins' # {}]_mcvars
===============================================================================
