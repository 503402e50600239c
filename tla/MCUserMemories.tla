---------------------------- MODULE MCUserMemories ----------------------------
(***************************************************************************)
(* UserMemories for TLC.  Writers, requests, profile reads and janitors    *)
(* that take turns keep promises that racing ones break, so a history      *)
(* variable tells the two apart; another remembers what the user deleted   *)
(* under a janitor's hands.                                                *)
(***************************************************************************)
EXTENDS UserMemories, TLC

CONSTANTS
  MaxDeletes,   \* bound: memories the user deletes
  MaxTogether   \* bound: edits, nights and failures taken together

VARIABLES
  overlapped,  \* two actors have been at work at once
  dropped      \* what the active memories said that were deleted since the
               \* janitor now at work began

mcvars == <<vars, overlapped, dropped>>

Busy == {a \in Actors : ~At(a, "idle")}

Deleted(m) == Active(m) /\ row'[m].st = "gone"

Bounded ==
  /\ Cardinality({m \in Mems : \/ row[m].st = "gone"
                              \/ \E a \in Actors : At(a, "delete") /\ actors[a].mem = m})
       <= MaxDeletes
  /\ edits + nights + faults <= MaxTogether

MCInit == Init /\ overlapped = FALSE /\ dropped = {}

MCNext ==
  /\ Next
  /\ Bounded'
  /\ overlapped' = (overlapped \/ Cardinality(Busy') > 1)
  /\ dropped' = IF \E a \in Actors : Janitor(a)'
                  THEN dropped \cup {row[m].content : m \in {n \in Mems : Deleted(n)}}
                  ELSE {}

MCSpec == MCInit /\ [][MCNext]_mcvars

(* Slots are interchangeable, and so are texts. *)
Symmetry == Permutations(Actors) \cup Permutations(Contents)

(* A bound on what TLC explores, and on no theorem: ids are handed out in  *)
(* the order in which the rows are committed.                              *)
IdsInOrder ==
  \A m, n \in Mems : row[m].st = "none" /\ m < n => row[n].st = "none"

InTurn == ~overlapped /\ faults = 0

(* Only a property in turn looks at what the hot profile says: afterwards   *)
(* states that differ in nothing else are one to TLC.                      *)
View ==
  <<row, vec, edits, nights, faults, overlapped, dropped,
    IF InTurn THEN cache ELSE cache = None,
    [a \in Actors |-> IF At(a, "writeBack") /\ ~InTurn
                      THEN [actors[a] EXCEPT !.todo = {}] ELSE actors[a]]>>

-------------------------------------------------------------------------------

Culled(m) == Active(m) /\ row'[m].st = "culled"

(* Whatever deduplication culls, another memory says the same and stays,   *)
(* or said it and was deleted by the user while this janitor was at work.  *)
KeepsOne ==
  \A a \in Actors, n \in Mems : CullDuplicates(a) /\ Culled(n) =>
    \/ row[n].content \in dropped
    \/ \E m \in Mems \ {n} : /\ row'[m].st = "active"
                             /\ row'[m].content = row[n].content

(* Deduplication never takes the last memory that says something: a single *)
(* janitor among any writers and deletions, as long as nothing was edited, *)
(* and any janitor when actors take turns.                                 *)
DedupKeepsOneInTurn ==
  [][InTurn \/ (edits = 0 /\ nights = 1) => KeepsOne]_mcvars

(* As many vectors of one text as a single search returns.                 *)
WithinLimit(c) == Cardinality({m \in Mems : vec[m] = c}) <= NeighborLimit

(* "keeping the best one" and "whose importance fell below the floor": of  *)
(* no more duplicates than a search returns, what is culled ranks below    *)
(* one that stays, and what is evicted is below the floor, when actors     *)
(* take turns.  Past the limit a leader that escaped the first search may  *)
(* cull the best one, and nothing is promised.                             *)
CullsOnlyWorseInTurn ==
  [][InTurn =>
       \A a \in Actors, n \in Mems :
         /\ CullDuplicates(a) /\ Culled(n) /\ WithinLimit(row[n].content) =>
              \E m \in Mems \ {n} : /\ row'[m].st = "active"
                                    /\ row'[m].content = row[n].content
                                    /\ row'[m].imp >= row[n].imp
         /\ EvictCull(a) /\ Culled(n) => row[n].imp < Floor]_mcvars

(* At rest the hot profile is what the rows say ("Invalidate the profile   *)
(* cache ... next read rebuilds"), when actors take turns.                 *)
ProfileIsFreshInTurn == AllIdle /\ InTurn => cache \in {None, Profile}

(* At rest the index holds what the row says (PATCH re-indexes the         *)
(* "post-edit row"), when actors take turns.                               *)
IndexMatchesRowInTurn ==
  AllIdle /\ InTurn => \A m \in ActiveMems : vec[m] = row[m].content
===============================================================================
