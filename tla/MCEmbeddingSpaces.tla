-------------------------- MODULE MCEmbeddingSpaces --------------------------
(***************************************************************************)
(* EmbeddingSpaces for TLC.  The checks of the settings read before they   *)
(* commit, so what they protect is promised to requests that take turns: a *)
(* history variable tells them apart.                                      *)
(***************************************************************************)
EXTENDS EmbeddingSpaces, TLC

VARIABLE raced  \* a request has run while another was in flight

mcvars == <<vars, raced>>

InFlight == {r \in Requests : requests[r] # Idle}

MCInit == Init /\ raced = FALSE

(* A request that is over at once leaves the slots as they are. *)
MCNext ==
  /\ Next
  /\ raced' = \/ raced
              \/ Cardinality(InFlight') > 1
              \/ InFlight # {} /\ requests' = requests

MCSpec == MCInit /\ [][MCNext]_mcvars

(* Users, ids, slots and wide models but the environment's are             *)
(* interchangeable.                                                        *)
Symmetry ==
  Permutations(Users) \cup Permutations(KBs) \cup Permutations(Requests)
    \cup Permutations(Wide \ {EnvSpace})

-------------------------------------------------------------------------------

(* The dim-conflict checks of PUT and DELETE /embedding: while requests    *)
(* take turns and the environment's dimension is known, a user whose saved *)
(* dimension is the true one of the saved model, or who has none saved,    *)
(* has no KB without settings of its own in another dimension - whatever   *)
(* was saved, wrong dimensions too, cleared, created and lost in a crash   *)
(* before.  Queries and documents of that owner fit the collection.        *)
FallbackFitsInTurn ==
  envKnown /\ ~raced =>
    \A u \in Users : cfg[u] = None \/ declared[u] = Dim(cfg[u]) =>
      \A k \in Dependent(u) : kbs[k].size = Dim(Embedder(cfg[u]))
===============================================================================
