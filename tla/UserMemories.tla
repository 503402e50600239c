------------------------------ MODULE UserMemories ------------------------------
(***************************************************************************)
(* The long-term memories of one user: durable rows, the best-effort       *)
(* vector index, the hot profile hash in Redis, and the nightly janitor    *)
(* (conversations/long_term_memory.py, memory_maintenance.py,              *)
(* memory_routes.py, infra/memory_vector.py).                              *)
(*                                                                         *)
(* An actor is one running writer, request, profile read or janitor; every *)
(* await of the code is a step boundary.  Memories with equal content are  *)
(* what the vector search scores above the duplicate threshold.  The user  *)
(* has an embedding configuration and Redis is on.                         *)
(***************************************************************************)
EXTENDS Integers, FiniteSets, FiniteSetsExt

CONSTANTS
  Mems,       \* memory ids, in creation order: a set of integers
  Contents,   \* what a memory may say
  Actors,     \* slots for concurrent work
  None,       \* absent
  TopImp,     \* importance is 0..TopImp (thousandths in the code: 0.0 .. 1.0)
  Floor,      \* importance below it is evicted
  NeighborLimit, \* _DEDUP_NEIGHBOR_LIMIT: what one search returns at most
  Janitors,   \* bound: janitors running at once (one per app instance)
  MaxEdits,   \* bound: PATCH requests
  MaxNights,  \* bound: times a janitor is started
  MaxFaults   \* bound: crashes and vector failures

ASSUME UMAssumption ==
  /\ Mems \subseteq Int /\ Actors # {}
  /\ None \notin Mems /\ None \notin Contents
  /\ TopImp \in Nat /\ Floor \in Nat /\ NeighborLimit \in Nat /\ Janitors \in Nat
  /\ MaxEdits \in Nat /\ MaxNights \in Nat /\ MaxFaults \in Nat

VARIABLES
  row,      \* the user_memories rows
  vec,      \* the indexed content of each memory, or None
  cache,    \* the Redis profile hash: None or a profile
  actors,   \* the work in flight
  edits, nights, faults   \* the bounded counters

vars == <<row, vec, cache, actors, edits, nights, faults>>

NoRow == [st |-> "none", content |-> None, imp |-> 0]

Active(m) == row[m].st = "active"
ActiveMems == {m \in Mems : Active(m)}

(* The aggregate the profile is built from: what the active rows say and   *)
(* how they rank (_aggregate_profile_pg; formatting and caps left out).    *)
Profile == {<<m, row[m].content, row[m].imp>> : m \in ActiveMems}

Idle == [pc |-> "idle", mem |-> None, content |-> None, imp |-> 0, next |-> "idle",
         todo |-> {}, lose |-> {}, changed |-> FALSE]

At(a, pc) == actors[a].pc = pc
Become(a, rec) == actors' = [actors EXCEPT ![a] = rec]
Goto(a, pc) == Become(a, [actors[a] EXCEPT !.pc = pc])
End(a) == Become(a, Idle)

Works == UNCHANGED faults
Fails == faults < MaxFaults /\ faults' = faults + 1

-------------------------------------------------------------------------------
(* _persist_memory: the row, then the cache, then the vector *)

Persist(a, m, c, imp) ==
  /\ At(a, "idle") /\ row[m].st = "none"
  /\ row' = [row EXCEPT ![m] = [NoRow EXCEPT !.st = "active", !.content = c, !.imp = imp]]
  /\ Become(a, [Idle EXCEPT !.pc = "invalidate", !.mem = m, !.content = c,
                            !.next = "index"])
  /\ UNCHANGED <<vec, cache, edits, nights, faults>>

(* invalidate_profile_cache, the last step but for a new memory. *)
Invalidate(a) ==
  /\ At(a, "invalidate")
  /\ cache' = None
  /\ IF actors[a].next = "idle" THEN End(a) ELSE Goto(a, actors[a].next)
  /\ UNCHANGED <<row, vec, edits, nights, faults>>

(* embed, then upsert_memory_vector, of the content the writer holds; a    *)
(* failure is logged and swallowed.                                        *)
Index(a) ==
  /\ \/ At(a, "index") /\ End(a)
     \/ At(a, "reindex") /\ Goto(a, "invalidate")
  /\ \/ Works /\ vec' = [vec EXCEPT ![actors[a].mem] = actors[a].content]
     \/ Fails /\ UNCHANGED vec
  /\ UNCHANGED <<row, cache, edits, nights>>

-------------------------------------------------------------------------------
(* PATCH and DELETE /api/memories/{id} *)

(* _load_owned_memory: a culled row is a 404.  The request edits the        *)
(* content, the importance (NoEdit leaves it) or both.                      *)
NoEdit == -1

Patch(a, m, c, imp) ==
  /\ At(a, "idle") /\ Active(m)
  /\ edits < MaxEdits /\ edits' = edits + 1
  /\ c # None \/ imp # NoEdit
  /\ c # row[m].content /\ imp # row[m].imp
  /\ Become(a, [Idle EXCEPT !.pc = "patch", !.mem = m, !.content = c, !.imp = imp])
  /\ UNCHANGED <<row, vec, cache, nights, faults>>

(* Mutant: the row is merged back whole, whatever became of it. *)
PatchByMerge(a) ==
  LET m == actors[a].mem
  IN /\ At(a, "patch")
     /\ row' = [row EXCEPT ![m].st = "active"]
     /\ Goto(a, "refresh")
     /\ UNCHANGED <<vec, cache, edits, nights, faults>>

(* The commit writes the edited columns; it fails when the row is gone.     *)
PatchCommit(a) ==
  LET m == actors[a].mem
      c == actors[a].content
      imp == actors[a].imp
  IN /\ At(a, "patch")
     /\ IF row[m].st = "gone"
          THEN End(a) /\ UNCHANGED row
          ELSE /\ row' = [row EXCEPT ![m].content = IF c = None THEN @ ELSE c,
                                     ![m].imp = IF imp = NoEdit THEN @ ELSE imp]
               /\ Goto(a, "refresh")
     /\ UNCHANGED <<vec, cache, edits, nights, faults>>

(* Mutant: an edit does not re-index. *)
PatchWithoutReindex(a) ==
  /\ At(a, "refresh")
  /\ Goto(a, "invalidate")
  /\ UNCHANGED <<row, vec, cache, edits, nights, faults>>

(* session.refresh: what will be indexed; it raises when the row is gone.   *)
PatchRefresh(a) ==
  LET m == actors[a].mem
  IN /\ At(a, "refresh")
     /\ IF row[m].st = "gone" THEN End(a)
          ELSE Become(a, [Idle EXCEPT !.pc = "reindex", !.mem = m,
                                      !.content = row[m].content])
     /\ UNCHANGED <<row, vec, cache, edits, nights, faults>>

DeleteMemory(a, m) ==
  /\ At(a, "idle") /\ Active(m)
  /\ Become(a, [Idle EXCEPT !.pc = "delete", !.mem = m])
  /\ UNCHANGED <<row, vec, cache, edits, nights, faults>>

(* Mutant: the profile cache survives the deletion. *)
DeleteKeepsCache(a) ==
  LET m == actors[a].mem
  IN /\ At(a, "delete")
     /\ row' = [row EXCEPT ![m] = [NoRow EXCEPT !.st = "gone"]]
     /\ Become(a, [Idle EXCEPT !.pc = "unindex", !.lose = {m}])
     /\ UNCHANGED <<vec, cache, edits, nights, faults>>

DeleteCommit(a) ==
  LET m == actors[a].mem
  IN /\ At(a, "delete")
     /\ row' = [row EXCEPT ![m] = [NoRow EXCEPT !.st = "gone"]]
     /\ Become(a, [Idle EXCEPT !.pc = "unindex", !.lose = {m}, !.next = "invalidate"])
     /\ UNCHANGED <<vec, cache, edits, nights, faults>>

(* delete_memory_vector, for one memory or for the losers of a cull one    *)
(* after the other; each call may fail alone.                              *)
Unindex(a) ==
  \E m \in actors[a].lose :
    /\ At(a, "unindex")
    /\ \/ Works /\ vec' = [vec EXCEPT ![m] = None]
       \/ Fails /\ UNCHANGED vec
    /\ Become(a, IF actors[a].lose = {m}
                   THEN [actors[a] EXCEPT !.pc = actors[a].next, !.next = "idle",
                                          !.lose = {}]
                   ELSE [actors[a] EXCEPT !.lose = @ \ {m}])
    /\ UNCHANGED <<row, cache, edits, nights>>

-------------------------------------------------------------------------------
(* get_user_profile on a cache miss: aggregate, then write back *)

ReadProfile(a) ==
  /\ At(a, "idle") /\ cache = None
  /\ Become(a, [Idle EXCEPT !.pc = "writeBack", !.todo = Profile])
  /\ UNCHANGED <<row, vec, cache, edits, nights, faults>>

WriteBack(a) ==
  /\ At(a, "writeBack")
  /\ cache' = actors[a].todo
  /\ End(a)
  /\ UNCHANGED <<row, vec, edits, nights, faults>>

-------------------------------------------------------------------------------
(* maintain_user_memories: dedup, decay, evict, invalidate when changed *)

JanitorSteps == {"dedup", "cull", "decay", "evict", "evictCull"}
Janitor(a) == actors[a].pc \in JanitorSteps \/ actors[a].next \in JanitorSteps

(* _load_active_memories: a snapshot of ids, contents and importances. *)
StartJanitor(a) ==
  /\ At(a, "idle")
  /\ nights < MaxNights /\ nights' = nights + 1
  /\ Cardinality({b \in Actors : Janitor(b)}) < Janitors
  /\ Become(a, [Idle EXCEPT !.pc = IF Cardinality(ActiveMems) < 2 THEN "decay" ELSE "dedup",
                            !.todo = Profile])
  /\ UNCHANGED <<row, vec, cache, edits, faults>>

(* Mutant: least important first. *)
LeadsUpsideDown(x, y) == x[3] < y[3] \/ (x[3] = y[3] /\ x[1] < y[1])

(* Highest importance first, newest on ties. *)
Leads(x, y) == x[3] > y[3] \/ (x[3] = y[3] /\ x[1] > y[1])

(* Mutant: a leader is its own duplicate. *)
DedupWithSelf(a) ==
  /\ At(a, "dedup")
  /\ \/ /\ actors[a].todo = {}
        /\ Goto(a, IF actors[a].lose = {} THEN "decay" ELSE "cull")
     \/ \E x \in actors[a].todo :
          LET near == {n \in Mems : vec[n] = x[2]}
          IN Become(a, [actors[a] EXCEPT
               !.lose = @ \cup near,
               !.todo = {y \in @ \ {x} : y[1] \notin near}])
  /\ Works
  /\ UNCHANGED <<row, vec, cache, edits, nights>>

(* What a search for c returns of the vectors above the threshold: all of  *)
(* them or, past the limit, any so many.  The leader's own vector and those *)
(* of earlier losers take their places too.                                *)
Neighbors(c) ==
  LET near == {n \in Mems : vec[n] = c}
  IN IF Cardinality(near) <= NeighborLimit THEN {near} ELSE kSubset(NeighborLimit, near)

(* One leader: the index is asked for its neighbours; those that score     *)
(* above the threshold lose and are not leaders themselves.  A neighbour   *)
(* may have led before: the limit kept it out of sight then.               *)
DedupLeader(a) ==
  /\ At(a, "dedup")
  /\ \/ /\ actors[a].todo = {}
        /\ Goto(a, IF actors[a].lose = {} THEN "decay" ELSE "cull")
        /\ Works
     \/ \E x \in actors[a].todo :
          /\ \A y \in actors[a].todo \ {x} : Leads(x, y)
          /\ \/ \E found \in Neighbors(x[2]) :
                  /\ Works
                  /\ Become(a, [actors[a] EXCEPT
                       !.lose = @ \cup (found \ {x[1]}),
                       !.todo = {y \in @ \ {x} : y[1] \notin found}])
             \/ Fails /\ Become(a, [actors[a] EXCEPT !.todo = @ \ {x}])
  /\ UNCHANGED <<row, vec, cache, edits, nights>>

(* Mutant: the update is not committed. *)
SoftDeleteUncommitted(ms) == UNCHANGED row

(* UPDATE ... SET deleted_at WHERE id IN (...) AND deleted_at IS NULL.  The *)
(* row stays; its importance, which nothing reads any more, is forgotten.  *)
SoftDelete(ms) ==
  row' = [m \in Mems |-> IF m \in ms /\ Active(m)
                         THEN [NoRow EXCEPT !.st = "culled", !.content = row[m].content]
                         ELSE row[m]]

Culls(a, next) ==
  /\ SoftDelete(actors[a].lose)
  /\ Become(a, [actors[a] EXCEPT !.pc = "unindex", !.next = next,
                  !.changed = @ \/ \E m \in actors[a].lose : Active(m)])
  /\ UNCHANGED <<vec, cache, edits, nights, faults>>

CullDuplicates(a) == At(a, "cull") /\ Culls(a, "decay")

(* One UPDATE: importance * 0.9 for the active rows not accessed for thirty *)
(* days and not decayed within the cooldown.  Which ones these are is a     *)
(* matter of time and of the recalls that touch them: any set of rows.      *)
Decay(a) ==
  \E hit \in SUBSET ActiveMems :
    /\ At(a, "decay")
    /\ row' = [m \in Mems |-> IF m \in hit /\ row[m].imp > 0
                              THEN [row[m] EXCEPT !.imp = @ - 1] ELSE row[m]]
    /\ Become(a, [actors[a] EXCEPT !.pc = "evict", !.changed = @ \/ hit # {}])
    /\ UNCHANGED <<vec, cache, edits, nights, faults>>

SelectDoomed(a) ==
  LET doomed == {m \in ActiveMems : row[m].imp < Floor}
      rest == IF actors[a].changed THEN [Idle EXCEPT !.pc = "invalidate"] ELSE Idle
  IN /\ At(a, "evict")
     /\ Become(a, IF doomed = {} THEN rest
                  ELSE [actors[a] EXCEPT !.pc = "evictCull", !.lose = doomed])
     /\ UNCHANGED <<row, vec, cache, edits, nights, faults>>

EvictCull(a) == At(a, "evictCull") /\ Culls(a, "invalidate")

-------------------------------------------------------------------------------

(* The process dies in the middle of an actor's work. *)
Crash(a) ==
  /\ ~At(a, "idle")
  /\ Fails
  /\ End(a)
  /\ UNCHANGED <<row, vec, cache, edits, nights>>

Init ==
  /\ row = [m \in Mems |-> NoRow]
  /\ vec = [m \in Mems |-> None]
  /\ cache = None
  /\ actors = [a \in Actors |-> Idle]
  /\ edits = 0 /\ nights = 0 /\ faults = 0

Next ==
  \/ \E a \in Actors :
       \/ \E m \in Mems, c \in Contents, imp \in 0..TopImp : Persist(a, m, c, imp)
       \/ \E m \in Mems, c \in Contents \cup {None}, imp \in NoEdit..TopImp :
            Patch(a, m, c, imp)
       \/ \E m \in Mems : DeleteMemory(a, m)
       \/ Invalidate(a) \/ Index(a) \/ Unindex(a)
       \/ PatchCommit(a) \/ PatchRefresh(a) \/ DeleteCommit(a)
       \/ ReadProfile(a) \/ WriteBack(a)
       \/ StartJanitor(a) \/ DedupLeader(a) \/ CullDuplicates(a)
       \/ Decay(a) \/ SelectDoomed(a) \/ EvictCull(a)
       \/ Crash(a)

Spec == Init /\ [][Next]_vars

-------------------------------------------------------------------------------
(* Properties *)

TypeOK ==
  /\ \A m \in Mems :
       /\ row[m].st \in {"none", "active", "culled", "gone"}
       /\ row[m].content \in Contents \cup {None}
       /\ row[m].imp \in 0..TopImp
       /\ vec[m] \in Contents \cup {None}
  /\ cache = None \/ cache \subseteq Mems \X Contents \X (0..TopImp)
  /\ \A a \in Actors : actors[a].lose \subseteq Mems

AllIdle == \A a \in Actors : At(a, "idle")

(* A culled memory is never patched, touched or decayed back to life, and a *)
(* deleted one never comes back, whatever was in flight (_load_owned_memory,*)
(* the deleted_at predicates).                                              *)
NoResurrection ==
  [][\A m \in Mems :
       /\ row[m].st = "culled" => row'[m].st \in {"culled", "gone"}
       /\ row[m].st = "gone" => row'[m] = row[m]]_vars

(* Without failures every active memory can be recalled by meaning: no      *)
(* janitor, peer or late delete drops the vector of a living memory.        *)
ActiveIsIndexed ==
  (AllIdle /\ faults = 0) => \A m \in ActiveMems : vec[m] # None

===============================================================================
