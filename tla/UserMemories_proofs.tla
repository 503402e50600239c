--------------------------- MODULE UserMemories_proofs ---------------------------
(***************************************************************************)
(* UserMemories for all numbers of memories, contents, actors and faults.  *)
(***************************************************************************)
EXTENDS MCUserMemories, FiniteSetTheorems, TLAPS

Row == [st : {"none", "active", "culled", "gone"},
        content : Contents \cup {None}, imp : 0..TopImp]

Aggregates == SUBSET (Mems \X Contents \X (0..TopImp))

(* Where an actor works on one memory that has a row. *)
OnMemory == {"patch", "refresh", "reindex", "index", "delete"}

Pcs == OnMemory \cup JanitorSteps \cup {"idle", "invalidate", "unindex", "writeBack"}

Actor == [pc : Pcs, mem : Mems \cup {None}, content : Contents \cup {None},
          imp : NoEdit..TopImp, next : {"idle", "index", "invalidate", "decay"},
          todo : Aggregates, lose : SUBSET Mems, changed : BOOLEAN]

(* Has written the row of a new memory and is about to index it. *)
Indexing(q) == q.next = "index"

(* What an actor knows of the rows: the memory it works on and those it    *)
(* will drop from the index have rows, and the latter are dead already.    *)
Fit(q) ==
  /\ Indexing(q) => q.pc \in {"invalidate", "index"}
  /\ q.pc = "unindex" => q.next \in {"invalidate", "decay"}
  /\ q.pc \in OnMemory \/ Indexing(q) => q.mem \in Mems /\ row[q.mem].st # "none"
  /\ q.pc \in {"index", "reindex"} \/ Indexing(q) => q.content \in Contents
  /\ \A m \in q.lose : row[m].st # "none"
  /\ q.pc = "unindex" => \A m \in q.lose : ~Active(m)

Types ==
  /\ row \in [Mems -> Row]
  /\ vec \in [Mems -> Contents \cup {None}]
  /\ cache = None \/ cache \in Aggregates
  /\ actors \in [Actors -> Actor]
  /\ faults \in Nat

(* A memory that says something, a deleted one that says nothing; only what *)
(* has a row is indexed.                                                    *)
Filled == \A m \in Mems :
  /\ row[m].st \in {"active", "culled"} => row[m].content \in Contents
  /\ row[m].st = "gone" => row[m].content = None /\ row[m].imp = 0
  /\ vec[m] # None => row[m].st # "none"

(* Without failures a living memory is indexed, or its writer is about to. *)
Covered(m) == \/ vec[m] # None
              \/ \E a \in Actors : Indexing(actors[a]) /\ actors[a].mem = m

IInv ==
  /\ Types
  /\ \A a \in Actors : Fit(actors[a])
  /\ Filled
  /\ faults = 0 => \A m \in ActiveMems : Covered(m)

(* What a step may do to a row: a memory is born filled and never returns. *)
RowMoves ==
  /\ row' \in [Mems -> Row]
  /\ \A m \in Mems :
       /\ row[m].st # "none" => row'[m].st # "none"
       /\ row[m].st \in {"culled", "gone"} => row'[m].st \in {"culled", "gone"}
       /\ row'[m].st \in {"active", "culled"} => row'[m].content \in Contents
       /\ row'[m].st = "gone" => row'[m].content = None /\ row'[m].imp = 0

(* A step of actor a to q. *)
LEMMA StepIInv ==
  ASSUME IInv, NEW a \in Actors, NEW q \in Actor, actors' = [actors EXCEPT ![a] = q],
         RowMoves, vec' \in [Mems -> Contents \cup {None}],
         cache' = None \/ cache' \in Aggregates,
         UNCHANGED faults \/ Fails, Fit(q)',
         \A m \in Mems : vec'[m] # None => vec[m] # None \/ row'[m].st # "none",
         faults' = 0 => \A m \in Mems : Active(m)' =>
           \/ vec'[m] # None
           \/ Indexing(q) /\ q.mem = m
           \/ Active(m) /\ vec[m] = None /\ ~(Indexing(actors[a]) /\ actors[a].mem = m)
  PROVE  IInv'
<1>1. actors' \in [Actors -> Actor] /\ actors'[a] = q
  BY DEF IInv, Types
<1>2. \A b \in Actors : b # a => actors'[b] = actors[b]
  BY DEF IInv, Types
<1>3. faults' \in Nat /\ (faults' = 0 => faults = 0)
  BY DEF Fails, IInv, Types
<1>4. Types'
  BY <1>1, <1>3 DEF Types, RowMoves
<1>5. ASSUME NEW b \in Actors PROVE Fit(actors[b])'
  <2>1. CASE b = a
    BY <1>1, <2>1 DEF Fit, Indexing, Active
  <2>2. CASE b # a
    <3>1. Fit(actors[b]) /\ actors'[b] = actors[b] /\ actors[b] \in Actor
      BY <1>2, <2>2 DEF IInv, Types
    <3>2. \A m \in Mems : /\ row[m].st # "none" => row'[m].st # "none"
                          /\ row[m].st # "none" /\ ~Active(m) => ~Active(m)'
      <4>1. \A m \in Mems : row[m] \in Row
        BY DEF IInv, Types
      <4> QED
        BY <4>1 DEF RowMoves, Active, Row
    <3>3. actors[b].lose \subseteq Mems
      BY <3>1 DEF Actor
    <3> QED
      BY <3>1, <3>2, <3>3 DEF Fit, Indexing
  <2> QED
    BY <2>1, <2>2
<1>6. Filled'
  BY DEF Filled, IInv, RowMoves
<1>7. ASSUME faults' = 0, NEW m \in Mems, Active(m)' PROVE Covered(m)'
  <2>1. CASE vec'[m] # None
    BY <2>1 DEF Covered
  <2>2. CASE Indexing(q) /\ q.mem = m
    BY <1>1, <2>2 DEF Covered, Indexing
  <2>3. CASE Active(m) /\ vec[m] = None /\ ~(Indexing(actors[a]) /\ actors[a].mem = m)
    <3>1. PICK b \in Actors : Indexing(actors[b]) /\ actors[b].mem = m
      BY <1>3, <1>7, <2>3 DEF IInv, Covered, ActiveMems
    <3>2. actors'[b] = actors[b]
      BY <1>2, <2>3, <3>1
    <3> QED
      BY <3>1, <3>2 DEF Covered, Indexing
  <2> QED
    BY <1>7, <2>1, <2>2, <2>3
<1>8. faults' = 0 => \A m \in ActiveMems' : Covered(m)'
  BY <1>7 DEF ActiveMems
<1> QED
  BY <1>4, <1>5, <1>6, <1>8 DEF IInv

(* A step that leaves rows and vectors alone and no new memory behind. *)
LEMMA QuietIInv ==
  ASSUME IInv, NEW a \in Actors, NEW q \in Actor, actors' = [actors EXCEPT ![a] = q],
         UNCHANGED <<row, vec>>, cache' = None \/ cache' \in Aggregates,
         UNCHANGED faults \/ Fails, Fit(q),
         \/ faults' # 0
         \/ ~Indexing(actors[a])
         \/ Indexing(q) /\ q.mem = actors[a].mem
  PROVE  IInv'
<1>1. RowMoves
  <2>1. \A m \in Mems : row[m] \in Row
    BY DEF IInv, Types
  <2> QED
    BY <2>1 DEF RowMoves, IInv, Types, Filled, Row
<1>2. Fit(q)'
  BY DEF Fit, Active
<1> QED
  BY <1>1, <1>2, StepIInv DEF IInv, Types, Filled, Active

LEMMA IdleType == Idle \in Actor /\ Fit(Idle) /\ ~Indexing(Idle)
<1>1. Idle \in Actor
  BY UMAssumption DEF Idle, Actor, Pcs, Aggregates, NoEdit
<1>2. Fit(Idle) /\ ~Indexing(Idle)
  BY DEF Idle, Fit, Indexing, OnMemory
<1> QED
  BY <1>1, <1>2

LEMMA EndIInv ==
  ASSUME IInv, NEW a \in Actors, End(a), UNCHANGED <<row, vec>>,
         cache' = None \/ cache' \in Aggregates,
         Fails \/ (UNCHANGED faults /\ ~Indexing(actors[a]))
  PROVE  IInv'
<1>1. Fails => faults' # 0
  BY DEF Fails, IInv, Types
<1>2. actors' = [actors EXCEPT ![a] = Idle]
  BY DEF End, Become
<1> QED
  BY <1>1, <1>2, IdleType, QuietIInv

(* A record with a new pc, and the rest as it was. *)
LEMMA GotoType ==
  ASSUME NEW q \in Actor, NEW pc \in Pcs
  PROVE  LET r == [q EXCEPT !.pc = pc]
         IN /\ r \in Actor /\ r.pc = pc /\ r.mem = q.mem /\ r.next = q.next
            /\ r.content = q.content /\ r.lose = q.lose
BY DEF Actor

(* The actors' records are well typed, and so is the profile. *)
LEMMA ProfileType ==
  ASSUME IInv
  PROVE  Profile \in Aggregates
<1>1. \A m \in ActiveMems : row[m].content \in Contents /\ row[m].imp \in 0..TopImp
  BY DEF ActiveMems, Active, IInv, Types, Filled, Row
<1> QED
  BY <1>1 DEF Profile, Aggregates, ActiveMems

(* The steps that only read, or that write the cache. *)

LEMMA FreshIInv ==
  ASSUME IInv, NEW a \in Actors, At(a, "idle"), NEW q \in Actor, Fit(q),
         Become(a, q), UNCHANGED <<row, vec, cache, faults>>
  PROVE  IInv'
<1>1. ~Indexing(actors[a])
  BY DEF At, IInv, Fit
<1> QED
  BY <1>1, QuietIInv DEF Become, IInv, Types

LEMMA InvalidateIInv ==
  ASSUME IInv, NEW a \in Actors, Invalidate(a)
  PROVE  IInv'
<1> DEFINE q == [actors[a] EXCEPT !.pc = actors[a].next]
<1>1. /\ actors[a] \in Actor /\ Fit(actors[a]) /\ UNCHANGED <<row, vec, faults>>
      /\ cache' = None
  BY DEF Invalidate, IInv, Types
<1>2. CASE actors[a].next = "idle"
  BY <1>1, <1>2, EndIInv DEF Invalidate, Indexing
<1>3. CASE actors[a].next # "idle"
  <2>1. actors[a].next \in {"index", "invalidate", "decay"}
    BY <1>1, <1>3 DEF Actor
  <2>2. actors[a].next \in Pcs
    BY <2>1 DEF Pcs, OnMemory, JanitorSteps
  <2>3. /\ q \in Actor /\ q.pc = actors[a].next /\ q.mem = actors[a].mem
        /\ q.next = actors[a].next /\ q.content = actors[a].content
        /\ q.lose = actors[a].lose
    BY <1>1, <2>2, GotoType
  <2>4. actors' = [actors EXCEPT ![a] = q]
    BY <1>3 DEF Invalidate, Goto, Become
  <2> HIDE DEF q
  <2>5. Fit(q)
    BY <1>1, <2>1, <2>3 DEF Fit, Indexing, OnMemory
  <2>6. Indexing(actors[a]) => Indexing(q)
    BY <2>3 DEF Indexing
  <2> QED
    BY <1>1, <2>3, <2>4, <2>5, <2>6, QuietIInv
<1> QED
  BY <1>2, <1>3

LEMMA ProfileIInv ==
  ASSUME IInv, NEW a \in Actors, ReadProfile(a) \/ WriteBack(a)
  PROVE  IInv'
<1>1. CASE ReadProfile(a)
  <2> DEFINE q == [Idle EXCEPT !.pc = "writeBack", !.todo = Profile]
  <2>1. "writeBack" \in Pcs
    BY DEF Pcs
  <2>2. q \in Actor
    BY <2>1, IdleType, ProfileType DEF Actor
  <2>3. Fit(q)
    BY DEF Idle, Fit, Indexing, OnMemory
  <2> HIDE DEF q
  <2> QED
    BY <1>1, <2>2, <2>3, FreshIInv DEF ReadProfile, q
<1>2. CASE WriteBack(a)
  <2>1. cache' \in Aggregates
    BY <1>2 DEF WriteBack, IInv, Types, Actor
  <2>2. ~Indexing(actors[a])
    BY <1>2 DEF WriteBack, At, IInv, Fit
  <2> QED
    BY <1>2, <2>1, <2>2, EndIInv DEF WriteBack
<1> QED
  BY <1>1, <1>2

(* Writing memories: each names one memory. *)

LEMMA PersistIInv ==
  ASSUME IInv, NEW a \in Actors, NEW m \in Mems, NEW c \in Contents, NEW imp \in 0..TopImp,
         Persist(a, m, c, imp)
  PROVE  IInv'
<1> DEFINE p == [Idle EXCEPT !.pc = "invalidate", !.mem = m, !.content = c]
           q == [p EXCEPT !.next = "index"]
           r == [NoRow EXCEPT !.st = "active", !.content = c, !.imp = imp]
<1>1. /\ actors' = [actors EXCEPT ![a] = q] /\ At(a, "idle") /\ row[m].st = "none"
      /\ row' = [row EXCEPT ![m] = r] /\ UNCHANGED <<vec, cache, faults>>
  BY DEF Persist, Become, Idle
<1>2. r \in Row /\ r.st = "active" /\ r.content = c
  BY DEF NoRow, Row
<1>3. "invalidate" \in Pcs
  BY DEF Pcs
<1>4. p \in Actor
  BY <1>3, IdleType DEF Actor
<1>5. p.pc = "invalidate" /\ p.mem = m /\ p.content = c /\ p.lose = {}
  BY DEF Idle
<1> HIDE DEF p, r
<1>6. /\ q \in Actor /\ q.pc = "invalidate" /\ q.mem = m /\ q.content = c
      /\ q.lose = {} /\ q.next = "index"
  BY <1>4, <1>5 DEF Actor
<1> HIDE DEF q
<1>7. row' \in [Mems -> Row] /\ row'[m] = r /\ \A n \in Mems : n # m => row'[n] = row[n]
  BY <1>1, <1>2 DEF IInv, Types
<1>8. RowMoves
  <2>1. \A n \in Mems : row[n] \in Row
    BY DEF IInv, Types
  <2> QED
    BY <1>1, <1>2, <1>7, <2>1 DEF RowMoves, IInv, Filled, Row
<1>9. Fit(q)'
  BY <1>2, <1>6, <1>7 DEF Fit, Indexing, OnMemory
<1>10. ~Indexing(actors[a])
  BY <1>1 DEF At, IInv, Fit
<1>11. \A n \in Mems : Active(n)' => (Indexing(q) /\ q.mem = n) \/ (Active(n) /\ UNCHANGED vec)
  BY <1>1, <1>6, <1>7 DEF Active, Indexing
<1> QED
  BY <1>1, <1>6, <1>8, <1>9, <1>10, <1>11, StepIInv DEF IInv, Types

LEMMA IndexIInv ==
  ASSUME IInv, NEW a \in Actors, Index(a)
  PROVE  IInv'
<1> DEFINE m == actors[a].mem
           c == actors[a].content
           next == IF At(a, "index") THEN Idle ELSE [actors[a] EXCEPT !.pc = "invalidate"]
<1>1. actors[a] \in Actor /\ Fit(actors[a]) /\ UNCHANGED <<row, cache>>
  BY DEF Index, IInv, Types
<1>2. /\ At(a, "index") \/ At(a, "reindex")
      /\ actors' = [actors EXCEPT ![a] = next]
      /\ \/ UNCHANGED faults /\ vec' = [vec EXCEPT ![m] = c]
         \/ Fails /\ UNCHANGED vec
  BY DEF Index, Works, End, Goto, Become, At
<1>3. m \in Mems /\ row[m].st # "none" /\ c \in Contents
  BY <1>1, <1>2 DEF Fit, At, OnMemory
<1>4. next \in Actor /\ Fit(next)
  <2>1. CASE At(a, "index")
    BY <2>1, IdleType
  <2>2. CASE ~At(a, "index")
    <3> DEFINE r == [actors[a] EXCEPT !.pc = "invalidate"]
    <3>1. "invalidate" \in Pcs
      BY DEF Pcs
    <3>2. /\ r \in Actor /\ r.pc = "invalidate" /\ r.next = actors[a].next
          /\ r.lose = actors[a].lose
      BY <1>1, <3>1, GotoType
    <3>3. ~Indexing(actors[a])
      BY <1>1, <1>2, <2>2 DEF Fit, At
    <3> HIDE DEF r
    <3>4. Fit(r)
      BY <1>1, <3>2, <3>3 DEF Fit, Indexing, OnMemory
    <3> QED
      BY <2>2, <3>2, <3>4 DEF r
  <2> QED
    BY <2>1, <2>2
<1>9. PICK q \in Actor : q = next
  BY <1>4
<1> HIDE DEF next
<1>5. RowMoves
  <2>1. \A n \in Mems : row[n] \in Row
    BY DEF IInv, Types
  <2> QED
    BY <1>1, <2>1 DEF RowMoves, IInv, Types, Filled, Row
<1>6. Fit(q)'
  BY <1>1, <1>4, <1>9 DEF Fit, Active
<1>7. CASE UNCHANGED faults /\ vec' = [vec EXCEPT ![m] = c]
  <2>1. vec' \in [Mems -> Contents \cup {None}]
    BY <1>3, <1>7 DEF IInv, Types
  <2>2. vec'[m] = c /\ \A n \in Mems : n # m => vec'[n] = vec[n]
    BY <1>3, <1>7 DEF IInv, Types
  <2>3. \A n \in Mems : vec'[n] # None => vec[n] # None \/ row'[n].st # "none"
    BY <1>1, <1>3, <2>2
  <2>4. \A n \in Mems : vec'[n] # None
          \/ (vec[n] = None /\ ~(Indexing(actors[a]) /\ actors[a].mem = n))
    BY <1>3, <2>2, UMAssumption DEF Indexing
  <2>5. \A n \in Mems : Active(n)' => Active(n)
    BY <1>1 DEF Active
  <2> QED
    BY <1>1, <1>2, <1>5, <1>6, <1>9, <1>7, <2>1, <2>3, <2>4, <2>5, StepIInv
    DEF IInv, Types
<1>8. CASE Fails /\ UNCHANGED vec
  <2>1. faults' # 0
    BY <1>8 DEF Fails, IInv, Types
  <2> QED
    BY <1>1, <1>2, <1>4, <1>8, <1>9, <2>1, QuietIInv DEF IInv, Types
<1> QED
  BY <1>2, <1>7, <1>8

(* A step that changes rows, and makes none active. *)
LEMMA RowsIInv ==
  ASSUME IInv, NEW a \in Actors, NEW q \in Actor, actors' = [actors EXCEPT ![a] = q],
         RowMoves, UNCHANGED <<vec, cache, faults>>, Fit(q)',
         ~Indexing(actors[a]), \A m \in Mems : Active(m)' => Active(m)
  PROVE  IInv'
BY StepIInv DEF IInv, Types

(* An actor at a memory. *)
LEMMA OnRow ==
  ASSUME IInv, NEW a \in Actors, actors[a].pc \in OnMemory \ {"index"}
  PROVE  /\ actors[a] \in Actor /\ actors[a].mem \in Mems
         /\ row[actors[a].mem].st # "none" /\ ~Indexing(actors[a])
BY DEF IInv, Types, Fit, OnMemory

LEMMA PatchIInv ==
  ASSUME IInv, NEW a \in Actors, NEW m \in Mems, NEW c \in Contents \cup {None},
         NEW imp \in NoEdit..TopImp, Patch(a, m, c, imp)
  PROVE  IInv'
<1> DEFINE p == [Idle EXCEPT !.pc = "patch", !.mem = m]
           q == [p EXCEPT !.content = c, !.imp = imp]
<1>1. /\ At(a, "idle") /\ Active(m) /\ Become(a, q)
      /\ UNCHANGED <<row, vec, cache, faults>>
  BY DEF Patch, Idle
<1>2. "patch" \in Pcs
  BY DEF Pcs, OnMemory
<1>3. p \in Actor /\ p.pc = "patch" /\ p.mem = m
  BY <1>2, IdleType DEF Actor
<1>4. p.lose = {} /\ p.next = "idle"
  BY DEF Idle
<1> HIDE DEF p
<1>5. /\ q \in Actor /\ q.pc = "patch" /\ q.mem = m /\ q.lose = {} /\ q.next = "idle"
  BY <1>3, <1>4 DEF Actor
<1> HIDE DEF q
<1>6. Fit(q)
  BY <1>1, <1>5 DEF Fit, Indexing, Active, OnMemory
<1> QED
  BY <1>1, <1>5, <1>6, FreshIInv

LEMMA DeleteMemoryIInv ==
  ASSUME IInv, NEW a \in Actors, NEW m \in Mems, DeleteMemory(a, m)
  PROVE  IInv'
<1> DEFINE q == [Idle EXCEPT !.pc = "delete", !.mem = m]
<1>1. /\ At(a, "idle") /\ Active(m) /\ Become(a, q)
      /\ UNCHANGED <<row, vec, cache, faults>>
  BY DEF DeleteMemory
<1>2. "delete" \in Pcs
  BY DEF Pcs, OnMemory
<1>3. q \in Actor /\ q.pc = "delete" /\ q.mem = m
  BY <1>2, IdleType DEF Actor
<1>4. q.lose = {} /\ q.next = "idle"
  BY DEF Idle
<1> HIDE DEF q
<1>5. Fit(q)
  BY <1>1, <1>3, <1>4 DEF Fit, Indexing, Active, OnMemory
<1> QED
  BY <1>1, <1>3, <1>5, FreshIInv

LEMMA DeleteCommitIInv ==
  ASSUME IInv, NEW a \in Actors, DeleteCommit(a)
  PROVE  IInv'
<1>1. PICK m \in Mems : /\ m = actors[a].mem /\ row[m].st # "none"
                        /\ ~Indexing(actors[a])
  BY OnRow DEF DeleteCommit, At, OnMemory
<1> DEFINE p == [Idle EXCEPT !.pc = "unindex", !.lose = {m}]
           q == [p EXCEPT !.next = "invalidate"]
           r == [NoRow EXCEPT !.st = "gone"]
<1>2. /\ row' = [row EXCEPT ![m] = r] /\ actors' = [actors EXCEPT ![a] = q]
      /\ UNCHANGED <<vec, cache, faults>>
  BY <1>1 DEF DeleteCommit, Become, Idle
<1>3. r \in Row /\ r.st = "gone" /\ r.content = None /\ r.imp = 0
  BY UMAssumption DEF NoRow, Row
<1>4. "unindex" \in Pcs
  BY DEF Pcs
<1>5. p \in Actor /\ p.pc = "unindex" /\ p.lose = {m}
  BY <1>4, IdleType DEF Actor
<1> HIDE DEF p, r
<1>6. q \in Actor /\ q.pc = "unindex" /\ q.lose = {m} /\ q.next = "invalidate"
  BY <1>5 DEF Actor
<1> HIDE DEF q
<1>7. row' \in [Mems -> Row] /\ row'[m] = r /\ \A n \in Mems : n # m => row'[n] = row[n]
  BY <1>2, <1>3 DEF IInv, Types
<1>8. RowMoves
  <2>1. \A n \in Mems : row[n] \in Row
    BY DEF IInv, Types
  <2> QED
    BY <1>3, <1>7, <2>1 DEF RowMoves, IInv, Filled, Row
<1>9. Fit(q)'
  BY <1>3, <1>6, <1>7 DEF Fit, Indexing, OnMemory, Active
<1>10. \A n \in Mems : Active(n)' => Active(n)
  BY <1>3, <1>7 DEF Active
<1> QED
  BY <1>1, <1>2, <1>6, <1>8, <1>9, <1>10, RowsIInv

LEMMA PatchCommitIInv ==
  ASSUME IInv, NEW a \in Actors, PatchCommit(a)
  PROVE  IInv'
<1>1. PICK m \in Mems : /\ m = actors[a].mem /\ row[m].st # "none" /\ actors[a] \in Actor
                        /\ ~Indexing(actors[a])
  BY OnRow DEF PatchCommit, At, OnMemory
<1> DEFINE c == IF actors[a].content = None THEN row[m].content ELSE actors[a].content
           imp == IF actors[a].imp = NoEdit THEN row[m].imp ELSE actors[a].imp
           r == [row[m] EXCEPT !.content = c, !.imp = imp]
           next == [actors[a] EXCEPT !.pc = "refresh"]
<1>2. CASE row[m].st = "gone"
  BY <1>1, <1>2, EndIInv DEF PatchCommit, IInv, Types
<1>3. CASE row[m].st # "gone"
  <2>1. /\ row' = [row EXCEPT ![m] = r] /\ actors' = [actors EXCEPT ![a] = next]
        /\ UNCHANGED <<vec, cache, faults>>
    BY <1>1, <1>3 DEF PatchCommit, Goto, Become
  <2>2. row[m] \in Row /\ (row[m].st = "active" \/ row[m].st = "culled")
    BY <1>1, <1>3 DEF IInv, Types, Row
  <2>3. c \in Contents
    BY <1>1, <2>2 DEF Actor, IInv, Filled
  <2>4. imp \in 0..TopImp
    BY <1>1, <2>2, UMAssumption DEF Actor, Row, NoEdit
  <2> HIDE DEF c, imp
  <2>5. r \in Row /\ r.st = row[m].st /\ r.content = c
    BY <2>2, <2>3, <2>4 DEF Row
  <2> HIDE DEF r
  <2>6. "refresh" \in Pcs
    BY DEF Pcs, OnMemory
  <2>7. /\ next \in Actor /\ next.pc = "refresh" /\ next.mem = m
        /\ next.next = actors[a].next /\ next.lose = actors[a].lose
    BY <1>1, <2>6, GotoType
  <2>8. PICK q \in Actor : q = next
    BY <2>7
  <2>9. /\ row' \in [Mems -> Row] /\ row'[m] = r
        /\ \A n \in Mems : n # m => row'[n] = row[n]
    BY <2>1, <2>5 DEF IInv, Types
  <2>10. RowMoves
    <3>1. \A n \in Mems : row[n] \in Row
      BY DEF IInv, Types
    <3> QED
      BY <2>2, <2>3, <2>5, <2>9, <3>1 DEF RowMoves, IInv, Filled, Row
  <2>11. \A n \in Mems : row'[n].st = row[n].st
    BY <2>5, <2>9
  <2>12. Fit(q)'
    <3>1. \A n \in actors[a].lose : n \in Mems /\ row[n].st # "none"
      BY <1>1 DEF IInv, Fit, Actor
    <3> HIDE DEF next
    <3>2. q.pc = "refresh" /\ q.mem = m /\ q.next # "index"
      BY <1>1, <2>7, <2>8 DEF Indexing
    <3>3. \A n \in q.lose : row'[n].st # "none"
      BY <2>7, <2>8, <2>11, <3>1
    <3>4. row'[m].st # "none"
      BY <1>1, <2>11
    <3> QED
      BY <3>2, <3>3, <3>4 DEF Fit, Indexing, OnMemory
  <2>13. \A n \in Mems : Active(n)' => Active(n)
    BY <2>11 DEF Active
  <2> HIDE DEF next
  <2> QED
    BY <1>1, <2>1, <2>8, <2>10, <2>12, <2>13, RowsIInv
<1> QED
  BY <1>2, <1>3

LEMMA PatchRefreshIInv ==
  ASSUME IInv, NEW a \in Actors, PatchRefresh(a)
  PROVE  IInv'
<1>1. PICK m \in Mems : /\ m = actors[a].mem /\ row[m].st # "none"
                        /\ ~Indexing(actors[a]) /\ UNCHANGED <<row, vec, cache, faults>>
  BY OnRow DEF PatchRefresh, At, OnMemory
<1>2. CASE row[m].st = "gone"
  BY <1>1, <1>2, EndIInv DEF PatchRefresh, IInv, Types
<1>3. CASE row[m].st # "gone"
  <2> DEFINE c == row[m].content
             q == [Idle EXCEPT !.pc = "reindex", !.mem = m, !.content = c]
  <2>1. c \in Contents
    BY <1>1, <1>3 DEF IInv, Types, Filled, Row
  <2>2. actors' = [actors EXCEPT ![a] = q]
    BY <1>1, <1>3 DEF PatchRefresh, Become
  <2> HIDE DEF c
  <2>3. "reindex" \in Pcs
    BY DEF Pcs, OnMemory
  <2>4. q \in Actor /\ q.pc = "reindex" /\ q.mem = m /\ q.content = c
    BY <2>1, <2>3, IdleType DEF Actor
  <2>5. q.lose = {} /\ q.next = "idle"
    BY DEF Idle
  <2> HIDE DEF q
  <2>6. Fit(q)
    BY <1>1, <2>1, <2>4, <2>5 DEF Fit, Indexing, OnMemory
  <2> QED
    BY <1>1, <2>2, <2>4, <2>6, QuietIInv DEF IInv, Types
<1> QED
  BY <1>2, <1>3

(* One vector at a time; after the last one the actor goes on. *)
LEMMA UnindexStep ==
  ASSUME IInv, NEW a \in Actors, Unindex(a)
  PROVE  \E m \in actors[a].lose : \E q \in Actor :
           /\ Become(a, q)
           /\ \/ Works /\ vec' = [vec EXCEPT ![m] = None]
              \/ Fails /\ UNCHANGED vec
           /\ \/ q.pc = actors[a].next /\ q.next = "idle" /\ q.lose = {}
              \/ q.pc = "unindex" /\ q.next = actors[a].next /\ q.lose = actors[a].lose \ {m}
           /\ q.todo = actors[a].todo /\ q.changed = actors[a].changed
<1>1. PICK m \in actors[a].lose :
        /\ \/ Works /\ vec' = [vec EXCEPT ![m] = None]
           \/ Fails /\ UNCHANGED vec
        /\ Become(a, IF actors[a].lose = {m}
                      THEN [actors[a] EXCEPT !.pc = actors[a].next, !.next = "idle",
                                             !.lose = {}]
                      ELSE [actors[a] EXCEPT !.lose = @ \ {m}])
  BY Zenon DEF Unindex
<1>2. actors[a] \in Actor /\ actors[a].pc = "unindex" /\ actors[a].next \in Pcs
  BY DEF Unindex, IInv, Types, Fit, At, Pcs, JanitorSteps
<1> DEFINE last == [actors[a] EXCEPT !.pc = actors[a].next, !.next = "idle", !.lose = {}]
           more == [actors[a] EXCEPT !.lose = @ \ {m}]
<1>3. CASE actors[a].lose = {m}
  <2>1. /\ last \in Actor /\ last.pc = actors[a].next /\ last.next = "idle" /\ last.lose = {}
        /\ last.todo = actors[a].todo /\ last.changed = actors[a].changed
    BY <1>2 DEF Actor
  <2>2. Become(a, last)
    BY <1>1, <1>3
  <2> HIDE DEF last
  <2> QED
    BY <1>1, <2>1, <2>2
<1>4. CASE actors[a].lose # {m}
  <2>1. /\ more \in Actor /\ more.pc = "unindex" /\ more.next = actors[a].next
        /\ more.lose = actors[a].lose \ {m}
        /\ more.todo = actors[a].todo /\ more.changed = actors[a].changed
    BY <1>2 DEF Actor
  <2>2. Become(a, more)
    BY <1>1, <1>4
  <2> HIDE DEF more
  <2> QED
    BY <1>1, <2>1, <2>2
<1> QED
  BY <1>3, <1>4

LEMMA UnindexIInv ==
  ASSUME IInv, NEW a \in Actors, Unindex(a)
  PROVE  IInv'
<1>1. PICK m \in actors[a].lose : \E q \in Actor :
        /\ Become(a, q)
        /\ \/ Works /\ vec' = [vec EXCEPT ![m] = None]
           \/ Fails /\ UNCHANGED vec
        /\ \/ q.pc = actors[a].next /\ q.next = "idle" /\ q.lose = {}
           \/ q.pc = "unindex" /\ q.next = actors[a].next /\ q.lose = actors[a].lose \ {m}
  BY UnindexStep
<1>2. PICK q \in Actor :
        /\ Become(a, q)
        /\ \/ Works /\ vec' = [vec EXCEPT ![m] = None]
           \/ Fails /\ UNCHANGED vec
        /\ \/ q.pc = actors[a].next /\ q.next = "idle" /\ q.lose = {}
           \/ q.pc = "unindex" /\ q.next = actors[a].next /\ q.lose = actors[a].lose \ {m}
  BY <1>1
<1>3. /\ actors[a] \in Actor /\ UNCHANGED <<row, cache>>
      /\ ~Indexing(actors[a]) /\ actors[a].next \in {"invalidate", "decay"}
      /\ \A n \in actors[a].lose : n \in Mems /\ row[n].st # "none" /\ ~Active(n)
  BY DEF Unindex, IInv, Types, Fit, At, Actor
<1>4. Fit(q) /\ Fit(q)'
  BY <1>2, <1>3 DEF Fit, Indexing, OnMemory, Active
<1>5. actors' = [actors EXCEPT ![a] = q]
  BY <1>2 DEF Become
<1>6. CASE Fails /\ UNCHANGED vec
  BY <1>3, <1>4, <1>5, <1>6, QuietIInv DEF IInv, Types
<1>7. CASE Works /\ vec' = [vec EXCEPT ![m] = None]
  <2>1. vec' \in [Mems -> Contents \cup {None}]
    BY <1>7 DEF IInv, Types
  <2>2. \A n \in Mems : vec'[n] = IF n = m THEN None ELSE vec[n]
    BY <1>7 DEF IInv, Types
  <2>3. RowMoves
    <3>1. \A n \in Mems : row[n] \in Row
      BY DEF IInv, Types
    <3> QED
      BY <1>3, <3>1 DEF RowMoves, IInv, Types, Filled, Row
  <2>4. \A n \in Mems : Active(n)' => Active(n) /\ n # m
    BY <1>3 DEF Active
  <2> QED
    BY <1>3, <1>4, <1>5, <1>7, <2>1, <2>2, <2>3, <2>4, StepIInv DEF IInv, Types, Works
<1> QED
  BY <1>2, <1>6, <1>7

(* The janitor, which indexes nothing. *)
LEMMA AtJanitor ==
  ASSUME IInv, NEW a \in Actors, actors[a].pc \in JanitorSteps
  PROVE  /\ actors[a] \in Actor /\ ~Indexing(actors[a])
         /\ \A m \in actors[a].lose : m \in Mems /\ row[m].st # "none"
BY DEF IInv, Types, Fit, JanitorSteps, Actor

LEMMA StartJanitorIInv ==
  ASSUME IInv, NEW a \in Actors, StartJanitor(a)
  PROVE  IInv'
<1>1. PICK pc \in {"decay", "dedup"} :
        /\ At(a, "idle") /\ UNCHANGED <<row, vec, cache, faults>>
        /\ Become(a, [Idle EXCEPT !.pc = pc, !.todo = Profile])
  BY DEF StartJanitor
<1> DEFINE q == [Idle EXCEPT !.pc = pc, !.todo = Profile]
<1>2. pc \in Pcs
  BY DEF Pcs, JanitorSteps
<1>3. q \in Actor /\ q.pc = pc
  BY <1>2, IdleType, ProfileType DEF Actor
<1>4. q.lose = {} /\ q.next = "idle"
  BY DEF Idle
<1>5. Become(a, q)
  BY <1>1
<1> HIDE DEF q
<1>6. Fit(q)
  BY <1>3, <1>4 DEF Fit, Indexing, OnMemory
<1> QED
  BY <1>1, <1>3, <1>5, <1>6, FreshIInv

(* A janitor's step that changes no row: what it will drop has rows. *)
LEMMA JanitorIInv ==
  ASSUME IInv, NEW a \in Actors, actors[a].pc \in JanitorSteps,
         NEW q \in Actor, Become(a, q), q.pc \in JanitorSteps \cup {"invalidate", "idle"},
         q.next # "index", \A m \in q.lose : row[m].st # "none",
         UNCHANGED <<row, vec, cache>>, UNCHANGED faults \/ Fails
  PROVE  IInv'
<1>1. Fit(q)
  BY DEF Fit, Indexing, OnMemory, JanitorSteps
<1> QED
  BY <1>1, AtJanitor, QuietIInv DEF Become, IInv, Types

(* A search finds memories that say what it asks for, all of them within    *)
(* the limit.                                                              *)
LEMMA Found ==
  ASSUME NEW c, NEW found \in Neighbors(c)
  PROVE  /\ \A n \in found : n \in Mems /\ vec[n] = c
         /\ WithinLimit(c) => found = {n \in Mems : vec[n] = c}
BY DEF Neighbors, kSubset, WithinLimit

LEMMA DedupIInv ==
  ASSUME IInv, NEW a \in Actors, DedupLeader(a)
  PROVE  IInv'
<1>1. /\ actors[a].pc \in JanitorSteps /\ UNCHANGED <<row, vec, cache>>
      /\ UNCHANGED faults \/ Fails
  BY DEF DedupLeader, At, JanitorSteps, Works
<1>2. /\ actors[a] \in Actor /\ actors[a].next # "index"
      /\ \A m \in actors[a].lose : m \in Mems /\ row[m].st # "none"
  BY <1>1, AtJanitor DEF Indexing
<1>3. ASSUME NEW pc \in {"decay", "cull"}, Goto(a, pc)
      PROVE  IInv'
  <2> DEFINE next == [actors[a] EXCEPT !.pc = pc]
  <2>1. pc \in Pcs
    BY DEF Pcs, JanitorSteps
  <2>2. /\ next \in Actor /\ next.pc = pc /\ next.next = actors[a].next
        /\ next.lose = actors[a].lose
    BY <1>2, <2>1, GotoType
  <2>3. Become(a, next)
    BY <1>3 DEF Goto
  <2> HIDE DEF next
  <2> QED
    BY <1>1, <1>2, <2>2, <2>3, JanitorIInv DEF JanitorSteps
<1>4. ASSUME NEW lose \in SUBSET Mems, NEW todo \in Aggregates,
             \A m \in lose : row[m].st # "none",
             Become(a, [actors[a] EXCEPT !.lose = lose, !.todo = todo])
      PROVE  IInv'
  <2> DEFINE next == [actors[a] EXCEPT !.lose = lose, !.todo = todo]
  <2>1. /\ next \in Actor /\ next.pc = actors[a].pc /\ next.next = actors[a].next
        /\ next.lose = lose
    BY <1>2 DEF Actor
  <2>2. Become(a, next)
    BY <1>4
  <2> HIDE DEF next
  <2> QED
    BY <1>1, <1>2, <1>4, <2>1, <2>2, JanitorIInv
<1>5. actors[a].lose \in SUBSET Mems /\ actors[a].todo \in Aggregates
  BY <1>2 DEF Actor
<1>6. ASSUME NEW x \in actors[a].todo, NEW found \in Neighbors(x[2]),
             Become(a, [actors[a] EXCEPT
                !.lose = @ \cup (found \ {x[1]}),
                !.todo = {y \in @ \ {x} : y[1] \notin found}])
      PROVE  IInv'
  <2> DEFINE lose == actors[a].lose \cup (found \ {x[1]})
             todo == {y \in actors[a].todo \ {x} : y[1] \notin found}
  <2>1. x[2] \in Contents
    BY <1>5 DEF Aggregates
  <2>2. \A n \in found : n \in Mems /\ vec[n] = x[2]
    BY Found
  <2>3. \A n \in found : row[n].st # "none"
    BY <2>1, <2>2, UMAssumption DEF IInv, Filled
  <2>4. Become(a, [actors[a] EXCEPT !.lose = lose, !.todo = todo])
    BY <1>6
  <2>5. lose \in SUBSET Mems /\ todo \in Aggregates /\ \A m \in lose : row[m].st # "none"
    BY <1>2, <1>5, <2>2, <2>3 DEF Aggregates
  <2> HIDE DEF lose, todo
  <2> QED
    BY <1>4, <2>4, <2>5
<1>7. ASSUME NEW x \in actors[a].todo,
             Become(a, [actors[a] EXCEPT !.todo = @ \ {x}])
      PROVE  IInv'
  <2> DEFINE todo == actors[a].todo \ {x}
  <2>1. todo \in Aggregates
    BY <1>5 DEF Aggregates
  <2>2. [actors[a] EXCEPT !.todo = @ \ {x}]
          = [actors[a] EXCEPT !.lose = actors[a].lose, !.todo = todo]
    BY <1>2 DEF Actor
  <2> HIDE DEF todo
  <2> QED
    BY <1>2, <1>4, <1>5, <1>7, <2>1, <2>2
<1> QED
  BY <1>3, <1>6, <1>7 DEF DedupLeader

LEMMA CullIInv ==
  ASSUME IInv, NEW a \in Actors, actors[a].pc \in JanitorSteps,
         NEW then \in {"decay", "invalidate"}, Culls(a, then)
  PROVE  IInv'
<1> DEFINE lose == actors[a].lose
           changed == actors[a].changed \/ \E m \in lose : Active(m)
           next == [actors[a] EXCEPT !.pc = "unindex", !.next = then, !.changed = changed]
<1>1. /\ actors[a] \in Actor /\ ~Indexing(actors[a])
      /\ \A m \in lose : m \in Mems /\ row[m].st # "none"
  BY AtJanitor
<1>2. actors' = [actors EXCEPT ![a] = next] /\ UNCHANGED <<vec, cache, faults>>
  BY DEF Culls, Become
<1>3. row' = [m \in Mems |-> IF m \in lose /\ Active(m)
                THEN [NoRow EXCEPT !.st = "culled", !.content = row[m].content]
                ELSE row[m]]
  BY DEF Culls, SoftDelete
<1>4. changed \in BOOLEAN
  BY <1>1 DEF Actor
<1>5. "unindex" \in Pcs
  BY DEF Pcs
<1> HIDE DEF changed
<1>6. next \in Actor /\ next.pc = "unindex" /\ next.next = then /\ next.lose = lose
  BY <1>1, <1>4, <1>5 DEF Actor
<1>7. PICK q \in Actor : q = next
  BY <1>6
<1> HIDE DEF next
<1>8. \A m \in Mems : row[m] \in Row /\ (Active(m) => row[m].content \in Contents)
  BY DEF IInv, Types, Filled, Active
<1>9. ASSUME NEW m \in Mems
      PROVE  /\ row'[m] \in Row
             /\ IF m \in lose /\ Active(m)
                THEN row'[m].st = "culled" /\ row'[m].content = row[m].content
                ELSE row'[m] = row[m]
  <2> DEFINE c == row[m].content
             r == [NoRow EXCEPT !.st = "culled", !.content = c]
  <2>1. c \in Contents \cup {None}
    BY <1>8 DEF Row
  <2>2. row'[m] = IF m \in lose /\ Active(m) THEN r ELSE row[m]
    BY <1>3
  <2> HIDE DEF c
  <2>3. NoRow \in Row
    BY UMAssumption DEF Row, NoRow
  <2>4. r \in Row
    BY <2>1, <2>3 DEF Row
  <2>5. r.st = "culled" /\ r.content = c
    BY DEF NoRow
  <2> HIDE DEF r
  <2> QED
    BY <1>8, <2>2, <2>4, <2>5 DEF c
<1>10. RowMoves
  <2>1. row' \in [Mems -> Row]
    BY <1>3, <1>9
  <2> QED
    BY <1>8, <1>9, <2>1 DEF RowMoves, IInv, Filled, Row, Active
<1>11. \A m \in Mems : Active(m)' => Active(m) /\ m \notin lose
  BY <1>9 DEF Active
<1>12. \A m \in Mems : row[m].st # "none" => row'[m].st # "none"
  BY <1>10 DEF RowMoves
<1>13. Fit(q)'
  <2>1. q.pc = "unindex" /\ q.next = then /\ q.lose = lose
    BY <1>6, <1>7
  <2>2. \A m \in q.lose : row'[m].st # "none" /\ ~Active(m)'
    BY <1>1, <1>11, <1>12, <2>1
  <2> QED
    BY <2>1, <2>2 DEF Fit, Indexing, OnMemory
<1> QED
  BY <1>1, <1>2, <1>7, <1>10, <1>11, <1>13, RowsIInv

LEMMA DecayIInv ==
  ASSUME IInv, NEW a \in Actors, Decay(a)
  PROVE  IInv'
<1>1. PICK hit \in SUBSET ActiveMems :
        /\ At(a, "decay")
        /\ row' = [m \in Mems |-> IF m \in hit /\ row[m].imp > 0
                                  THEN [row[m] EXCEPT !.imp = @ - 1] ELSE row[m]]
        /\ Become(a, [actors[a] EXCEPT !.pc = "evict", !.changed = @ \/ hit # {}])
        /\ UNCHANGED <<vec, cache, faults>>
  BY DEF Decay
<1> DEFINE changed == actors[a].changed \/ hit # {}
           next == [actors[a] EXCEPT !.pc = "evict", !.changed = changed]
<1>2. /\ actors[a] \in Actor /\ ~Indexing(actors[a])
      /\ \A m \in actors[a].lose : m \in Mems /\ row[m].st # "none"
  BY <1>1, AtJanitor DEF At, JanitorSteps
<1>3. changed \in BOOLEAN
  BY <1>2 DEF Actor
<1>4. "evict" \in Pcs
  BY DEF Pcs, JanitorSteps
<1>5. actors' = [actors EXCEPT ![a] = next]
  BY <1>1 DEF Become
<1> HIDE DEF changed
<1>6. /\ next \in Actor /\ next.pc = "evict" /\ next.next = actors[a].next
      /\ next.lose = actors[a].lose
  BY <1>2, <1>3, <1>4 DEF Actor
<1>7. PICK q \in Actor : q = next
  BY <1>6
<1> HIDE DEF next
<1>8. ASSUME NEW m \in Mems
      PROVE  /\ row[m] \in Row /\ row'[m] \in Row
             /\ row'[m].st = row[m].st /\ row'[m].content = row[m].content
             /\ row[m].imp = 0 => row'[m] = row[m]
  <2>1. row[m] \in Row /\ row[m].imp \in 0..TopImp
    BY DEF IInv, Types, Row
  <2>2. row[m].imp > 0 => row[m].imp - 1 \in 0..TopImp
    BY <2>1, UMAssumption
  <2> DEFINE less == row[m].imp - 1
             r == [row[m] EXCEPT !.imp = less]
  <2>3. row'[m] = IF m \in hit /\ row[m].imp > 0 THEN r ELSE row[m]
    BY <1>1
  <2> HIDE DEF less
  <2>4. less \in 0..TopImp => r \in Row /\ r.st = row[m].st /\ r.content = row[m].content
    BY <2>1 DEF Row
  <2> HIDE DEF r
  <2> QED
    BY <2>1, <2>2, <2>3, <2>4 DEF less
<1>9. RowMoves
  <2>1. row' \in [Mems -> Row]
    BY <1>1, <1>8
  <2> QED
    BY <1>8, <2>1 DEF RowMoves, IInv, Filled, Row
<1>10. Fit(q)'
  <2>1. q.pc = "evict" /\ q.next # "index" /\ q.lose = actors[a].lose
    BY <1>2, <1>6, <1>7 DEF Indexing
  <2>2. \A m \in q.lose : row'[m].st # "none"
    BY <1>2, <1>8, <2>1
  <2> QED
    BY <2>1, <2>2 DEF Fit, Indexing, OnMemory
<1>11. \A m \in Mems : Active(m)' => Active(m)
  BY <1>8 DEF Active
<1> QED
  BY <1>1, <1>2, <1>5, <1>7, <1>9, <1>10, <1>11, RowsIInv

LEMMA SelectDoomedIInv ==
  ASSUME IInv, NEW a \in Actors, SelectDoomed(a)
  PROVE  IInv'
<1> DEFINE doomed == {m \in ActiveMems : row[m].imp < Floor}
           tell == [Idle EXCEPT !.pc = "invalidate"]
           next == [actors[a] EXCEPT !.pc = "evictCull", !.lose = doomed]
<1>1. /\ actors[a].pc \in JanitorSteps /\ UNCHANGED <<row, vec, cache, faults>>
      /\ Become(a, tell) \/ Become(a, Idle) \/ Become(a, next)
  BY DEF SelectDoomed, At, JanitorSteps
<1>2. actors[a] \in Actor /\ actors[a].next # "index"
  BY <1>1, AtJanitor DEF Indexing
<1>3. doomed \in SUBSET Mems /\ \A m \in doomed : row[m].st # "none"
  BY DEF ActiveMems, Active
<1> HIDE DEF doomed
<1>4. "invalidate" \in Pcs /\ "evictCull" \in Pcs
  BY DEF Pcs, JanitorSteps
<1>5. CASE Become(a, tell)
  <2>1. tell \in Actor /\ tell.pc = "invalidate"
    BY <1>4, IdleType DEF Actor
  <2>2. tell.next = "idle" /\ tell.lose = {}
    BY DEF Idle
  <2> HIDE DEF tell
  <2> QED
    BY <1>1, <1>5, <2>1, <2>2, JanitorIInv
<1>6. CASE Become(a, Idle)
  <2>1. Idle.pc = "idle" /\ Idle.next = "idle" /\ Idle.lose = {}
    BY DEF Idle
  <2> QED
    BY <1>1, <1>6, <2>1, IdleType, JanitorIInv
<1>7. CASE Become(a, next)
  <2>1. /\ next \in Actor /\ next.pc = "evictCull" /\ next.next = actors[a].next
        /\ next.lose = doomed
    BY <1>2, <1>3, <1>4 DEF Actor
  <2> HIDE DEF next
  <2> QED
    BY <1>1, <1>2, <1>3, <1>7, <2>1, JanitorIInv DEF JanitorSteps
<1> QED
  BY <1>1, <1>5, <1>6, <1>7

LEMMA CrashIInv ==
  ASSUME IInv, NEW a \in Actors, Crash(a)
  PROVE  IInv'
<1>1. End(a) /\ UNCHANGED <<row, vec>> /\ UNCHANGED cache /\ Fails
  BY DEF Crash
<1>2. cache' = None \/ cache' \in Aggregates
  BY <1>1 DEF IInv, Types
<1> QED
  BY <1>1, <1>2, EndIInv

LEMMA InitIInv == Init => IInv
<1> SUFFICES ASSUME Init PROVE IInv
  OBVIOUS
<1>1. NoRow \in Row /\ NoRow.st = "none"
  BY UMAssumption DEF NoRow, Row
<1>2. /\ row = [m \in Mems |-> NoRow] /\ vec = [m \in Mems |-> None]
      /\ cache = None /\ faults = 0 /\ actors = [a \in Actors |-> Idle]
  BY DEF Init
<1> HIDE DEF NoRow
<1>3. \A m \in Mems : row[m].st = "none" /\ vec[m] = None
  BY <1>1, <1>2
<1>4. Types
  BY <1>1, <1>2, IdleType DEF Types
<1>5. \A a \in Actors : Fit(actors[a])
  BY <1>2, IdleType
<1>6. Filled
  BY <1>3 DEF Filled
<1>7. ActiveMems = {}
  BY <1>3 DEF ActiveMems, Active
<1> QED
  BY <1>4, <1>5, <1>6, <1>7 DEF IInv

LEMMA NextIInv == IInv /\ [Next]_vars => IInv'
<1> SUFFICES ASSUME IInv, [Next]_vars PROVE IInv'
  OBVIOUS
<1>1. CASE UNCHANGED vars
  BY <1>1 DEF vars, IInv, Types, Fit, Filled, Covered, Indexing, Active, ActiveMems
<1>2. ASSUME NEW a \in Actors,
             \/ \E m \in Mems, c \in Contents, imp \in 0..TopImp : Persist(a, m, c, imp)
             \/ \E m \in Mems, c \in Contents \cup {None}, imp \in NoEdit..TopImp :
                  Patch(a, m, c, imp)
             \/ \E m \in Mems : DeleteMemory(a, m)
      PROVE  IInv'
  BY <1>2, PersistIInv, PatchIInv, DeleteMemoryIInv
<1>3. ASSUME NEW a \in Actors, CullDuplicates(a) \/ EvictCull(a)
      PROVE  IInv'
  BY <1>3, CullIInv DEF CullDuplicates, EvictCull, At, JanitorSteps
<1>4. ASSUME NEW a \in Actors,
             \/ Invalidate(a) \/ Index(a) \/ Unindex(a)
             \/ PatchCommit(a) \/ PatchRefresh(a) \/ DeleteCommit(a)
             \/ ReadProfile(a) \/ WriteBack(a)
             \/ StartJanitor(a) \/ DedupLeader(a)
             \/ Decay(a) \/ SelectDoomed(a) \/ Crash(a)
      PROVE  IInv'
  BY <1>4, InvalidateIInv, IndexIInv, UnindexIInv, PatchCommitIInv, PatchRefreshIInv,
     DeleteCommitIInv, ProfileIInv, StartJanitorIInv, DedupIInv, DecayIInv,
     SelectDoomedIInv, CrashIInv, Zenon
<1> QED
  BY <1>1, <1>2, <1>3, <1>4, Zenon DEF Next

(* Rows, vectors and what each writer, request and janitor knows of them   *)
(* stay in step through all interleavings, crashes and failures.            *)
THEOREM Invariance == Spec => []IInv
BY InitIInv, NextIInv, PTL DEF Spec

(* Every reachable state of the memories is well typed. *)
THEOREM TypeCorrect == Spec => []TypeOK
<1>1. IInv => TypeOK
  BY DEF IInv, Types, TypeOK, Row, Aggregates, Actor
<1> QED
  BY <1>1, Invariance, PTL

(* Without failures, and with nothing at work, every active memory is in   *)
(* the index, however many writers, deletions and janitors ran.            *)
THEOREM LivingIsIndexed == Spec => []ActiveIsIndexed
<1>1. IInv => ActiveIsIndexed
  BY DEF IInv, ActiveIsIndexed, AllIdle, At, Fit, Covered
<1> QED
  BY <1>1, Invariance, PTL

(* What a step does to the rows that are dead. *)
DeadStay ==
  \A m \in Mems :
    /\ row[m].st = "culled" => row'[m].st \in {"culled", "gone"}
    /\ row[m].st = "gone" => row'[m] = row[m]

LEMMA NextDeadStay == IInv /\ [Next]_vars => DeadStay
<1> SUFFICES ASSUME IInv, [Next]_vars PROVE DeadStay
  OBVIOUS
<1>1. CASE UNCHANGED row
  BY <1>1 DEF DeadStay
<1>2. ASSUME NEW a \in Actors, NEW m \in Mems, NEW c \in Contents, NEW imp \in 0..TopImp,
             Persist(a, m, c, imp)
      PROVE  DeadStay
  BY <1>2 DEF Persist, DeadStay, IInv, Types
<1>3. ASSUME NEW a \in Actors, PatchCommit(a) PROVE DeadStay
  <2> DEFINE m == actors[a].mem
             r == [row[m] EXCEPT !.content = IF actors[a].content = None THEN @
                                             ELSE actors[a].content,
                                 !.imp = IF actors[a].imp = NoEdit THEN @
                                         ELSE actors[a].imp]
  <2>1. CASE row[m].st # "gone" /\ row' = [row EXCEPT ![m] = r]
    <3>1. m \in Mems
      BY <1>3, OnRow DEF PatchCommit, At, OnMemory
    <3>2. r.st = row[m].st
      BY <3>1 DEF IInv, Types, Row
    <3> HIDE DEF r, m
    <3> QED
      BY <2>1, <3>1, <3>2 DEF DeadStay, IInv, Types
  <2> QED
    BY <1>1, <1>3, <2>1 DEF PatchCommit
<1>4. ASSUME NEW a \in Actors, DeleteCommit(a) PROVE DeadStay
  <2> DEFINE m == actors[a].mem
             r == [NoRow EXCEPT !.st = "gone"]
  <2>1. m \in Mems
    BY <1>4, OnRow DEF DeleteCommit, At, OnMemory
  <2>2. row' = [row EXCEPT ![m] = r]
    BY <1>4 DEF DeleteCommit
  <2> QED
    <3>1. r.st = "gone" /\ r.content = None /\ r.imp = 0 /\ r \in Row
      BY UMAssumption DEF NoRow, Row
    <3>2. row[m].st = "gone" => row[m] = r
      BY <2>1, <3>1 DEF IInv, Types, Filled, Row
    <3> HIDE DEF r
    <3> QED
      BY <2>1, <2>2, <3>1, <3>2 DEF DeadStay, IInv, Types
<1>5. ASSUME NEW a \in Actors, CullDuplicates(a) \/ EvictCull(a) PROVE DeadStay
  BY <1>5 DEF CullDuplicates, EvictCull, Culls, SoftDelete, DeadStay, Active
<1>6. ASSUME NEW a \in Actors, Decay(a) PROVE DeadStay
  <2>1. PICK hit \in SUBSET ActiveMems :
          row' = [m \in Mems |-> IF m \in hit /\ row[m].imp > 0
                                 THEN [row[m] EXCEPT !.imp = @ - 1] ELSE row[m]]
    BY <1>6 DEF Decay
  <2>2. \A m \in Mems : row[m].st \in {"culled", "gone"} => m \notin hit
    BY DEF ActiveMems, Active
  <2> QED
    BY <2>1, <2>2 DEF DeadStay
<1>7. ASSUME NEW a \in Actors,
             \/ \E m \in Mems, c \in Contents \cup {None}, imp \in NoEdit..TopImp :
                  Patch(a, m, c, imp)
             \/ \E m \in Mems : DeleteMemory(a, m)
             \/ Invalidate(a) \/ Index(a) \/ Unindex(a)
             \/ PatchRefresh(a) \/ ReadProfile(a) \/ WriteBack(a)
             \/ StartJanitor(a) \/ DedupLeader(a) \/ SelectDoomed(a) \/ Crash(a)
      PROVE  UNCHANGED row
  BY <1>7 DEF Patch, DeleteMemory, Invalidate, Index, Unindex, PatchRefresh, ReadProfile,
              WriteBack, StartJanitor, DedupLeader, SelectDoomed, Crash
<1> QED
  BY <1>1, <1>2, <1>3, <1>4, <1>5, <1>6, <1>7 DEF Next, vars

(* No edit, decay or janitor that was in flight brings a culled or deleted *)
(* memory back.                                                            *)
THEOREM DeadMemoriesStayDead == Spec => NoResurrection
BY NextDeadStay, Invariance, PTL DEF Spec, NoResurrection, DeadStay


-------------------------------------------------------------------------------
(* Actors that take turns.  What follows is about the only actor at work,  *)
(* at the record q, before anything failed.                                *)

(* It will invalidate the cache, so the cache may be stale. *)
Changing(q) ==
  \/ q.pc \in {"refresh", "reindex", "invalidate"}
  \/ q.pc = "unindex" /\ q.next = "invalidate"
  \/ q.changed /\ q.pc \in JanitorSteps \cup {"unindex"}

Current(q) == cache \in {None, Profile} \/ Changing(q)

(* It will index memory m anew. *)
Rewriting(q, m) ==
  q.mem = m /\ (Indexing(q) \/ q.pc \in {"refresh", "reindex", "index"})

Exact(q) == \A m \in ActiveMems : vec[m] = row[m].content \/ Rewriting(q, m)

(* What it read is still so. *)
Holds(q) ==
  /\ q.pc \in {"patch", "refresh", "reindex"} => Active(q.mem)
  /\ q.pc \in {"index", "reindex"} \/ Indexing(q) => q.content = row[q.mem].content
  /\ q.pc = "writeBack" => q.todo = Profile

(* A memory deduplication has been through and keeps. *)
Settled(q, m) == m \in ActiveMems \ q.lose /\ \A y \in q.todo : y[1] # m

(* Of what one search finds whole, what is still to come says something    *)
(* new, and what is to go repeats a memory that stays and ranks as high.   *)
Sorts(q) ==
  /\ q.pc \in {"dedup", "cull"} =>
       /\ q.todo \subseteq Profile
       /\ \A y \in q.todo :
            /\ y[1] \notin q.lose
            /\ WithinLimit(y[2]) => \A m \in Mems : Settled(q, m) => row[m].content # y[2]
       /\ \A n \in q.lose \cap ActiveMems :
            WithinLimit(row[n].content) =>
              \E m \in Mems : /\ Settled(q, m)
                              /\ row[m].content = row[n].content
                              /\ row[m].imp >= row[n].imp
  /\ q.pc = "evictCull" => \A m \in q.lose : row[m].imp < Floor

Turn(q) == Current(q) /\ Exact(q) /\ Holds(q) /\ Sorts(q)

LEMMA IdleFields ==
  /\ Idle.pc = "idle" /\ Idle.next = "idle" /\ Idle.mem = None /\ Idle.content = None
  /\ Idle.todo = {} /\ Idle.lose = {} /\ Idle.changed = FALSE
BY DEF Idle

(* The only actor at work comes to rest. *)
LEMMA IdleTurn ==
  ASSUME cache \in {None, Profile}, \A m \in ActiveMems : vec[m] = row[m].content
  PROVE  Turn(Idle)
BY IdleFields DEF Turn, Current, Exact, Holds, Sorts, Indexing

LEMMA TurnIdle ==
  ASSUME NEW q \in Actor, q.pc = "idle", Turn(q), Fit(q)
  PROVE  cache \in {None, Profile} /\ \A m \in ActiveMems : vec[m] = row[m].content
BY DEF Turn, Current, Exact, Changing, Rewriting, JanitorSteps, Fit

LEMMA ProfileSame == UNCHANGED row => UNCHANGED <<ActiveMems, Profile>>
BY DEF ActiveMems, Active, Profile

(* The records before and after a step, and what a step to q looks like. *)
LEMMA Becomes ==
  ASSUME IInv, IInv', NEW a \in Actors, NEW q, Become(a, q)
  PROVE  /\ q = actors'[a] /\ q \in Actor /\ Fit(q)'
         /\ actors[a] \in Actor /\ Fit(actors[a])
BY DEF IInv, Types, Become

LEMMA TurnHere ==
  ASSUME NEW a \in Actors, NEW q, q = actors'[a], Turn(q)'
  PROVE  Turn(actors[a])'
BY DEF Turn, Current, Exact, Holds, Sorts, Changing, Rewriting, Settled, Indexing

(* A step that leaves the rows and the vectors alone, and sorts nothing. *)
LEMMA QuietTurn ==
  ASSUME NEW p \in Actor, NEW q \in Actor, Turn(p), UNCHANGED <<row, vec>>,
         q.pc \notin JanitorSteps,
         cache' \in {None, Profile} \/ Changing(q), Holds(q),
         \A m \in Mems : Rewriting(p, m) => Rewriting(q, m)
  PROVE  Turn(q)'
<1>1. UNCHANGED <<ActiveMems, Profile>> /\ ActiveMems \subseteq Mems
  BY ProfileSame DEF ActiveMems
<1>2. Current(q)' /\ Exact(q)'
  BY <1>1 DEF Current, Exact, Turn, Changing, Rewriting, Indexing
<1>3. Holds(q)'
  BY <1>1 DEF Holds, Active, Indexing
<1>4. Sorts(q)'
  BY DEF Sorts, JanitorSteps
<1> QED
  BY <1>2, <1>3, <1>4 DEF Turn

LEMMA PersistTurn ==
  ASSUME IInv, IInv', NEW a \in Actors, Turn(actors[a]),
         NEW m \in Mems, NEW c \in Contents, NEW imp \in 0..TopImp, Persist(a, m, c, imp)
  PROVE  Turn(actors[a])'
<1> DEFINE r == [NoRow EXCEPT !.st = "active", !.content = c, !.imp = imp]
<1>1. PICK q : /\ q = [Idle EXCEPT !.pc = "invalidate", !.mem = m, !.content = c, !.next = "index"]
               /\ Become(a, q)
  BY DEF Persist
<1>2. q \in Actor /\ q = actors'[a] /\ actors[a] \in Actor /\ Fit(actors[a])
  BY <1>1, Becomes
<1>3. q.pc = "invalidate" /\ q.mem = m /\ q.content = c /\ q.next = "index"
  BY <1>1 DEF Idle
<1>4. actors[a].pc = "idle" /\ row' = [row EXCEPT ![m] = r] /\ UNCHANGED vec
  BY DEF Persist, At
<1>5. row'[m] = r /\ r.content = c /\ \A n \in Mems : n # m => row'[n] = row[n]
  BY <1>4 DEF IInv, Types, NoRow
<1>6. \A n \in ActiveMems : vec[n] = row[n].content
  BY <1>2, <1>4, TurnIdle
<1>7. Exact(q)' /\ Holds(q)' /\ Current(q)' /\ Sorts(q)'
  <2>1. \A n \in Mems : n # m => (n \in ActiveMems' <=> n \in ActiveMems)
    BY <1>5 DEF ActiveMems, Active
  <2>2. ActiveMems' \subseteq Mems
    BY DEF ActiveMems
  <2>3. Exact(q)'
    BY <1>3, <1>4, <1>5, <1>6, <2>1, <2>2 DEF Exact, Rewriting, Indexing
  <2> QED
    BY <1>3, <1>5, <2>3 DEF Holds, Current, Changing, Sorts
<1> QED
  BY <1>2, <1>7, TurnHere DEF Turn

LEMMA InvalidateTurn ==
  ASSUME IInv, IInv', NEW a \in Actors, Turn(actors[a]), Invalidate(a)
  PROVE  Turn(actors[a])'
<1>1. /\ actors[a] \in Actor /\ Fit(actors[a]) /\ actors[a].pc = "invalidate"
      /\ UNCHANGED <<row, vec>> /\ cache' = None
  BY DEF Invalidate, At, IInv, Types
<1>2. CASE actors[a].next = "idle"
  <2>1. actors'[a] = Idle
    BY <1>2, Becomes DEF Invalidate, End
  <2>3. \A m \in Mems : ~Rewriting(actors[a], m)
    BY <1>1, <1>2 DEF Rewriting, Indexing
  <2>4. Holds(Idle) /\ Idle.pc \notin JanitorSteps
    BY IdleFields DEF Holds, Indexing, JanitorSteps
  <2> QED
    BY <1>1, <2>1, <2>3, <2>4, IdleType, QuietTurn, TurnHere
<1>3. CASE actors[a].next # "idle"
  <2>1. PICK q : q = [actors[a] EXCEPT !.pc = actors[a].next] /\ Become(a, q)
    BY <1>3 DEF Invalidate, Goto
  <2>2. q \in Actor /\ q = actors'[a]
    BY <2>1, Becomes
  <2>3. q.pc = actors[a].next /\ q.mem = actors[a].mem /\ q.content = actors[a].content
        /\ q.next = actors[a].next /\ q.next \in {"index", "invalidate", "decay"}
    BY <1>1, <1>3, <2>1 DEF Actor
  <2>4. \A m \in Mems : Rewriting(actors[a], m) => Rewriting(q, m)
    BY <1>1, <2>3 DEF Rewriting, Indexing
  <2>5. Holds(q)
    BY <1>1, <2>3 DEF Turn, Holds, Indexing
  <2>6. CASE q.pc \notin JanitorSteps
    BY <1>1, <2>2, <2>4, <2>5, <2>6, QuietTurn, TurnHere
  <2>7. CASE q.pc = "decay"
    <3>1. Sorts(q)'
      BY <2>7 DEF Sorts
    <3>2. Current(q)'
      BY <1>1 DEF Current
    <3>3. UNCHANGED ActiveMems /\ ActiveMems \subseteq Mems
      BY <1>1, ProfileSame DEF ActiveMems
    <3>4. Exact(q)' /\ Holds(q)'
      BY <1>1, <2>4, <2>5, <2>7, <3>3 DEF Turn, Exact, Holds, Rewriting, Indexing
    <3> QED
      BY <2>2, <3>1, <3>2, <3>4, TurnHere DEF Turn
  <2> QED
    BY <2>3, <2>6, <2>7 DEF JanitorSteps
<1> QED
  BY <1>2, <1>3

LEMMA IndexTurn ==
  ASSUME IInv, IInv', NEW a \in Actors, Turn(actors[a]), Index(a), UNCHANGED faults
  PROVE  Turn(actors[a])'
<1> DEFINE m == actors[a].mem
<1>1. /\ actors[a] \in Actor /\ Fit(actors[a]) /\ actors[a].pc \in {"index", "reindex"}
      /\ UNCHANGED <<row, cache>>
  BY DEF Index, At, IInv, Types
<1>2. m \in Mems /\ vec' = [vec EXCEPT ![m] = actors[a].content]
  BY <1>1 DEF Index, Works, Fails, Fit, OnMemory, IInv, Types
<1>3. actors[a].content = row[m].content
  BY <1>1 DEF Turn, Holds
<1>4. UNCHANGED <<ActiveMems, Profile>> /\ ActiveMems \subseteq Mems
  BY <1>1, ProfileSame DEF ActiveMems
<1>5. \A n \in ActiveMems' : vec'[n] = row'[n].content
  BY <1>1, <1>2, <1>3, <1>4 DEF Turn, Exact, Rewriting, IInv, Types
<1>6. CASE At(a, "index")
  <2>1. actors'[a] = Idle
    BY <1>6, Becomes DEF Index, At, End
  <2>2. cache' \in {None, Profile'}
    BY <1>1, <1>4, <1>6 DEF Turn, Current, Changing, At, JanitorSteps
  <2>3. Turn(Idle)'
    BY <1>5, <2>2, IdleFields DEF Turn, Current, Exact, Holds, Sorts, Indexing
  <2> QED
    BY <2>1, <2>3, TurnHere
<1>7. CASE At(a, "reindex")
  <2>1. PICK q : q = [actors[a] EXCEPT !.pc = "invalidate"] /\ Become(a, q)
    BY <1>7 DEF Index, Goto, At
  <2>2. q \in Actor /\ q = actors'[a]
    BY <2>1, Becomes
  <2>3. q.pc = "invalidate" /\ ~Indexing(q)
    BY <1>1, <1>7, <2>1 DEF Actor, Fit, Indexing, At
  <2>4. Turn(q)'
    BY <1>5, <2>3 DEF Turn, Current, Changing, Exact, Holds, Sorts, Indexing
  <2> QED
    BY <2>2, <2>4, TurnHere
<1> QED
  BY <1>1, <1>6, <1>7 DEF At

(* A request or a read that arrives: nothing has changed yet. *)
LEMMA ArriveTurn ==
  ASSUME IInv, IInv', NEW a \in Actors, Turn(actors[a]), At(a, "idle"),
         UNCHANGED <<row, vec, cache>>, NEW q, Become(a, q), Holds(q), q.pc \notin JanitorSteps
  PROVE  Turn(actors[a])'
<1>1. q \in Actor /\ q = actors'[a] /\ actors[a] \in Actor /\ Fit(actors[a])
  BY Becomes
<1>2. cache' \in {None, Profile}
  BY <1>1, TurnIdle DEF At
<1>3. \A m \in Mems : ~Rewriting(actors[a], m)
  BY <1>1 DEF Rewriting, Fit, At
<1> QED
  BY <1>1, <1>2, <1>3, QuietTurn, TurnHere

LEMMA RequestTurn ==
  ASSUME IInv, IInv', NEW a \in Actors, Turn(actors[a]),
         NEW m \in Mems,
         \/ \E c \in Contents \cup {None}, imp \in NoEdit..TopImp : Patch(a, m, c, imp)
         \/ DeleteMemory(a, m)
  PROVE  Turn(actors[a])'
<1>1. CASE \E c \in Contents \cup {None}, imp \in NoEdit..TopImp : Patch(a, m, c, imp)
  <2>1. PICK c, imp : Patch(a, m, c, imp)
    BY <1>1
  <2>2. PICK q : /\ q = [Idle EXCEPT !.pc = "patch", !.mem = m, !.content = c, !.imp = imp]
                 /\ Become(a, q)
    BY <2>1 DEF Patch
  <2>3. q.pc = "patch" /\ q.mem = m /\ q.next = "idle"
    BY <2>2 DEF Idle
  <2>4. Holds(q) /\ q.pc \notin JanitorSteps
    BY <2>1, <2>3 DEF Patch, Holds, Indexing, JanitorSteps
  <2> QED
    BY <2>1, <2>2, <2>4, ArriveTurn DEF Patch
<1>2. CASE DeleteMemory(a, m)
  <2>1. PICK q : q = [Idle EXCEPT !.pc = "delete", !.mem = m] /\ Become(a, q)
    BY <1>2 DEF DeleteMemory
  <2>2. q.pc = "delete" /\ q.next = "idle"
    BY <2>1 DEF Idle
  <2>3. Holds(q) /\ q.pc \notin JanitorSteps
    BY <2>2 DEF Holds, Indexing, JanitorSteps
  <2> QED
    BY <1>2, <2>1, <2>3, ArriveTurn DEF DeleteMemory
<1> QED
  BY <1>1, <1>2

LEMMA ReadTurn ==
  ASSUME IInv, IInv', NEW a \in Actors, Turn(actors[a]), ReadProfile(a)
  PROVE  Turn(actors[a])'
<1>1. PICK q : q = [Idle EXCEPT !.pc = "writeBack", !.todo = Profile] /\ Become(a, q)
  BY DEF ReadProfile
<1>2. q.pc = "writeBack" /\ q.next = "idle" /\ q.todo = Profile
  BY <1>1 DEF Idle
<1>3. Holds(q) /\ q.pc \notin JanitorSteps
  BY <1>2 DEF Holds, Indexing, JanitorSteps
<1> QED
  BY <1>1, <1>3, ArriveTurn DEF ReadProfile

LEMMA WriteBackTurn ==
  ASSUME IInv, IInv', NEW a \in Actors, Turn(actors[a]), WriteBack(a)
  PROVE  Turn(actors[a])'
<1>1. /\ actors[a] \in Actor /\ Fit(actors[a]) /\ actors[a].pc = "writeBack"
      /\ UNCHANGED <<row, vec>> /\ cache' = actors[a].todo
  BY DEF WriteBack, At, IInv, Types
<1>2. actors'[a] = Idle
  BY Becomes DEF WriteBack, End
<1>3. cache' = Profile /\ \A m \in Mems : ~Rewriting(actors[a], m)
  BY <1>1 DEF Turn, Holds, Rewriting, Fit
<1>4. Holds(Idle) /\ Idle.pc \notin JanitorSteps
  BY IdleFields DEF Holds, Indexing, JanitorSteps
<1> QED
  BY <1>1, <1>2, <1>3, <1>4, IdleType, QuietTurn, TurnHere

LEMMA PatchCommitTurn ==
  ASSUME IInv, IInv', NEW a \in Actors, Turn(actors[a]), PatchCommit(a)
  PROVE  Turn(actors[a])'
<1> DEFINE c == IF actors[a].content = None THEN row[actors[a].mem].content ELSE actors[a].content
           imp == IF actors[a].imp = NoEdit THEN row[actors[a].mem].imp ELSE actors[a].imp
<1>1. PICK m \in Mems : /\ m = actors[a].mem /\ row[m].st = "active"
                        /\ actors[a] \in Actor /\ ~Indexing(actors[a])
                        /\ actors[a].pc = "patch"
  BY OnRow DEF PatchCommit, At, OnMemory, Turn, Holds, Active
<1>2. /\ UNCHANGED <<vec, cache>>
      /\ row' = [row EXCEPT ![m] = [row[m] EXCEPT !.content = c, !.imp = imp]]
  BY <1>1 DEF PatchCommit
<1>3. PICK q : q = [actors[a] EXCEPT !.pc = "refresh"] /\ Become(a, q)
  BY <1>1 DEF PatchCommit, Goto
<1>4. q = actors'[a]
  BY <1>3, Becomes
<1>5. q.pc = "refresh" /\ q.mem = m /\ ~Indexing(q)
  BY <1>1, <1>3 DEF Actor, Indexing
<1> HIDE DEF c, imp
<1>6. row'[m].st = "active" /\ \A n \in Mems : n # m => row'[n] = row[n]
  BY <1>1, <1>2 DEF IInv, Types, Row
<1>7. Exact(q)'
  <2>1. \A n \in ActiveMems' : n \in Mems /\ (n # m => n \in ActiveMems)
    BY <1>6 DEF ActiveMems, Active
  <2> QED
    BY <1>1, <1>2, <1>5, <1>6, <2>1 DEF Turn, Exact, Rewriting
<1>8. Current(q)' /\ Holds(q)' /\ Sorts(q)'
  BY <1>5, <1>6 DEF Current, Changing, Holds, Sorts, Active, Indexing
<1> QED
  BY <1>4, <1>7, <1>8, TurnHere DEF Turn

LEMMA PatchRefreshTurn ==
  ASSUME IInv, IInv', NEW a \in Actors, Turn(actors[a]), PatchRefresh(a)
  PROVE  Turn(actors[a])'
<1>1. PICK m \in Mems : /\ m = actors[a].mem /\ row[m].st = "active"
                        /\ actors[a] \in Actor /\ ~Indexing(actors[a])
                        /\ actors[a].pc = "refresh" /\ UNCHANGED <<row, vec, cache>>
  BY OnRow DEF PatchRefresh, At, OnMemory, Turn, Holds, Active
<1>2. PICK q : /\ q = [Idle EXCEPT !.pc = "reindex", !.mem = m, !.content = row[m].content]
               /\ Become(a, q)
  BY <1>1 DEF PatchRefresh
<1>3. q = actors'[a] /\ q \in Actor
  BY <1>2, Becomes
<1>4. q.pc = "reindex" /\ q.mem = m /\ q.content = row[m].content /\ q.next = "idle"
  BY <1>2 DEF Idle
<1>5. Changing(q) /\ Holds(q) /\ q.pc \notin JanitorSteps
  BY <1>1, <1>4 DEF Changing, Holds, Active, Indexing, JanitorSteps
<1>6. \A n \in Mems : Rewriting(actors[a], n) => Rewriting(q, n)
  BY <1>1, <1>4 DEF Rewriting
<1> QED
  BY <1>1, <1>3, <1>5, <1>6, QuietTurn, TurnHere

LEMMA DeleteCommitTurn ==
  ASSUME IInv, IInv', NEW a \in Actors, Turn(actors[a]), DeleteCommit(a)
  PROVE  Turn(actors[a])'
<1>1. PICK m \in Mems : /\ m = actors[a].mem /\ actors[a].pc = "delete"
                        /\ ~Indexing(actors[a]) /\ UNCHANGED <<vec, cache>>
  BY OnRow DEF DeleteCommit, At, OnMemory
<1>2. row' = [row EXCEPT ![m] = [NoRow EXCEPT !.st = "gone"]]
  BY <1>1 DEF DeleteCommit
<1>3. PICK q : /\ q = [Idle EXCEPT !.pc = "unindex", !.lose = {m}, !.next = "invalidate"]
               /\ Become(a, q)
  BY <1>1 DEF DeleteCommit
<1>4. q = actors'[a]
  BY <1>3, Becomes
<1>5. q.pc = "unindex" /\ q.next = "invalidate"
  BY <1>3 DEF Idle
<1>6. row'[m].st = "gone" /\ \A n \in Mems : n # m => row'[n] = row[n]
  BY <1>2 DEF IInv, Types, NoRow
<1>7. Exact(q)'
  <2>1. \A n \in ActiveMems' : n \in Mems /\ n # m /\ n \in ActiveMems
    BY <1>6 DEF ActiveMems, Active
  <2>2. \A n \in Mems : ~Rewriting(actors[a], n)
    BY <1>1 DEF Rewriting
  <2> QED
    BY <1>1, <1>6, <2>1, <2>2 DEF Turn, Exact
<1>8. Current(q)' /\ Holds(q)' /\ Sorts(q)'
  BY <1>5 DEF Current, Changing, Holds, Sorts, Indexing
<1> QED
  BY <1>4, <1>7, <1>8, TurnHere DEF Turn

LEMMA UnindexTurn ==
  ASSUME IInv, IInv', NEW a \in Actors, Turn(actors[a]), Unindex(a), UNCHANGED faults
  PROVE  Turn(actors[a])'
<1>1. /\ actors[a] \in Actor /\ Fit(actors[a]) /\ actors[a].pc = "unindex"
      /\ UNCHANGED <<row, cache>> /\ \A m \in actors[a].lose : m \in Mems /\ ~Active(m)
      /\ actors[a].next \in {"invalidate", "decay"}
  BY DEF Unindex, At, IInv, Types, Fit, Actor
<1>2. ~Fails
  BY DEF Fails, IInv, Types
<1>3. PICK m \in actors[a].lose : \E q \in Actor :
        /\ Become(a, q) /\ vec' = [vec EXCEPT ![m] = None]
        /\ q.changed = actors[a].changed
        /\ \/ q.pc = actors[a].next /\ q.next = "idle"
           \/ q.pc = "unindex" /\ q.next = actors[a].next
  BY <1>2, UnindexStep
<1>4. PICK q \in Actor :
        /\ Become(a, q) /\ vec' = [vec EXCEPT ![m] = None]
        /\ q.changed = actors[a].changed
        /\ \/ q.pc = actors[a].next /\ q.next = "idle"
           \/ q.pc = "unindex" /\ q.next = actors[a].next
  BY <1>3
<1>5. q = actors'[a]
  BY <1>4, Becomes
<1>6. UNCHANGED <<ActiveMems, Profile>> /\ ActiveMems \subseteq Mems
  BY <1>1, ProfileSame DEF ActiveMems
<1>7. Exact(q)'
  <2>1. \A n \in ActiveMems : vec'[n] = vec[n]
    BY <1>1, <1>4, <1>6 DEF ActiveMems, IInv, Types
  <2>2. \A n \in Mems : ~Rewriting(actors[a], n)
    BY <1>1 DEF Rewriting, Fit
  <2> QED
    BY <1>1, <1>6, <2>1, <2>2 DEF Turn, Exact
<1>8. Current(q)'
  BY <1>1, <1>4, <1>6 DEF Turn, Current, Changing, JanitorSteps
<1>9. Holds(q)' /\ Sorts(q)'
  BY <1>1, <1>4 DEF Holds, Sorts, Indexing
<1> QED
  BY <1>5, <1>7, <1>8, <1>9, TurnHere DEF Turn

-------------------------------------------------------------------------------
(* The janitor in turn *)

(* At a janitor's step every living memory is indexed by what it says. *)
LEMMA JanitorExact ==
  ASSUME NEW q \in Actor, Turn(q), Fit(q), q.pc \in JanitorSteps
  PROVE  \A m \in ActiveMems : vec[m] = row[m].content
BY DEF Turn, Exact, Rewriting, Fit, JanitorSteps

(* A janitor's step that changes no row. *)
LEMMA JanitorTurn ==
  ASSUME IInv, IInv', NEW a \in Actors, Turn(actors[a]), actors[a].pc \in JanitorSteps,
         UNCHANGED <<row, vec, cache>>, NEW q, Become(a, q),
         q.pc \in JanitorSteps \cup {"invalidate"}, q.next # "index",
         q.pc \in JanitorSteps => q.changed = actors[a].changed, Sorts(q)
  PROVE  Turn(actors[a])'
<1>1. q \in Actor /\ q = actors'[a] /\ actors[a] \in Actor /\ Fit(actors[a])
  BY Becomes
<1>2. UNCHANGED <<ActiveMems, Profile>> /\ ActiveMems \subseteq Mems
  BY ProfileSame DEF ActiveMems
<1>3. Exact(q)'
  BY <1>1, <1>2, JanitorExact DEF Exact
<1>4. Current(q)'
  BY <1>2 DEF Turn, Current, Changing, JanitorSteps
<1>5. Holds(q)'
  BY DEF Holds, Indexing, JanitorSteps
<1>6. Sorts(q)'
  BY <1>2 DEF Sorts, Settled, WithinLimit
<1> QED
  BY <1>1, <1>3, <1>4, <1>5, <1>6, TurnHere DEF Turn

LEMMA StartJanitorTurn ==
  ASSUME IInv, IInv', NEW a \in Actors, Turn(actors[a]), StartJanitor(a)
  PROVE  Turn(actors[a])'
<1>1. PICK pc \in {"decay", "dedup"} :
        /\ At(a, "idle") /\ UNCHANGED <<row, vec, cache>>
        /\ Become(a, [Idle EXCEPT !.pc = pc, !.todo = Profile])
  BY DEF StartJanitor
<1>2. PICK q : q = [Idle EXCEPT !.pc = pc, !.todo = Profile] /\ Become(a, q)
  BY <1>1
<1>3. q \in Actor /\ q = actors'[a] /\ actors[a] \in Actor /\ Fit(actors[a])
  BY <1>2, Becomes
<1>4. q.pc = pc /\ q.todo = Profile /\ q.lose = {} /\ q.next = "idle"
  BY <1>2 DEF Idle
<1>5. UNCHANGED <<ActiveMems, Profile>> /\ ActiveMems \subseteq Mems
  BY <1>1, ProfileSame DEF ActiveMems
<1>6. Current(q)' /\ Exact(q)'
  BY <1>1, <1>3, <1>5, TurnIdle DEF At, Current, Exact
<1>7. Holds(q)'
  BY <1>4 DEF Holds, Indexing
<1>8. Sorts(q)'
  <2>1. ASSUME NEW m \in ActiveMems PROVE \E y \in Profile : y[1] = m
    <3>1. <<m, row[m].content, row[m].imp>> \in Profile
      BY DEF Profile
    <3> QED
      BY <3>1
  <2> QED
    BY <1>4, <1>5, <2>1 DEF Sorts, Settled
<1> QED
  BY <1>3, <1>6, <1>7, <1>8, TurnHere DEF Turn

(* The leader of what is left: the duplicates found are to go, it stays. *)
LEMMA LeaderSorts ==
  ASSUME IInv, NEW p \in Actor, Turn(p), Fit(p), p.pc = "dedup",
         NEW x \in p.todo, \A y \in p.todo \ {x} : Leads(x, y),
         NEW found \in Neighbors(x[2]),
         NEW q, q.pc = "dedup", q.lose = p.lose \cup (found \ {x[1]}),
         q.todo = {y \in p.todo \ {x} : y[1] \notin found}
  PROVE  Sorts(q)
<1>1. \A m \in ActiveMems : vec[m] = row[m].content /\ m \in Mems
  BY JanitorExact DEF JanitorSteps, ActiveMems
<1>2. /\ p.todo \subseteq Profile
      /\ \A y \in p.todo :
           /\ y[1] \notin p.lose
           /\ WithinLimit(y[2]) => \A m \in Mems : Settled(p, m) => row[m].content # y[2]
      /\ \A n \in p.lose \cap ActiveMems :
           WithinLimit(row[n].content) =>
             \E m \in Mems : /\ Settled(p, m)
                             /\ row[m].content = row[n].content
                             /\ row[m].imp >= row[n].imp
  BY DEF Turn, Sorts
<1>3. \A y \in p.todo : /\ y = <<y[1], row[y[1]].content, row[y[1]].imp>>
                        /\ y[1] \in ActiveMems
                        /\ y[2] = row[y[1]].content /\ y[3] = row[y[1]].imp
  BY <1>2 DEF Profile
<1>4. /\ \A m \in ActiveMems \cap found : row[m].content = x[2]
      /\ WithinLimit(x[2]) => \A m \in ActiveMems : row[m].content = x[2] => m \in found
  BY <1>1, Found
<1>5. ASSUME NEW m \in Mems, Settled(p, m), WithinLimit(row[m].content)
      PROVE  Settled(q, m)
  <2>1. m \notin found \ {x[1]}
    BY <1>2, <1>4, <1>5 DEF Settled
  <2> QED
    BY <1>5, <2>1 DEF Settled
<1>6. Settled(q, x[1])
  BY <1>2, <1>3 DEF Settled
<1>7. \A m \in Mems : Settled(q, m) => m = x[1] \/ Settled(p, m)
  BY <1>3 DEF Settled
<1>8. q.todo \subseteq Profile
  BY <1>2
<1>9. ASSUME NEW y \in q.todo
      PROVE  /\ y[1] \notin q.lose
             /\ WithinLimit(y[2]) => \A m \in Mems : Settled(q, m) => row[m].content # y[2]
  <2>1. y \in p.todo /\ y[1] \notin found
    OBVIOUS
  <2>2. y[1] \notin q.lose
    BY <1>2, <2>1
  <2>3. WithinLimit(y[2]) => y[2] # x[2]
    BY <1>3, <1>4, <2>1
  <2> QED
    BY <1>2, <1>3, <1>7, <2>1, <2>2, <2>3
<1>10. ASSUME NEW n \in q.lose \cap ActiveMems, WithinLimit(row[n].content)
       PROVE  \E m \in Mems : /\ Settled(q, m)
                              /\ row[m].content = row[n].content
                              /\ row[m].imp >= row[n].imp
  <2>1. CASE n \in p.lose
    <3>1. PICK m \in Mems : /\ Settled(p, m)
                            /\ row[m].content = row[n].content
                            /\ row[m].imp >= row[n].imp
      BY <1>2, <1>10, <2>1
    <3> QED
      BY <1>5, <1>10, <3>1
  <2>2. CASE n \in (found \ {x[1]}) \ p.lose
    <3>1. row[n].content = x[2] /\ n # x[1]
      BY <1>4, <1>10, <2>2
    <3>2. ~Settled(p, n)
      BY <1>1, <1>2, <1>10, <2>2, <3>1
    <3>3. PICK y \in p.todo : y[1] = n
      BY <1>10, <2>2, <3>2 DEF Settled
    <3>4. row[n].imp \in Int /\ row[x[1]].imp \in Int
      BY <1>1, <1>3, <1>10, UMAssumption DEF IInv, Types, Row
    <3>5. row[x[1]].imp >= row[n].imp
      BY <1>3, <3>1, <3>3, <3>4 DEF Leads
    <3>6. x[1] \in Mems /\ row[x[1]].content = row[n].content
      BY <1>3, <3>1 DEF ActiveMems
    <3> QED
      BY <1>6, <3>5, <3>6
  <2> QED
    BY <1>10, <2>1, <2>2
<1> QED
  BY <1>8, <1>9, <1>10 DEF Sorts

LEMMA DedupTurn ==
  ASSUME IInv, IInv', NEW a \in Actors, Turn(actors[a]), DedupLeader(a), UNCHANGED faults
  PROVE  Turn(actors[a])'
<1>1. /\ actors[a] \in Actor /\ Fit(actors[a]) /\ actors[a].pc = "dedup"
      /\ UNCHANGED <<row, vec, cache>> /\ actors[a].next # "index"
  BY DEF DedupLeader, At, IInv, Types, Fit, Indexing
<1>0. ~Fails
  BY DEF Fails, IInv, Types
<1>2. CASE actors[a].todo = {} /\ Goto(a, IF actors[a].lose = {} THEN "decay" ELSE "cull")
  <2>1. PICK pc \in {"decay", "cull"} : Goto(a, pc)
    BY <1>2
  <2>2. PICK q : q = [actors[a] EXCEPT !.pc = pc] /\ Become(a, q)
    BY <2>1 DEF Goto
  <2>3. /\ q.pc = pc /\ q.todo = actors[a].todo /\ q.lose = actors[a].lose
        /\ q.next = actors[a].next /\ q.changed = actors[a].changed
    BY <1>1, <2>2 DEF Actor
  <2>4. Sorts(q)
    BY <1>1, <2>3 DEF Turn, Sorts, Settled
  <2> QED
    BY <1>1, <2>2, <2>3, <2>4, JanitorTurn DEF JanitorSteps
<1>3. ASSUME NEW x \in actors[a].todo, \A y \in actors[a].todo \ {x} : Leads(x, y),
             NEW found \in Neighbors(x[2]),
             Become(a, [actors[a] EXCEPT
                !.lose = @ \cup (found \ {x[1]}),
                !.todo = {y \in @ \ {x} : y[1] \notin found}])
      PROVE  Turn(actors[a])'
  <2>1. PICK q : /\ q = [actors[a] EXCEPT !.lose = @ \cup (found \ {x[1]}),
                                          !.todo = {y \in @ \ {x} : y[1] \notin found}]
                 /\ Become(a, q)
    BY <1>3
  <2>2. /\ q.pc = "dedup" /\ q.todo = {y \in actors[a].todo \ {x} : y[1] \notin found}
        /\ q.lose = actors[a].lose \cup (found \ {x[1]})
        /\ q.next = actors[a].next /\ q.changed = actors[a].changed
    BY <1>1, <2>1 DEF Actor
  <2>3. Sorts(q)
    <3>1. PICK p \in Actor : p = actors[a]
      BY <1>1
    <3>2. /\ Turn(p) /\ Fit(p) /\ p.pc = "dedup" /\ x \in p.todo
          /\ \A y \in p.todo \ {x} : Leads(x, y)
          /\ q.lose = p.lose \cup (found \ {x[1]})
          /\ q.todo = {y \in p.todo \ {x} : y[1] \notin found}
      BY <1>1, <1>3, <2>2, <3>1
    <3> QED
      BY <1>3, <2>2, <3>2, LeaderSorts, SMTT(30)
  <2> QED
    BY <1>1, <2>1, <2>2, <2>3, JanitorTurn DEF JanitorSteps
<1> QED
  BY <1>0, <1>1, <1>2, <1>3 DEF DedupLeader

(* What a cull does to the rows. *)
LEMMA CullRows ==
  ASSUME IInv, NEW a \in Actors, SoftDelete(actors[a].lose)
  PROVE  /\ \A m \in Mems : m \notin actors[a].lose \/ ~Active(m) => row'[m] = row[m]
         /\ \A m \in actors[a].lose : ~Active(m)'
         /\ ActiveMems' = ActiveMems \ actors[a].lose
         /\ (\A m \in actors[a].lose : ~Active(m)) => row' = row
<1>1. actors[a].lose \subseteq Mems /\ row \in [Mems -> Row]
  BY DEF IInv, Types, Actor
<1>2. row' = [m \in Mems |-> IF m \in actors[a].lose /\ Active(m)
                             THEN [NoRow EXCEPT !.st = "culled", !.content = row[m].content]
                             ELSE row[m]]
  BY DEF SoftDelete
<1>3. \A m \in Mems : IF m \in actors[a].lose /\ Active(m) THEN row'[m].st = "culled"
                      ELSE row'[m] = row[m]
  BY <1>2 DEF NoRow
<1>4. (\A m \in actors[a].lose : ~Active(m)) => row' = row
  BY <1>1, <1>2
<1> QED
  BY <1>1, <1>3, <1>4 DEF ActiveMems, Active

LEMMA CullTurn ==
  ASSUME IInv, IInv', NEW a \in Actors, Turn(actors[a]), actors[a].pc \in JanitorSteps,
         NEW then \in {"decay", "invalidate"}, Culls(a, then)
  PROVE  Turn(actors[a])'
<1>1. /\ actors[a] \in Actor /\ Fit(actors[a]) /\ UNCHANGED <<vec, cache>>
      /\ SoftDelete(actors[a].lose)
  BY DEF Culls, IInv, Types
<1>2. PICK q : /\ q = [actors[a] EXCEPT !.pc = "unindex", !.next = then,
                         !.changed = @ \/ \E m \in actors[a].lose : Active(m)]
               /\ Become(a, q)
  BY DEF Culls
<1>3. q = actors'[a] /\ q \in Actor
  BY <1>2, Becomes
<1>4. q.pc = "unindex" /\ q.next = then
  BY <1>1, <1>2 DEF Actor
<1>5. q.changed = (actors[a].changed \/ \E m \in actors[a].lose : Active(m))
  BY <1>1, <1>2, Zenon DEF Actor
<1>6. \A m \in ActiveMems' : m \in ActiveMems /\ row'[m] = row[m]
  BY <1>1, CullRows DEF ActiveMems
<1>7. Exact(q)'
  BY <1>1, <1>6, JanitorExact DEF Exact
<1>8. Current(q)'
  <2>1. CASE q.changed
    BY <1>4, <2>1 DEF Current, Changing
  <2>2. CASE ~q.changed
    <3>1. ~actors[a].changed /\ \A m \in actors[a].lose : ~Active(m)
      BY <1>5, <2>2
    <3>2. UNCHANGED row
      BY <1>1, <3>1, CullRows
    <3>3. cache \in {None, Profile}
      BY <3>1 DEF Turn, Current, Changing, JanitorSteps
    <3> QED
      BY <1>1, <3>2, <3>3, ProfileSame DEF Current
  <2> QED
    BY <2>1, <2>2
<1>9. Holds(q)' /\ Sorts(q)'
  BY <1>4 DEF Holds, Sorts, Indexing
<1> QED
  BY <1>3, <1>7, <1>8, <1>9, TurnHere DEF Turn

LEMMA DecayTurn ==
  ASSUME IInv, IInv', NEW a \in Actors, Turn(actors[a]), Decay(a)
  PROVE  Turn(actors[a])'
<1>1. PICK hit \in SUBSET ActiveMems :
        /\ actors[a].pc = "decay"
        /\ row' = [m \in Mems |-> IF m \in hit /\ row[m].imp > 0
                                  THEN [row[m] EXCEPT !.imp = @ - 1] ELSE row[m]]
        /\ Become(a, [actors[a] EXCEPT !.pc = "evict", !.changed = @ \/ hit # {}])
        /\ UNCHANGED <<vec, cache>>
  BY DEF Decay, At
<1>2. PICK q : /\ q = [actors[a] EXCEPT !.pc = "evict", !.changed = @ \/ hit # {}]
               /\ Become(a, q)
  BY <1>1
<1>3. /\ q = actors'[a] /\ q \in Actor /\ Fit(q)' /\ actors[a] \in Actor
      /\ Fit(actors[a])
  BY <1>2, Becomes
<1>4. q.pc = "evict"
  BY <1>2, <1>3 DEF Actor
<1>5. q.changed = (actors[a].changed \/ hit # {})
  BY <1>2, <1>3, Zenon DEF Actor
<1>6. \A m \in Mems : row'[m].st = row[m].st /\ row'[m].content = row[m].content
  BY <1>1 DEF IInv, Types, Row
<1>7. Exact(q)'
  <2>1. ActiveMems' = ActiveMems /\ ActiveMems \subseteq Mems
    BY <1>6 DEF ActiveMems, Active
  <2> QED
    BY <1>1, <1>3, <1>6, <2>1, JanitorExact DEF Exact, JanitorSteps
<1>8. Current(q)'
  <2>1. CASE q.changed
    BY <1>4, <2>1 DEF Current, Changing, JanitorSteps
  <2>2. CASE ~q.changed
    <3>1. ~actors[a].changed /\ hit = {}
      BY <1>5, <2>2
    <3>2. UNCHANGED row
      BY <1>1, <3>1 DEF IInv, Types
    <3>3. cache \in {None, Profile}
      BY <1>1, <3>1 DEF Turn, Current, Changing
    <3> QED
      BY <1>1, <3>2, <3>3, ProfileSame DEF Current
  <2> QED
    BY <2>1, <2>2
<1>9. Holds(q)' /\ Sorts(q)'
  BY <1>3, <1>4 DEF Holds, Sorts, Fit
<1> QED
  BY <1>3, <1>7, <1>8, <1>9, TurnHere DEF Turn

LEMMA SelectDoomedTurn ==
  ASSUME IInv, IInv', NEW a \in Actors, Turn(actors[a]), SelectDoomed(a)
  PROVE  Turn(actors[a])'
<1> DEFINE doomed == {m \in ActiveMems : row[m].imp < Floor}
<1>1. /\ actors[a] \in Actor /\ Fit(actors[a]) /\ actors[a].pc = "evict"
      /\ UNCHANGED <<row, vec, cache>> /\ actors[a].next # "index"
  BY DEF SelectDoomed, At, IInv, Types, Fit, Indexing
<1>2. CASE doomed # {}
  <2>1. PICK q : q = [actors[a] EXCEPT !.pc = "evictCull", !.lose = doomed] /\ Become(a, q)
    BY <1>2 DEF SelectDoomed
  <2>2. /\ q.pc = "evictCull" /\ q.lose = doomed /\ q.next = actors[a].next
        /\ q.changed = actors[a].changed
    BY <1>1, <2>1 DEF Actor
  <2>3. Sorts(q)
    BY <2>2 DEF Sorts
  <2> QED
    BY <1>1, <2>1, <2>2, <2>3, JanitorTurn DEF JanitorSteps
<1>3. CASE doomed = {} /\ actors[a].changed
  <2>1. PICK q : q = [Idle EXCEPT !.pc = "invalidate"] /\ Become(a, q)
    BY <1>3 DEF SelectDoomed
  <2>2. q.pc = "invalidate" /\ q.next = "idle"
    BY <2>1 DEF Idle
  <2>3. Sorts(q)
    BY <2>2 DEF Sorts
  <2> QED
    BY <1>1, <2>1, <2>2, <2>3, JanitorTurn DEF JanitorSteps
<1>4. CASE doomed = {} /\ ~actors[a].changed
  <2>1. actors'[a] = Idle
    BY <1>4, Becomes DEF SelectDoomed
  <2>2. cache \in {None, Profile}
    BY <1>1, <1>4 DEF Turn, Current, Changing
  <2>3. \A m \in Mems : ~Rewriting(actors[a], m)
    BY <1>1 DEF Rewriting, Indexing
  <2>4. Holds(Idle) /\ Idle.pc \notin JanitorSteps
    BY IdleFields DEF Holds, Indexing, JanitorSteps
  <2> QED
    BY <1>1, <2>1, <2>2, <2>3, <2>4, IdleType, QuietTurn, TurnHere
<1> QED
  BY <1>2, <1>3, <1>4

-------------------------------------------------------------------------------
(* One step at a time *)

Arrive(a) ==
  \/ \E m \in Mems, c \in Contents, imp \in 0..TopImp : Persist(a, m, c, imp)
  \/ \E m \in Mems, c \in Contents \cup {None}, imp \in NoEdit..TopImp : Patch(a, m, c, imp)
  \/ \E m \in Mems : DeleteMemory(a, m)
  \/ ReadProfile(a)
  \/ StartJanitor(a)

Work(a) ==
  \/ Invalidate(a) \/ Index(a) \/ Unindex(a)
  \/ PatchCommit(a) \/ PatchRefresh(a) \/ DeleteCommit(a) \/ WriteBack(a)
  \/ DedupLeader(a) \/ CullDuplicates(a) \/ Decay(a) \/ SelectDoomed(a) \/ EvictCull(a)
  \/ Crash(a)

LEMMA NextSteps == Next <=> \E a \in Actors : Arrive(a) \/ Work(a)
BY Zenon DEF Next, Arrive, Work

LEMMA StepTurn ==
  ASSUME IInv, IInv', NEW a \in Actors, Turn(actors[a]), Arrive(a) \/ Work(a), faults' = 0
  PROVE  Turn(actors[a])'
<1>1. UNCHANGED faults /\ ~Fails
  <2>1. faults \in Nat
    BY DEF IInv, Types
  <2>2. UNCHANGED faults \/ Fails
    BY Zenon DEF Arrive, Work, Persist, Patch, DeleteMemory, ReadProfile, StartJanitor,
         Invalidate, Index, Unindex, PatchCommit, PatchRefresh, DeleteCommit, WriteBack,
         DedupLeader, CullDuplicates, Decay, SelectDoomed, EvictCull, Crash, Culls, Works
  <2> QED
    BY <2>1, <2>2 DEF Fails
<1>2. ASSUME NEW m \in Mems, NEW c \in Contents, NEW imp \in 0..TopImp, Persist(a, m, c, imp)
      PROVE  Turn(actors[a])'
  BY <1>2, PersistTurn
<1>3. CASE \/ \E m \in Mems, c \in Contents \cup {None}, imp \in NoEdit..TopImp :
                Patch(a, m, c, imp)
           \/ \E m \in Mems : DeleteMemory(a, m)
  BY <1>3, RequestTurn
<1>4. CASE ReadProfile(a)
  BY <1>4, ReadTurn
<1>5. CASE CullDuplicates(a) \/ EvictCull(a)
  BY <1>5, CullTurn DEF CullDuplicates, EvictCull, At, JanitorSteps
<1>6. CASE \/ StartJanitor(a) \/ Invalidate(a) \/ Index(a) \/ Unindex(a)
           \/ PatchCommit(a) \/ PatchRefresh(a) \/ DeleteCommit(a) \/ WriteBack(a)
           \/ DedupLeader(a) \/ Decay(a) \/ SelectDoomed(a)
  BY <1>1, <1>6, StartJanitorTurn, InvalidateTurn, IndexTurn, UnindexTurn, PatchCommitTurn,
     PatchRefreshTurn, DeleteCommitTurn, WriteBackTurn, DedupTurn, DecayTurn,
     SelectDoomedTurn, Zenon
<1> QED
  BY <1>1, <1>2, <1>3, <1>4, <1>5, <1>6, Zenon DEF Arrive, Work, Crash

Rested == \A a \in Actors : At(a, "idle") => actors[a] = Idle

AtMostOne == \A a, b \in Busy : a = b

TurnIInv ==
  /\ IsFiniteSet(Busy)
  /\ Rested
  /\ ~overlapped => AtMostOne
  /\ InTurn => \A a \in Actors : Busy \subseteq {a} => Turn(actors[a])

LEMMA AtMostOneOf ==
  ASSUME NEW S, IsFiniteSet(S), ~(Cardinality(S) > 1)
  PROVE  \A x, y \in S : x = y
<1>1. Cardinality(S) \in Nat
  BY FS_CardinalityType
<1>2. Cardinality(S) = 0 \/ Cardinality(S) = 1
  BY <1>1
<1>3. S = {} \/ \E x : S = {x}
  BY <1>2, FS_EmptySet, FS_Singleton
<1> QED
  BY <1>3

(* Only the actor that steps moves; it comes to rest as it began, and a    *)
(* request that arrives is at work.                                        *)
Others(a) == \A b \in Actors : b # a => actors'[b] = actors[b]

Rests(a) == Others(a) /\ actors'[a] = Idle

Goes(a) == Others(a) /\ actors'[a].pc # "idle"

LEMMA GoesTo ==
  ASSUME IInv, NEW a \in Actors, NEW q, Become(a, q), q.pc # "idle"
  PROVE  Goes(a)
BY DEF Goes, Others, Become, IInv, Types

LEMMA ArriveGoes ==
  ASSUME IInv, NEW a \in Actors, Arrive(a)
  PROVE  Goes(a) /\ At(a, "idle")
<1>1. ASSUME NEW m \in Mems, NEW c \in Contents, NEW imp \in 0..TopImp, Persist(a, m, c, imp)
      PROVE  Goes(a) /\ At(a, "idle")
  <2>1. PICK q : /\ q = [Idle EXCEPT !.pc = "invalidate", !.mem = m, !.content = c,
                                     !.next = "index"]
                 /\ Become(a, q)
    BY <1>1 DEF Persist
  <2>2. q.pc = "invalidate"
    BY <2>1 DEF Idle
  <2> QED
    BY <1>1, <2>1, <2>2, GoesTo DEF Persist
<1>2. ASSUME NEW m \in Mems, NEW c, NEW imp, Patch(a, m, c, imp)
      PROVE  Goes(a) /\ At(a, "idle")
  <2>1. PICK q : /\ q = [Idle EXCEPT !.pc = "patch", !.mem = m, !.content = c, !.imp = imp]
                 /\ Become(a, q)
    BY <1>2 DEF Patch
  <2>2. q.pc = "patch"
    BY <2>1 DEF Idle
  <2> QED
    BY <1>2, <2>1, <2>2, GoesTo DEF Patch
<1>3. ASSUME NEW m \in Mems, DeleteMemory(a, m)
      PROVE  Goes(a) /\ At(a, "idle")
  <2>1. PICK q : q = [Idle EXCEPT !.pc = "delete", !.mem = m] /\ Become(a, q)
    BY <1>3 DEF DeleteMemory
  <2>2. q.pc = "delete"
    BY <2>1 DEF Idle
  <2> QED
    BY <1>3, <2>1, <2>2, GoesTo DEF DeleteMemory
<1>4. ASSUME ReadProfile(a)
      PROVE  Goes(a) /\ At(a, "idle")
  <2>1. PICK q : q = [Idle EXCEPT !.pc = "writeBack", !.todo = Profile] /\ Become(a, q)
    BY <1>4 DEF ReadProfile
  <2>2. q.pc = "writeBack"
    BY <2>1 DEF Idle
  <2> QED
    BY <1>4, <2>1, <2>2, GoesTo DEF ReadProfile
<1>5. ASSUME StartJanitor(a)
      PROVE  Goes(a) /\ At(a, "idle")
  <2>1. PICK pc \in {"decay", "dedup"} : Become(a, [Idle EXCEPT !.pc = pc, !.todo = Profile])
    BY <1>5 DEF StartJanitor
  <2>2. PICK q : q = [Idle EXCEPT !.pc = pc, !.todo = Profile] /\ Become(a, q)
    BY <2>1
  <2>3. q.pc = pc /\ pc # "idle"
    BY <2>2 DEF Idle
  <2> QED
    BY <1>5, <2>2, <2>3, GoesTo DEF StartJanitor
<1> QED
  BY <1>1, <1>2, <1>3, <1>4, <1>5 DEF Arrive

LEMMA WorkRestsOrGoes ==
  ASSUME IInv, NEW a \in Actors, Work(a)
  PROVE  ~At(a, "idle") /\ (Rests(a) \/ Goes(a))
<1>1. actors[a] \in Actor /\ Fit(actors[a])
  BY DEF IInv, Types
<1>2. ~At(a, "idle")
  BY DEF Work, At, Invalidate, Index, Unindex, PatchCommit, PatchRefresh, DeleteCommit,
         WriteBack, DedupLeader, CullDuplicates, Decay, SelectDoomed, EvictCull, Crash
<1> SUFFICES Rests(a) \/ Goes(a)
  BY <1>2
<1>3. End(a) => Rests(a)
  BY DEF End, Become, Rests, Others, IInv, Types
<1>4. ASSUME NEW pc, pc # "idle", Goto(a, pc) PROVE Goes(a)
  <2>1. PICK q : q = [actors[a] EXCEPT !.pc = pc] /\ Become(a, q)
    BY <1>4 DEF Goto
  <2>2. q.pc = pc
    BY <1>1, <2>1 DEF Actor
  <2> QED
    BY <1>4, <2>1, <2>2, GoesTo
<1>5. CASE Invalidate(a)
  BY <1>3, <1>4, <1>5, Zenon DEF Invalidate
<1>6. CASE \/ Index(a) \/ PatchCommit(a) \/ WriteBack(a) \/ Crash(a)
  <2>1. End(a) \/ \E pc \in {"invalidate", "refresh"} : Goto(a, pc)
    BY <1>6 DEF Index, PatchCommit, WriteBack, Crash
  <2> QED
    BY <1>3, <1>4, <2>1
<1>7. CASE Unindex(a)
  <2>1. PICK q \in Actor : Become(a, q) /\ q.pc \in {actors[a].next, "unindex"}
    BY <1>7, UnindexStep
  <2>2. q.pc # "idle"
    BY <1>1, <1>7, <2>1 DEF Unindex, At, Fit
  <2> QED
    BY <2>1, <2>2, GoesTo
<1>8. CASE PatchRefresh(a)
  <2>1. \/ End(a)
        \/ Become(a, [Idle EXCEPT !.pc = "reindex", !.mem = actors[a].mem,
                                  !.content = row[actors[a].mem].content])
    BY <1>8 DEF PatchRefresh
  <2>2. ASSUME NEW q, q = [Idle EXCEPT !.pc = "reindex", !.mem = actors[a].mem,
                                       !.content = row[actors[a].mem].content]
        PROVE  q.pc # "idle"
    BY <2>2 DEF Idle
  <2> QED
    BY <1>3, <2>1, <2>2, GoesTo
<1>9. CASE DeleteCommit(a)
  <2>1. PICK q : /\ q = [Idle EXCEPT !.pc = "unindex", !.lose = {actors[a].mem},
                                     !.next = "invalidate"]
                 /\ Become(a, q)
    BY <1>9 DEF DeleteCommit
  <2>2. q.pc # "idle"
    BY <2>1 DEF Idle
  <2> QED
    BY <2>1, <2>2, GoesTo
<1>10. CASE DedupLeader(a)
  <2>1. \/ \E pc \in {"decay", "cull"} : Goto(a, pc)
        \/ \E lose, todo : Become(a, [actors[a] EXCEPT !.lose = lose, !.todo = todo])
        \/ \E todo : Become(a, [actors[a] EXCEPT !.todo = todo])
    BY <1>1, <1>10, Zenon DEF DedupLeader
  <2>2. ASSUME NEW lose, NEW todo, Become(a, [actors[a] EXCEPT !.lose = lose, !.todo = todo])
        PROVE  Goes(a)
    <3>1. PICK q : q = [actors[a] EXCEPT !.lose = lose, !.todo = todo] /\ Become(a, q)
      BY <2>2
    <3>2. q.pc # "idle"
      BY <1>1, <1>2, <3>1 DEF Actor, At
    <3> QED
      BY <3>1, <3>2, GoesTo
  <2>3. ASSUME NEW todo, Become(a, [actors[a] EXCEPT !.todo = todo])
        PROVE  Goes(a)
    <3>1. PICK q : q = [actors[a] EXCEPT !.todo = todo] /\ Become(a, q)
      BY <2>3
    <3>2. q.pc # "idle"
      BY <1>1, <1>2, <3>1 DEF Actor, At
    <3> QED
      BY <3>1, <3>2, GoesTo
  <2> QED
    BY <1>4, <2>1, <2>2, <2>3
<1>11. ASSUME NEW then, Culls(a, then) PROVE Goes(a)
  <2>1. PICK q : /\ q = [actors[a] EXCEPT !.pc = "unindex", !.next = then,
                           !.changed = @ \/ \E m \in actors[a].lose : Active(m)]
                 /\ Become(a, q)
    BY <1>11 DEF Culls
  <2>2. q.pc = "unindex"
    BY <1>1, <2>1 DEF Actor
  <2> QED
    BY <2>1, <2>2, GoesTo
<1>12. CASE Decay(a)
  <2>1. PICK hit : Become(a, [actors[a] EXCEPT !.pc = "evict", !.changed = @ \/ hit # {}])
    BY <1>12 DEF Decay
  <2>2. PICK q : /\ q = [actors[a] EXCEPT !.pc = "evict", !.changed = @ \/ hit # {}]
                 /\ Become(a, q)
    BY <2>1
  <2>3. q.pc = "evict"
    BY <1>1, <2>2 DEF Actor
  <2> QED
    BY <2>2, <2>3, GoesTo
<1>13. CASE SelectDoomed(a)
  <2> DEFINE doomed == {m \in ActiveMems : row[m].imp < Floor}
  <2>1. \/ End(a)
        \/ Become(a, [Idle EXCEPT !.pc = "invalidate"])
        \/ Become(a, [actors[a] EXCEPT !.pc = "evictCull", !.lose = doomed])
    BY <1>13 DEF SelectDoomed, End
  <2> HIDE DEF doomed
  <2>2. ASSUME NEW q, q = [Idle EXCEPT !.pc = "invalidate"]
        PROVE  q.pc # "idle"
    BY <2>2 DEF Idle
  <2>3. ASSUME NEW q, q = [actors[a] EXCEPT !.pc = "evictCull", !.lose = doomed]
        PROVE  q.pc # "idle"
    BY <1>1, <2>3 DEF Actor
  <2> QED
    BY <1>3, <2>1, <2>2, <2>3, GoesTo
<1> QED
  BY <1>5, <1>6, <1>7, <1>8, <1>9, <1>10, <1>11, <1>12, <1>13
  DEF Work, CullDuplicates, EvictCull

LEMMA StepRests ==
  ASSUME IInv, Rested, NEW a \in Actors, Arrive(a) \/ Work(a)
  PROVE  /\ Others(a)
         /\ At(a, "idle") => a \in Busy'
         /\ Rested'
         /\ Busy' \subseteq Busy \cup {a}
<1>1. Rests(a) \/ Goes(a)
  BY ArriveGoes, WorkRestsOrGoes
<1>2. Others(a)
  BY <1>1 DEF Rests, Goes
<1>3. At(a, "idle") => a \in Busy'
  BY ArriveGoes, WorkRestsOrGoes DEF Goes, Busy, At
<1>4. Rested'
  BY <1>1, <1>2 DEF Rested, Rests, Goes, At, Others
<1> QED
  BY <1>2, <1>3, <1>4 DEF Busy, At, Others

LEMMA NextTurn == IInv /\ TurnIInv /\ [MCNext]_mcvars => TurnIInv'
<1> SUFFICES ASSUME IInv, TurnIInv, [MCNext]_mcvars PROVE TurnIInv'
  OBVIOUS
<1>1. CASE MCNext
  <2>1. PICK a \in Actors : Arrive(a) \/ Work(a)
    BY <1>1, NextSteps DEF MCNext
  <2>2. /\ \A b \in Actors : b # a => actors'[b] = actors[b]
        /\ At(a, "idle") => a \in Busy'
        /\ Rested'
        /\ Busy' \subseteq Busy \cup {a}
    BY <2>1, StepRests DEF TurnIInv, Others
  <2>3. IsFiniteSet(Busy')
    <3>1. IsFiniteSet(Busy \cup {a})
      BY FS_AddElement DEF TurnIInv
    <3> QED
      BY <2>2, <3>1, FS_Subset
  <2>4. ASSUME ~overlapped'
        PROVE  AtMostOne' /\ ~overlapped /\ Busy \subseteq {a}
    <3>1. ~overlapped /\ ~(Cardinality(Busy') > 1)
      BY <1>1, <2>4 DEF MCNext
    <3>2. AtMostOne'
      BY <2>3, <3>1, AtMostOneOf DEF AtMostOne
    <3>3. Busy \subseteq {a}
      <4> SUFFICES ASSUME NEW b \in Busy, b # a PROVE FALSE
        OBVIOUS
      <4>1. b \in Busy' /\ b \in Actors
        BY <2>2 DEF Busy, At
      <4>2. a \notin Busy
        BY <3>1 DEF TurnIInv, AtMostOne
      <4>3. a \in Busy'
        BY <2>2, <4>2 DEF Busy
      <4> QED
        BY <3>2, <4>1, <4>3 DEF AtMostOne
    <3> QED
      BY <3>1, <3>2, <3>3
  <2>5. ASSUME InTurn', NEW b \in Actors, Busy' \subseteq {b}
        PROVE  Turn(actors[b])'
    <3>1. faults = 0 /\ faults' = 0
      <4>1. UNCHANGED faults \/ Fails
        BY <2>1, Zenon DEF Arrive, Work, Persist, Patch, DeleteMemory, ReadProfile,
             StartJanitor, Invalidate, Index, Unindex, PatchCommit, PatchRefresh,
             DeleteCommit, WriteBack, DedupLeader, CullDuplicates, Decay, SelectDoomed,
             EvictCull, Crash, Culls, Works
      <4> QED
        BY <2>5, <4>1 DEF InTurn, Fails, IInv, Types
    <3>2. ~overlapped /\ Busy \subseteq {a}
      BY <2>4, <2>5 DEF InTurn
    <3>3. Turn(actors[a])
      BY <3>1, <3>2 DEF TurnIInv, InTurn
    <3>4. IInv'
      <4>1. [Next]_vars
        BY <1>1 DEF MCNext
      <4> QED
        BY <4>1, NextIInv
    <3>5. Turn(actors[a])'
      BY <2>1, <3>1, <3>3, <3>4, StepTurn
    <3>6. CASE b = a
      BY <3>5, <3>6
    <3>7. CASE b # a
      <4>1. b \notin Busy' /\ a \notin Busy'
        BY <2>2, <2>5, <3>2, <3>7 DEF Busy, At
      <4>2. actors'[a] = actors'[b]
        BY <2>2, <4>1 DEF Busy, Rested
      <4> QED
        BY <3>5, <4>2 DEF Turn, Current, Exact, Holds, Sorts, Changing, Rewriting,
                          Settled, Indexing, WithinLimit
    <3> QED
      BY <3>6, <3>7
  <2> QED
    BY <2>2, <2>3, <2>4, <2>5 DEF TurnIInv
<1>2. CASE UNCHANGED mcvars
  <2>1. UNCHANGED <<row, vec, cache, actors, faults, overlapped>>
    BY <1>2 DEF mcvars, vars
  <2>2. Busy' = Busy /\ Rested' /\ (AtMostOne => AtMostOne')
    BY <2>1 DEF TurnIInv, Busy, Rested, AtMostOne, At, Idle
  <2>3. UNCHANGED <<ActiveMems, Profile>>
    BY <2>1, ProfileSame
  <2>4. \A a \in Actors : Turn(actors[a]) => Turn(actors[a])'
    BY <2>1, <2>3 DEF Turn, Current, Exact, Holds, Sorts, Changing, Rewriting, Settled,
                      Indexing, Active, WithinLimit
  <2> QED
    BY <2>1, <2>2, <2>4 DEF TurnIInv, InTurn
<1> QED
  BY <1>1, <1>2

LEMMA InitTurn == MCInit => IInv /\ TurnIInv
<1> SUFFICES ASSUME MCInit PROVE TurnIInv
  BY InitIInv DEF MCInit
<1>1. /\ cache = None /\ \A m \in Mems : row[m].st = "none"
      /\ \A a \in Actors : actors[a] = Idle
  BY DEF MCInit, Init, NoRow
<1>2. Busy = {} /\ Rested
  BY <1>1, IdleFields DEF Busy, Rested, At
<1>3. Turn(Idle)
  BY <1>1, IdleTurn DEF ActiveMems, Active
<1> QED
  BY <1>1, <1>2, <1>3, FS_EmptySet DEF TurnIInv, AtMostOne

(* The invariants of the model hold with the history variable too. *)
LEMMA TurnInvariance == MCSpec => [](IInv /\ TurnIInv)
<1>1. [MCNext]_mcvars => [Next]_vars
  BY DEF MCNext, mcvars
<1> QED
  BY <1>1, InitTurn, NextIInv, NextTurn, PTL DEF MCSpec

LEMMA AtRest ==
  ASSUME IInv, TurnIInv, InTurn, AllIdle
  PROVE  cache \in {None, Profile} /\ \A m \in ActiveMems : vec[m] = row[m].content
<1>1. PICK a \in Actors : Busy \subseteq {a}
  BY UMAssumption DEF AllIdle, Busy
<1>2. Turn(actors[a]) /\ actors[a].pc = "idle" /\ actors[a] \in Actor /\ Fit(actors[a])
  BY <1>1 DEF TurnIInv, AllIdle, At, IInv, Types
<1> QED
  BY <1>2, TurnIdle

(* At rest the hot profile is absent or what the rows say, however many    *)
(* writes, edits, deletions, reads and nights went before: every commit is *)
(* followed by invalidate_profile_cache before its writer rests.           *)
THEOREM ProfileFresh == MCSpec => []ProfileIsFreshInTurn
<1>1. IInv /\ TurnIInv => ProfileIsFreshInTurn
  BY AtRest DEF ProfileIsFreshInTurn
<1> QED
  BY <1>1, TurnInvariance, PTL

(* At rest the index holds what each living memory says now (the re-index  *)
(* of an edit reads the row after its commit).                             *)
THEOREM IndexMatches == MCSpec => []IndexMatchesRowInTurn
<1>1. IInv /\ TurnIInv => IndexMatchesRowInTurn
  BY AtRest DEF IndexMatchesRowInTurn
<1> QED
  BY <1>1, TurnInvariance, PTL

(* A cull in turn takes only what its record says. *)
LEMMA CullInTurn ==
  ASSUME IInv, TurnIInv, InTurn, NEW a \in Actors, CullDuplicates(a) \/ EvictCull(a)
  PROVE  /\ Sorts(actors[a])
         /\ \A n \in Mems : Culled(n) => n \in actors[a].lose \cap ActiveMems
         /\ \A m \in ActiveMems \ actors[a].lose : m \in Mems /\ row'[m] = row[m]
<1>1. a \in Busy
  BY DEF CullDuplicates, EvictCull, At, Busy
<1>2. Busy \subseteq {a}
  BY <1>1 DEF TurnIInv, AtMostOne, InTurn
<1>3. Sorts(actors[a])
  BY <1>2 DEF TurnIInv, Turn
<1>4. SoftDelete(actors[a].lose)
  BY DEF CullDuplicates, EvictCull, Culls
<1> QED
  BY <1>3, <1>4, CullRows DEF Culled, ActiveMems, Active

(* What is culled as a duplicate repeats a memory that stays and ranks as  *)
(* high (_dedup goes through the most important first and never lets a     *)
(* loser lead) unless there are more duplicates than one search returns    *)
(* (_DEDUP_NEIGHBOR_LIMIT), and what is evicted is below the floor.        *)
THEOREM CullsOnlyWorse == MCSpec => CullsOnlyWorseInTurn
<1> DEFINE A == InTurn =>
       \A a \in Actors, n \in Mems :
         /\ CullDuplicates(a) /\ Culled(n) /\ WithinLimit(row[n].content) =>
              \E m \in Mems \ {n} : /\ row'[m].st = "active"
                                    /\ row'[m].content = row[n].content
                                    /\ row'[m].imp >= row[n].imp
         /\ EvictCull(a) /\ Culled(n) => row[n].imp < Floor
<1>1. IInv /\ TurnIInv => A
  <2> SUFFICES ASSUME IInv, TurnIInv, InTurn, NEW a \in Actors, NEW n \in Mems, Culled(n)
      PROVE  /\ CullDuplicates(a) /\ WithinLimit(row[n].content) =>
                  \E m \in Mems \ {n} : /\ row'[m].st = "active"
                                        /\ row'[m].content = row[n].content
                                        /\ row'[m].imp >= row[n].imp
             /\ EvictCull(a) => row[n].imp < Floor
    OBVIOUS
  <2>1. ASSUME CullDuplicates(a), WithinLimit(row[n].content)
        PROVE  \E m \in Mems \ {n} : /\ row'[m].st = "active"
                                     /\ row'[m].content = row[n].content
                                     /\ row'[m].imp >= row[n].imp
    <3>1. n \in actors[a].lose \cap ActiveMems /\ actors[a].pc = "cull"
      BY <2>1, CullInTurn DEF CullDuplicates, At
    <3>2. PICK m \in Mems : /\ Settled(actors[a], m)
                            /\ row[m].content = row[n].content
                            /\ row[m].imp >= row[n].imp
      BY <2>1, <3>1, CullInTurn DEF Sorts
    <3>3. row'[m] = row[m] /\ m # n /\ row[m].st = "active"
      BY <2>1, <3>1, <3>2, CullInTurn DEF Settled, ActiveMems, Active
    <3> QED
      BY <3>2, <3>3
  <2>2. ASSUME EvictCull(a)
        PROVE  row[n].imp < Floor
    BY <2>2, CullInTurn DEF EvictCull, At, Sorts
  <2> QED
    BY <2>1, <2>2
<1>2. IInv /\ TurnIInv /\ [MCNext]_mcvars => [A]_mcvars
  BY <1>1
<1>3. CullsOnlyWorseInTurn <=> [][A]_mcvars
  BY PTL DEF CullsOnlyWorseInTurn
<1> HIDE DEF A
<1> QED
  BY <1>2, <1>3, TurnInvariance, PTL DEF MCSpec

-------------------------------------------------------------------------------
(* Deduplication in turn, and one janitor among any writers, reads and     *)
(* deletions: no edit, one night.                                          *)

(* What deduplication still has to look at is not to go, and lives unless  *)
(* the user deleted it; what is to go repeats something that stays, or     *)
(* that the user deleted.                                                  *)
Spares(q) ==
  /\ \A y \in q.todo :
       /\ y[1] \notin q.lose
       /\ y[2] \in dropped \/ (y[1] \in ActiveMems /\ row[y[1]].content = y[2])
  /\ \A n \in q.lose \cap ActiveMems :
       \/ row[n].content \in dropped
       \/ \E m \in ActiveMems \ q.lose : row[m].content = row[n].content

Undisturbed == InTurn \/ (edits = 0 /\ nights <= 1)

(* The counters bound the janitors there have been. *)
OneJanitor ==
  /\ edits \in Nat /\ nights \in Nat
  /\ nights = 0 => \A a \in Actors : ~Janitor(a)
  /\ nights <= 1 => \A a, b \in Actors : Janitor(a) /\ Janitor(b) => a = b

(* Unless something is edited, what is indexed or about to be is what the  *)
(* memory says.                                                            *)
Unedited ==
  edits = 0 =>
    /\ \A a \in Actors : actors[a].pc \notin {"patch", "refresh", "reindex"}
    /\ \A m \in ActiveMems : vec[m] \in {None, row[m].content}
    /\ \A a \in Actors :
         /\ Indexing(actors[a]) \/ actors[a].pc = "index"
         /\ Active(actors[a].mem)
         => row[actors[a].mem].content = actors[a].content

Sparing ==
  Undisturbed =>
    \A a \in Actors : actors[a].pc \in {"dedup", "cull"} => Spares(actors[a])

LoneIInv == OneJanitor /\ Unedited /\ Sparing

(* What a step that edits nothing does to the living memories. *)
LEMMA LiveSteps ==
  ASSUME IInv, NEW a \in Actors, Arrive(a) \/ Work(a), actors[a].pc # "patch", NEW m \in Mems
  PROVE  /\ Active(m)' => row[m].st = "none" \/ (Active(m) /\ row'[m].content = row[m].content)
         /\ Active(m) /\ ~Janitor(a) => Active(m)' \/ row'[m].st = "gone"
<1>1. CASE UNCHANGED row
  BY <1>1 DEF Active
<1>2. ASSUME NEW n \in Mems, NEW c \in Contents, NEW imp \in 0..TopImp, Persist(a, n, c, imp)
      PROVE  /\ Active(m)' => row[m].st = "none" \/ (Active(m) /\ row'[m].content = row[m].content)
             /\ Active(m) => Active(m)'
  BY <1>2 DEF Persist, Active, IInv, Types
<1>3. CASE DeleteCommit(a)
  <2>1. PICK n \in Mems : n = actors[a].mem
    BY <1>3, OnRow DEF DeleteCommit, At, OnMemory
  <2>2. row' = [row EXCEPT ![n] = [NoRow EXCEPT !.st = "gone"]]
    BY <1>3, <2>1 DEF DeleteCommit
  <2>3. row'[n].st = "gone" /\ (m # n => row'[m] = row[m])
    BY <2>1, <2>2 DEF IInv, Types, NoRow
  <2> QED
    BY <2>3 DEF Active
<1>4. CASE CullDuplicates(a) \/ EvictCull(a)
  <2>1. SoftDelete(actors[a].lose) /\ Janitor(a)
    BY <1>4 DEF CullDuplicates, EvictCull, Culls, Janitor, JanitorSteps, At
  <2>2. Active(m)' => m \notin actors[a].lose
    BY <2>1, CullRows
  <2>3. m \notin actors[a].lose => row'[m] = row[m]
    BY <2>1, CullRows
  <2> QED
    BY <2>1, <2>2, <2>3 DEF Active
<1>5. CASE Decay(a)
  <2>1. PICK hit : row' = [n \in Mems |-> IF n \in hit /\ row[n].imp > 0
                                          THEN [row[n] EXCEPT !.imp = @ - 1] ELSE row[n]]
    BY <1>5 DEF Decay
  <2>2. row'[m].st = row[m].st /\ row'[m].content = row[m].content
    BY <2>1 DEF IInv, Types, Row
  <2> QED
    BY <2>2 DEF Active
<1>6. CASE \/ \E n \in Mems, c \in Contents \cup {None}, imp \in NoEdit..TopImp :
                Patch(a, n, c, imp)
           \/ \E n \in Mems : DeleteMemory(a, n)
           \/ ReadProfile(a) \/ StartJanitor(a)
           \/ Invalidate(a) \/ Index(a) \/ Unindex(a) \/ PatchRefresh(a) \/ WriteBack(a)
           \/ DedupLeader(a) \/ SelectDoomed(a) \/ Crash(a)
  <2>1. UNCHANGED row
    BY <1>6 DEF Patch, DeleteMemory, ReadProfile, StartJanitor, Invalidate, Index, Unindex,
                PatchRefresh, WriteBack, DedupLeader, SelectDoomed, Crash
  <2> QED
    BY <1>1, <2>1
<1>7. ~PatchCommit(a)
  BY DEF PatchCommit, At
<1> QED
  BY <1>2, <1>3, <1>4, <1>5, <1>6, <1>7 DEF Arrive, Work

(* A step is a janitor's, an edit's or a new memory's because the one      *)
(* before was, but when it starts one.                                     *)
Follows(p, q) ==
  /\ q.pc \in JanitorSteps \/ q.next \in JanitorSteps =>
       p.pc \in JanitorSteps \/ p.next \in JanitorSteps
  /\ q.pc \in {"dedup", "cull"} => p.pc = "dedup"
  /\ q.pc \in {"patch", "refresh", "reindex"} => p.pc \in {"patch", "refresh", "reindex"}
  /\ Indexing(q) \/ q.pc = "index" =>
       (Indexing(p) \/ p.pc = "index") /\ q.mem = p.mem /\ q.content = p.content

LEMMA Followed ==
  ASSUME IInv, NEW a \in Actors,
         Work(a) \/ ReadProfile(a) \/ \E m \in Mems : DeleteMemory(a, m)
  PROVE  Follows(actors[a], actors'[a])
<1>1. actors \in [Actors -> Actor] /\ actors[a] \in Actor /\ Fit(actors[a])
  BY DEF IInv, Types
<1>2. \A q : Become(a, q) => q = actors'[a]
  BY <1>1 DEF Become
<1>3. CASE End(a)
  <2>1. actors'[a] = Idle
    BY <1>2, <1>3 DEF End
  <2> QED
    BY <2>1, IdleFields DEF Follows, JanitorSteps, Indexing
<1>5. ASSUME NEW pc, Goto(a, pc)
      PROVE  /\ actors'[a].pc = pc /\ actors'[a].next = actors[a].next
             /\ actors'[a].mem = actors[a].mem /\ actors'[a].content = actors[a].content
  <2>1. PICK q : q = [actors[a] EXCEPT !.pc = pc] /\ Become(a, q)
    BY <1>5 DEF Goto
  <2>2. q = actors'[a]
    BY <1>2, <2>1
  <2> QED
    BY <1>1, <2>1, <2>2 DEF Actor
<1>6. CASE Invalidate(a)
  <2>1. CASE Goto(a, actors[a].next)
    <3>1. /\ actors'[a].pc = actors[a].next /\ actors'[a].next = actors[a].next
          /\ actors'[a].mem = actors[a].mem /\ actors'[a].content = actors[a].content
      BY <1>5, <2>1
    <3>2. actors[a].next \in {"idle", "index", "invalidate", "decay"}
      BY <1>1 DEF Actor
    <3> QED
      BY <3>1, <3>2 DEF Follows, Indexing, JanitorSteps
  <2> QED
    BY <1>3, <1>6, <2>1, Zenon DEF Invalidate
<1>7. CASE Index(a) /\ ~End(a)
  <2>1. Goto(a, "invalidate") /\ actors[a].pc = "reindex"
    BY <1>7 DEF Index, At
  <2>2. actors'[a].pc = "invalidate" /\ actors'[a].next = actors[a].next
    BY <1>5, <2>1
  <2> QED
    BY <1>1, <2>1, <2>2 DEF Follows, Indexing, JanitorSteps, Fit
<1>8. CASE PatchCommit(a) /\ ~End(a)
  <2>1. Goto(a, "refresh") /\ actors[a].pc = "patch"
    BY <1>8 DEF PatchCommit, At
  <2>2. actors'[a].pc = "refresh" /\ actors'[a].next = actors[a].next
    BY <1>5, <2>1
  <2> QED
    BY <1>1, <2>1, <2>2 DEF Follows, Indexing, JanitorSteps, Fit
<1>9. CASE Unindex(a)
  <2>1. PICK q \in Actor :
          /\ Become(a, q)
          /\ \/ q.pc = actors[a].next /\ q.next = "idle"
             \/ q.pc = "unindex" /\ q.next = actors[a].next
    BY <1>9, UnindexStep
  <2>2. q = actors'[a]
    BY <1>2, <2>1
  <2>3. actors[a].next \in {"invalidate", "decay"} /\ actors[a].pc = "unindex"
    BY <1>1, <1>9 DEF Unindex, At, Fit
  <2> QED
    BY <2>1, <2>2, <2>3 DEF Follows, Indexing, JanitorSteps
<1>10. CASE PatchRefresh(a) /\ ~End(a)
  <2>1. PICK q : /\ q = [Idle EXCEPT !.pc = "reindex", !.mem = actors[a].mem,
                                     !.content = row[actors[a].mem].content]
                 /\ Become(a, q) /\ actors[a].pc = "refresh"
    BY <1>10 DEF PatchRefresh, At
  <2>2. q = actors'[a] /\ q.pc = "reindex" /\ q.next = "idle"
    BY <1>2, <2>1 DEF Idle
  <2> QED
    BY <2>1, <2>2 DEF Follows, Indexing, JanitorSteps
<1>11. CASE DeleteCommit(a)
  <2>1. PICK q : /\ q = [Idle EXCEPT !.pc = "unindex", !.lose = {actors[a].mem},
                                     !.next = "invalidate"]
                 /\ Become(a, q)
    BY <1>11 DEF DeleteCommit
  <2>2. q = actors'[a] /\ q.pc = "unindex" /\ q.next = "invalidate"
    BY <1>2, <2>1 DEF Idle
  <2> QED
    BY <2>2 DEF Follows, Indexing, JanitorSteps
<1>12. CASE WriteBack(a) \/ Crash(a)
  BY <1>3, <1>12 DEF WriteBack, Crash
<1>13. CASE /\ actors[a].pc = "dedup"
            /\ actors'[a].next = actors[a].next
            /\ actors'[a].pc \in JanitorSteps
  BY <1>1, <1>13 DEF Follows, Indexing, JanitorSteps, Fit
<1>14. CASE DedupLeader(a)
  <2>1. \/ \E pc \in {"decay", "cull"} : Goto(a, pc)
        \/ \E lose, todo : Become(a, [actors[a] EXCEPT !.lose = lose, !.todo = todo])
        \/ \E todo : Become(a, [actors[a] EXCEPT !.todo = todo])
    BY <1>1, <1>14, Zenon DEF DedupLeader
  <2>2. actors[a].pc = "dedup"
    BY <1>14 DEF DedupLeader, At
  <2>3. ASSUME NEW pc \in {"decay", "cull"}, Goto(a, pc)
        PROVE  Follows(actors[a], actors'[a])
    BY <1>5, <1>13, <2>2, <2>3 DEF JanitorSteps
  <2>4. ASSUME NEW lose, NEW todo, Become(a, [actors[a] EXCEPT !.lose = lose, !.todo = todo])
        PROVE  Follows(actors[a], actors'[a])
    <3>1. PICK q : q = [actors[a] EXCEPT !.lose = lose, !.todo = todo] /\ Become(a, q)
      BY <2>4
    <3>2. q = actors'[a] /\ q.pc = "dedup" /\ q.next = actors[a].next
      BY <1>1, <1>2, <2>2, <3>1 DEF Actor
    <3> QED
      BY <1>13, <2>2, <3>2 DEF JanitorSteps
  <2>5. ASSUME NEW todo, Become(a, [actors[a] EXCEPT !.todo = todo])
        PROVE  Follows(actors[a], actors'[a])
    <3>1. PICK q : q = [actors[a] EXCEPT !.todo = todo] /\ Become(a, q)
      BY <2>5
    <3>2. q = actors'[a] /\ q.pc = "dedup" /\ q.next = actors[a].next
      BY <1>1, <1>2, <2>2, <3>1 DEF Actor
    <3> QED
      BY <1>13, <2>2, <3>2 DEF JanitorSteps
  <2> QED
    BY <2>1, <2>3, <2>4, <2>5
<1>15. ASSUME actors[a].pc \in JanitorSteps, actors'[a].next # "index",
              actors'[a].pc \in {"unindex", "evict", "evictCull", "invalidate"}
       PROVE  Follows(actors[a], actors'[a])
  BY <1>15 DEF Follows, Indexing
<1>16. CASE CullDuplicates(a) \/ EvictCull(a)
  <2>1. PICK then \in {"decay", "invalidate"} : Culls(a, then)
    BY <1>16 DEF CullDuplicates, EvictCull
  <2>2. PICK q : /\ q = [actors[a] EXCEPT !.pc = "unindex", !.next = then,
                           !.changed = @ \/ \E m \in actors[a].lose : Active(m)]
                 /\ Become(a, q)
    BY <2>1 DEF Culls
  <2>3. q = actors'[a] /\ q.pc = "unindex" /\ q.next = then
    BY <1>1, <1>2, <2>2 DEF Actor
  <2>4. actors[a].pc \in JanitorSteps
    BY <1>16 DEF CullDuplicates, EvictCull, At, JanitorSteps
  <2> QED
    BY <1>15, <2>3, <2>4
<1>17. CASE Decay(a)
  <2>1. PICK hit : Become(a, [actors[a] EXCEPT !.pc = "evict", !.changed = @ \/ hit # {}])
    BY <1>17 DEF Decay
  <2>2. PICK q : /\ q = [actors[a] EXCEPT !.pc = "evict", !.changed = @ \/ hit # {}]
                 /\ Become(a, q)
    BY <2>1
  <2>3. q = actors'[a] /\ q.pc = "evict" /\ q.next = actors[a].next
    BY <1>1, <1>2, <2>2 DEF Actor
  <2>4. actors[a].pc \in JanitorSteps /\ actors[a].next # "index"
    BY <1>1, <1>17 DEF Decay, At, JanitorSteps, Fit, Indexing
  <2> QED
    BY <1>15, <2>3, <2>4
<1>18. CASE SelectDoomed(a) /\ ~End(a)
  <2> DEFINE doomed == {m \in ActiveMems : row[m].imp < Floor}
  <2>1. \E q : /\ Become(a, q)
               /\ \/ q = [Idle EXCEPT !.pc = "invalidate"]
                  \/ q = [actors[a] EXCEPT !.pc = "evictCull", !.lose = doomed]
    BY <1>18 DEF SelectDoomed, End
  <2>2. PICK q : /\ Become(a, q)
                 /\ \/ q = [Idle EXCEPT !.pc = "invalidate"]
                    \/ q = [actors[a] EXCEPT !.pc = "evictCull", !.lose = doomed]
    BY <2>1
  <2> HIDE DEF doomed
  <2>3. /\ q = actors'[a] /\ q.pc \in {"evictCull", "invalidate"}
        /\ q.next \in {"idle", actors[a].next}
    BY <1>1, <1>2, <2>2 DEF Actor, Idle
  <2>4. actors[a].pc \in JanitorSteps /\ actors[a].next # "index"
    BY <1>1, <1>18 DEF SelectDoomed, At, JanitorSteps, Fit, Indexing
  <2> QED
    BY <1>15, <2>3, <2>4
<1>19. CASE ReadProfile(a) \/ \E m \in Mems : DeleteMemory(a, m)
  <2>1. actors'[a].pc \in {"writeBack", "delete"} /\ actors'[a].next = "idle"
    <3>1. ASSUME NEW m \in Mems, DeleteMemory(a, m)
          PROVE  actors'[a].pc = "delete" /\ actors'[a].next = "idle"
      <4>1. PICK q : q = [Idle EXCEPT !.pc = "delete", !.mem = m] /\ Become(a, q)
        BY <3>1 DEF DeleteMemory
      <4> QED
        BY <1>2, <4>1 DEF Idle
    <3>2. ASSUME ReadProfile(a)
          PROVE  actors'[a].pc = "writeBack" /\ actors'[a].next = "idle"
      <4>1. PICK q : q = [Idle EXCEPT !.pc = "writeBack", !.todo = Profile] /\ Become(a, q)
        BY <3>2 DEF ReadProfile
      <4> QED
        BY <1>2, <4>1 DEF Idle
    <3> QED
      BY <1>19, <3>1, <3>2
  <2> QED
    BY <2>1 DEF Follows, Indexing, JanitorSteps
<1> QED
  BY <1>3, <1>6, <1>7, <1>8, <1>9, <1>10, <1>11, <1>12, <1>14, <1>16, <1>17, <1>18, <1>19
  DEF Work

(* The arrivals that count. *)
LEMMA Arrivals ==
  ASSUME IInv, NEW a \in Actors
  PROVE  /\ StartJanitor(a) => /\ actors'[a].pc \in {"dedup", "decay"}
                               /\ actors'[a].next = "idle"
                               /\ actors'[a].todo = Profile /\ actors'[a].lose = {}
         /\ \A m \in Mems : \A c, imp : Patch(a, m, c, imp) =>
              actors'[a].pc = "patch" /\ actors'[a].next = "idle"
         /\ \A m \in Mems : \A c, imp : Persist(a, m, c, imp) =>
              /\ actors'[a].pc = "invalidate" /\ actors'[a].next = "index"
              /\ actors'[a].mem = m /\ actors'[a].content = c
<1>1. \A q : Become(a, q) => q = actors'[a]
  BY DEF Become, IInv, Types
<1>2. ASSUME StartJanitor(a)
      PROVE  /\ actors'[a].pc \in {"dedup", "decay"} /\ actors'[a].next = "idle"
             /\ actors'[a].todo = Profile /\ actors'[a].lose = {}
  <2>1. PICK pc \in {"decay", "dedup"} : Become(a, [Idle EXCEPT !.pc = pc, !.todo = Profile])
    BY <1>2 DEF StartJanitor
  <2>2. PICK q : q = [Idle EXCEPT !.pc = pc, !.todo = Profile] /\ Become(a, q)
    BY <2>1
  <2> QED
    BY <1>1, <2>2 DEF Idle
<1>3. ASSUME NEW m \in Mems, NEW c, NEW imp, Patch(a, m, c, imp)
      PROVE  actors'[a].pc = "patch" /\ actors'[a].next = "idle"
  <2>1. PICK q : /\ q = [Idle EXCEPT !.pc = "patch", !.mem = m, !.content = c, !.imp = imp]
                 /\ Become(a, q)
    BY <1>3 DEF Patch
  <2> QED
    BY <1>1, <2>1 DEF Idle
<1>4. ASSUME NEW m \in Mems, NEW c, NEW imp, Persist(a, m, c, imp)
      PROVE  /\ actors'[a].pc = "invalidate" /\ actors'[a].next = "index"
             /\ actors'[a].mem = m /\ actors'[a].content = c
  <2>1. PICK q : /\ q = [Idle EXCEPT !.pc = "invalidate", !.mem = m, !.content = c,
                                     !.next = "index"]
                 /\ Become(a, q)
    BY <1>4 DEF Persist
  <2> QED
    BY <1>1, <2>1 DEF Idle
<1> QED
  BY <1>2, <1>3, <1>4

(* What a step counts, and what came of its actor. *)
Counts(a) ==
  \/ UNCHANGED <<edits, nights>> /\ Follows(actors[a], actors'[a])
  \/ nights' = nights + 1 /\ edits' = edits /\ StartJanitor(a)
  \/ edits' = edits + 1 /\ nights' = nights /\ ~Janitor(a)'
  \/ /\ UNCHANGED <<edits, nights, vec>>
     /\ \E m \in Mems, c \in Contents, imp \in 0..TopImp : Persist(a, m, c, imp)
     /\ ~Janitor(a)'

LEMMA StepCounts ==
  ASSUME IInv, NEW a \in Actors, Arrive(a) \/ Work(a)
  PROVE  Counts(a)
<1>1. CASE Work(a) \/ ReadProfile(a) \/ \E m \in Mems : DeleteMemory(a, m)
  <2>1. UNCHANGED <<edits, nights>>
    BY <1>1 DEF Work, ReadProfile, DeleteMemory, Invalidate, Index, Unindex, PatchCommit,
                PatchRefresh, DeleteCommit, WriteBack, DedupLeader, CullDuplicates, Decay,
                SelectDoomed, EvictCull, Crash, Culls
  <2> QED
    BY <1>1, <2>1, Followed DEF Counts
<1>2. CASE StartJanitor(a)
  BY <1>2 DEF Counts, StartJanitor
<1>3. ASSUME NEW m \in Mems, NEW c, NEW imp, Patch(a, m, c, imp)
      PROVE  Counts(a)
  <2>1. ~Janitor(a)'
    BY <1>3, Arrivals DEF Janitor, JanitorSteps
  <2>2. edits' = edits + 1 /\ UNCHANGED nights
    BY <1>3 DEF Patch
  <2> QED
    BY <2>1, <2>2 DEF Counts
<1>4. ASSUME NEW m \in Mems, NEW c \in Contents, NEW imp \in 0..TopImp, Persist(a, m, c, imp)
      PROVE  Counts(a)
  <2>1. ~Janitor(a)'
    BY <1>4, Arrivals DEF Janitor, JanitorSteps
  <2>2. UNCHANGED <<edits, nights, vec>>
    BY <1>4 DEF Persist
  <2> QED
    BY <1>4, <2>1, <2>2 DEF Counts
<1> QED
  BY <1>1, <1>2, <1>3, <1>4 DEF Arrive

LEMMA NextOneJanitor ==
  ASSUME IInv, OneJanitor, NEW a \in Actors, Arrive(a) \/ Work(a), Others(a)
  PROVE  OneJanitor'
<1>1. Counts(a) /\ edits \in Nat /\ nights \in Nat
  BY StepCounts DEF OneJanitor
<1>2. \A b \in Actors : b # a => (Janitor(b)' <=> Janitor(b))
  BY DEF Others, Janitor
<1>3. CASE nights' = nights + 1 /\ edits' = edits
  BY <1>1, <1>2, <1>3 DEF OneJanitor
<1>4. CASE nights' = nights /\ (Janitor(a)' => Janitor(a)) /\ edits' \in Nat
  BY <1>1, <1>2, <1>4 DEF OneJanitor
<1>5. Follows(actors[a], actors'[a]) => (Janitor(a)' => Janitor(a))
  BY DEF Follows, Janitor
<1> QED
  BY <1>1, <1>3, <1>4, <1>5 DEF Counts

LEMMA NextUnedited ==
  ASSUME IInv, OneJanitor, Unedited, NEW a \in Actors, Arrive(a) \/ Work(a), Others(a)
  PROVE  Unedited'
<1> SUFFICES ASSUME edits' = 0
             PROVE  /\ \A b \in Actors : actors'[b].pc \notin {"patch", "refresh", "reindex"}
                    /\ \A m \in ActiveMems' : vec'[m] \in {None, row'[m].content}
                    /\ \A b \in Actors :
                         /\ Indexing(actors'[b]) \/ actors'[b].pc = "index"
                         /\ row'[actors'[b].mem].st = "active"
                         => row'[actors'[b].mem].content = actors'[b].content
  BY DEF Unedited, Active, Indexing
<1>1. Counts(a) /\ edits = 0 /\ UNCHANGED edits
  BY StepCounts DEF OneJanitor, Counts
<1>2. /\ \A b \in Actors : actors[b].pc \notin {"patch", "refresh", "reindex"}
      /\ \A m \in ActiveMems : vec[m] \in {None, row[m].content}
      /\ \A b \in Actors :
           /\ Indexing(actors[b]) \/ actors[b].pc = "index"
           /\ Active(actors[b].mem)
           => row[actors[b].mem].content = actors[b].content
  BY <1>1 DEF Unedited
<1>3. \A m \in Mems : Active(m)' =>
        row[m].st = "none" \/ (Active(m) /\ row'[m].content = row[m].content)
  BY <1>2, LiveSteps
<1>4. \/ Follows(actors[a], actors'[a])
      \/ StartJanitor(a)
      \/ \E m \in Mems, c \in Contents, imp \in 0..TopImp : Persist(a, m, c, imp)
  BY <1>1 DEF Counts, OneJanitor
<1>5. ASSUME NEW b \in Actors PROVE actors'[b].pc \notin {"patch", "refresh", "reindex"}
  BY <1>2, <1>4, Arrivals DEF Others, Follows
<1>6. ASSUME NEW m \in ActiveMems' PROVE vec'[m] \in {None, row'[m].content}
  <2>1. m \in Mems /\ Active(m)'
    BY DEF ActiveMems
  <2>2. CASE vec'[m] = vec[m]
    <3>1. CASE row[m].st = "none"
      BY <2>1, <2>2, <3>1 DEF IInv, Filled
    <3>2. CASE Active(m) /\ row'[m].content = row[m].content
      BY <1>2, <2>1, <2>2, <3>2 DEF ActiveMems
    <3> QED
      BY <1>3, <2>1, <3>1, <3>2
  <2>3. CASE Index(a)
    <3>1. /\ actors[a].pc = "index" /\ actors[a].mem \in Mems /\ UNCHANGED row
          /\ vec' = vec \/ vec' = [vec EXCEPT ![actors[a].mem] = actors[a].content]
      BY <1>2, <2>3 DEF Index, At, IInv, Fit, OnMemory
    <3>2. Active(m)
      BY <2>1, <3>1 DEF Active
    <3> QED
      BY <1>2, <2>1, <2>2, <3>1, <3>2 DEF IInv, Types
  <2>4. CASE Unindex(a)
    <3>1. PICK n \in actors[a].lose : vec' = [vec EXCEPT ![n] = None] \/ UNCHANGED vec
      BY <2>4, UnindexStep
    <3>2. vec'[m] \in {None, vec[m]}
      BY <2>1, <3>1 DEF IInv, Types
    <3> QED
      BY <2>2, <3>2
  <2>5. \/ UNCHANGED vec \/ Index(a) \/ Unindex(a)
    BY DEF Arrive, Work, Persist, Patch, DeleteMemory, ReadProfile, StartJanitor,
           Invalidate, PatchCommit, PatchRefresh, DeleteCommit, WriteBack, DedupLeader,
           CullDuplicates, Decay, SelectDoomed, EvictCull, Crash, Culls
  <2> QED
    BY <2>2, <2>3, <2>4, <2>5
<1>7. ASSUME NEW b \in Actors, Indexing(actors'[b]) \/ actors'[b].pc = "index",
             row'[actors'[b].mem].st = "active"
      PROVE  row'[actors'[b].mem].content = actors'[b].content
  <2>1. CASE \/ b # a
             \/ Follows(actors[a], actors'[a])
    <3>1. /\ Indexing(actors[b]) \/ actors[b].pc = "index"
          /\ actors'[b].mem = actors[b].mem /\ actors'[b].content = actors[b].content
      BY <1>7, <2>1 DEF Others, Follows
    <3>2. PICK m \in Mems : m = actors[b].mem /\ row[m].st # "none"
      BY <3>1 DEF IInv, Fit, OnMemory
    <3>3. Active(m)'
      BY <1>7, <3>1, <3>2 DEF Active
    <3>4. Active(m) /\ row'[m].content = row[m].content
      BY <1>3, <3>2, <3>3
    <3> QED
      BY <1>2, <3>1, <3>2, <3>4
  <2>2. CASE b = a /\ StartJanitor(a)
    BY <1>7, <2>2, Arrivals DEF Indexing
  <2>3. ASSUME b = a, NEW m \in Mems, NEW c \in Contents, NEW imp \in 0..TopImp,
               Persist(a, m, c, imp)
        PROVE  row'[actors'[b].mem].content = actors'[b].content
    <3>1. actors'[b].mem = m /\ actors'[b].content = c
      BY <2>3, Arrivals
    <3>2. row'[m].content = c
      BY <2>3 DEF Persist, IInv, Types, NoRow
    <3> QED
      BY <3>1, <3>2
  <2> QED
    BY <1>4, <2>1, <2>2, <2>3
<1> QED
  BY <1>5, <1>6, <1>7

(* What a leader does to the record: the rest keep an equal that stays. *)
LEMMA LeaderSpares ==
  ASSUME IInv, NEW p \in Actor, Spares(p), NEW x \in p.todo,
         \A m \in ActiveMems : vec[m] \in {None, row[m].content},
         NEW found \in Neighbors(x[2]),
         NEW q, q.lose = p.lose \cup (found \ {x[1]}),
         q.todo = {y \in p.todo \ {x} : y[1] \notin found}
  PROVE  Spares(q)
<1>1. /\ x[2] \in Contents
      /\ x[2] \in dropped \/ (x[1] \in ActiveMems \ q.lose /\ row[x[1]].content = x[2])
  BY DEF Spares, Actor, Aggregates
<1>2. \A n \in found \cap ActiveMems : row[n].content = x[2]
  BY <1>1, Found, UMAssumption
<1>3. ASSUME NEW n \in q.lose \cap ActiveMems, row[n].content \notin dropped
      PROVE  \E m \in ActiveMems \ q.lose : row[m].content = row[n].content
  <2>1. CASE row[n].content = x[2]
    BY <1>1, <1>3, <2>1
  <2>2. CASE row[n].content # x[2]
    <3>1. n \in p.lose \cap ActiveMems
      BY <1>2, <2>2
    <3>2. PICK m \in ActiveMems \ p.lose : row[m].content = row[n].content
      BY <1>3, <3>1 DEF Spares
    <3>3. m \notin found
      BY <1>2, <2>2, <3>2
    <3> QED
      BY <3>2, <3>3
  <2> QED
    BY <2>1, <2>2
<1>4. ASSUME NEW y \in q.todo
      PROVE  /\ y[1] \notin q.lose
             /\ y[2] \in dropped \/ (y[1] \in ActiveMems /\ row[y[1]].content = y[2])
  BY DEF Spares
<1> QED
  BY <1>3, <1>4 DEF Spares

(* Who is at a janitor's step has started or was at work. *)
LEMMA StartOrWork ==
  ASSUME IInv, NEW a \in Actors, Arrive(a) \/ Work(a), ~StartJanitor(a),
         actors'[a].pc \in JanitorSteps
  PROVE  Work(a)
<1>1. \A q : Become(a, q) => q = actors'[a]
  BY DEF Become, IInv, Types
<1>2. ASSUME NEW m \in Mems, DeleteMemory(a, m)
      PROVE  FALSE
  <2>1. PICK q : q = [Idle EXCEPT !.pc = "delete", !.mem = m] /\ Become(a, q)
    BY <1>2 DEF DeleteMemory
  <2>2. q.pc = "delete"
    BY <2>1 DEF Idle
  <2> QED
    BY <1>1, <2>1, <2>2 DEF JanitorSteps
<1>3. ASSUME ReadProfile(a)
      PROVE  FALSE
  <2>1. PICK q : q = [Idle EXCEPT !.pc = "writeBack", !.todo = Profile] /\ Become(a, q)
    BY <1>3 DEF ReadProfile
  <2>2. q.pc = "writeBack"
    BY <2>1 DEF Idle
  <2> QED
    BY <1>1, <2>1, <2>2 DEF JanitorSteps
<1> QED
  BY <1>2, <1>3, Arrivals DEF Arrive, JanitorSteps

(* No step brings the turns back. *)
LEMMA TurnBefore ==
  ASSUME IInv, NEW a \in Actors, Arrive(a) \/ Work(a), MCNext, InTurn'
  PROVE  InTurn
<1>1. UNCHANGED faults \/ Fails
  BY Zenon DEF Arrive, Work, Persist, Patch, DeleteMemory, ReadProfile, StartJanitor,
     Invalidate, Index, Unindex, PatchCommit, PatchRefresh, DeleteCommit, WriteBack,
     DedupLeader, CullDuplicates, Decay, SelectDoomed, EvictCull, Crash, Culls, Works
<1>2. faults = 0
  BY <1>1 DEF InTurn, Fails, IInv, Types
<1> QED
  BY <1>2 DEF InTurn, MCNext

(* In turn, a step beside a janitor is the janitor's own. *)
LEMMA OwnStep ==
  ASSUME IInv, TurnIInv, TurnIInv', NEW a \in Actors, Arrive(a) \/ Work(a), MCNext, InTurn',
         NEW b \in Actors, actors'[b].pc # "idle", Others(a)
  PROVE  b = a
<1> SUFFICES ASSUME b # a PROVE FALSE
  OBVIOUS
<1>1. actors[b].pc # "idle" /\ b \in Busy /\ b \in Busy'
  BY DEF Others, Busy, At
<1>2. a \notin Busy
  BY <1>1, TurnBefore DEF TurnIInv, AtMostOne, InTurn
<1>3. a \in Busy'
  BY <1>2, StepRests DEF TurnIInv, Busy
<1> QED
  BY <1>1, <1>3 DEF TurnIInv, AtMostOne, InTurn

(* What the user deletes under a janitor's hands is remembered. *)
LEMMA Dropping ==
  ASSUME MCNext, NEW b \in Actors, actors'[b].pc \in JanitorSteps
  PROVE  /\ dropped \subseteq dropped'
         /\ \A m \in Mems : Deleted(m) => row[m].content \in dropped'
<1>1. Janitor(b)'
  BY DEF Janitor
<1>2. dropped' = dropped \cup {row[m].content : m \in {n \in Mems : Deleted(n)}}
  BY <1>1 DEF MCNext
<1> QED
  BY <1>2

LEMMA NextSparing ==
  ASSUME IInv, TurnIInv, TurnIInv', LoneIInv, NEW a \in Actors, Arrive(a) \/ Work(a),
         Others(a), MCNext, Undisturbed',
         NEW b \in Actors, actors'[b].pc \in {"dedup", "cull"}
  PROVE  Spares(actors[b])'
<1>1. \/ InTurn' /\ InTurn /\ b = a
      \/ /\ edits' = 0 /\ nights' <= 1
         /\ Counts(a) /\ edits = 0 /\ nights <= 1 /\ (~StartJanitor(a) \/ nights = 0)
         /\ \A c \in Actors : actors[c].pc \notin {"patch", "refresh", "reindex"}
  <2>1. CASE InTurn'
    BY <2>1, TurnBefore, OwnStep
  <2>2. CASE ~InTurn'
    <3>1. edits' = 0 /\ nights' <= 1 /\ Counts(a) /\ edits \in Nat /\ nights \in Nat
      BY <2>2, StepCounts DEF Undisturbed, LoneIInv, OneJanitor
    <3>2. edits = 0 /\ nights <= 1 /\ (~StartJanitor(a) \/ nights = 0)
      BY <3>1 DEF Counts, StartJanitor
    <3> QED
      BY <3>1, <3>2 DEF LoneIInv, Unedited
  <2> QED
    BY <2>1, <2>2
<1>2. Undisturbed
  BY <1>1 DEF Undisturbed
<1>3. /\ dropped \subseteq dropped'
      /\ \A m \in Mems : Deleted(m) => row[m].content \in dropped'
  BY Dropping DEF JanitorSteps
<1>4. CASE b # a
  <2>1. actors'[b] = actors[b] /\ Janitor(b)
    BY <1>4 DEF Others, Janitor, JanitorSteps
  <2>2. ~Janitor(a) /\ actors[a].pc # "patch"
    BY <1>1, <1>4, <2>1 DEF LoneIInv, OneJanitor
  <2>3. Spares(actors[b])
    BY <1>2, <2>1 DEF LoneIInv, Sparing
  <2>4. ASSUME NEW m \in ActiveMems
        PROVE  \/ m \in ActiveMems' /\ row'[m].content = row[m].content
               \/ row[m].content \in dropped'
    <3>1. m \in Mems /\ Active(m) /\ row[m].st # "none"
      BY DEF ActiveMems, Active
    <3> QED
      BY <1>3, <2>2, <3>1, LiveSteps DEF ActiveMems, Deleted
  <2>5. \A n \in actors[b].lose \cap ActiveMems' :
          n \in ActiveMems /\ row'[n].content = row[n].content
    <3>1. \A n \in actors[b].lose : row[n].st # "none"
      BY DEF IInv, Fit
    <3> QED
      BY <2>2, <3>1, LiveSteps DEF ActiveMems
  <2>6. ASSUME NEW y \in actors[b].todo
        PROVE  /\ y[1] \notin actors[b].lose
               /\ y[2] \in dropped' \/ (y[1] \in ActiveMems' /\ row'[y[1]].content = y[2])
    BY <1>3, <2>3, <2>4 DEF Spares
  <2>7. ASSUME NEW n \in actors[b].lose \cap ActiveMems'
        PROVE  \/ row'[n].content \in dropped'
               \/ \E m \in ActiveMems' \ actors[b].lose : row'[m].content = row'[n].content
    BY <1>3, <2>3, <2>4, <2>5 DEF Spares
  <2> QED
    BY <2>1, <2>6, <2>7 DEF Spares
<1>5. CASE b = a /\ StartJanitor(a)
  <2>1. actors'[a].todo = Profile /\ actors'[a].lose = {} /\ UNCHANGED row
    BY <1>5, Arrivals DEF StartJanitor
  <2>2. UNCHANGED <<ActiveMems, Profile>>
    BY <2>1, ProfileSame
  <2>3. \A y \in Profile : y[1] \in ActiveMems /\ row[y[1]].content = y[2]
    BY DEF Profile
  <2> QED
    BY <1>5, <2>1, <2>2, <2>3 DEF Spares
<1>6. CASE b = a /\ ~StartJanitor(a)
  <2>1. actors[a].pc = "dedup" /\ ~Crash(a)
    <3>1. Work(a) => Follows(actors[a], actors'[a])
      BY Followed
    <3>2. Work(a)
      BY <1>6, StartOrWork DEF JanitorSteps
    <3>3. ~Crash(a)
      BY <1>6, IdleFields DEF Crash, End, Become, IInv, Types
    <3> QED
      BY <1>6, <3>1, <3>2, <3>3 DEF Follows
  <2>2. DedupLeader(a)
    <3>1. Work(a)
      BY <2>1, ArriveGoes DEF At
    <3> QED
      BY <2>1, <3>1
      DEF Work, At, Invalidate, Index, Unindex, PatchCommit, PatchRefresh, DeleteCommit,
          WriteBack, CullDuplicates, Decay, SelectDoomed, EvictCull
  <2>3. Spares(actors[a])
    BY <1>2, <2>1 DEF LoneIInv, Sparing
  <2>4. UNCHANGED <<row, dropped>> /\ UNCHANGED ActiveMems
    <3>1. UNCHANGED row
      BY <2>2 DEF DedupLeader
    <3>2. Janitor(b)' /\ \A m \in Mems : ~Deleted(m)
      BY <3>1 DEF Janitor, JanitorSteps, Deleted, Active
    <3>3. dropped' = dropped \cup {row[m].content : m \in {n \in Mems : Deleted(n)}}
      BY <3>2 DEF MCNext
    <3> QED
      BY <3>1, <3>2, <3>3, ProfileSame
  <2>5. actors[a] \in Actor /\ \A q : Become(a, q) => q = actors'[a]
    BY DEF Become, IInv, Types
  <2>6. \A m \in ActiveMems : vec[m] \in {None, row[m].content}
    <3>1. CASE InTurn
      <4>1. Turn(actors[a]) /\ Fit(actors[a])
        BY <2>1, <3>1 DEF TurnIInv, AtMostOne, InTurn, Busy, At, IInv
      <4> QED
        BY <2>1, <2>5, <4>1, JanitorExact DEF JanitorSteps
    <3>2. CASE ~InTurn
      BY <1>1, <3>2 DEF LoneIInv, Unedited
    <3> QED
      BY <3>1, <3>2
  <2>7. ASSUME NEW q, q = actors'[a], Spares(q)
        PROVE  Spares(actors[b])'
    BY <1>6, <2>4, <2>7 DEF Spares
  <2>8. ASSUME NEW pc, Goto(a, pc)
        PROVE  Spares(actors[b])'
    <3>1. PICK q : q = [actors[a] EXCEPT !.pc = pc] /\ Become(a, q)
      BY <2>8 DEF Goto
    <3>2. q.todo = actors[a].todo /\ q.lose = actors[a].lose
      BY <2>5, <3>1 DEF Actor
    <3>3. Spares(q)
      BY <2>3, <3>2 DEF Spares
    <3> QED
      BY <2>5, <2>7, <3>1, <3>3
  <2>9. ASSUME NEW x \in actors[a].todo,
               Become(a, [actors[a] EXCEPT !.todo = @ \ {x}])
        PROVE  Spares(actors[b])'
    <3>1. PICK q : q = [actors[a] EXCEPT !.todo = @ \ {x}] /\ Become(a, q)
      BY <2>9
    <3>2. q.todo = actors[a].todo \ {x} /\ q.lose = actors[a].lose
      BY <2>5, <3>1 DEF Actor
    <3>3. Spares(q)
      BY <2>3, <3>2 DEF Spares
    <3> QED
      BY <2>5, <2>7, <3>1, <3>3
  <2>10. ASSUME NEW x \in actors[a].todo, NEW found \in Neighbors(x[2]),
                Become(a, [actors[a] EXCEPT
                  !.lose = @ \cup (found \ {x[1]}),
                  !.todo = {y \in @ \ {x} : y[1] \notin found}])
         PROVE  Spares(actors[b])'
    <3>1. PICK q : /\ q = [actors[a] EXCEPT !.lose = @ \cup (found \ {x[1]}),
                             !.todo = {y \in @ \ {x} : y[1] \notin found}]
                   /\ Become(a, q)
      BY <2>10
    <3>2. PICK p \in Actor : p = actors[a]
      BY <2>5
    <3>3. /\ q.todo = {y \in p.todo \ {x} : y[1] \notin found}
          /\ q.lose = p.lose \cup (found \ {x[1]}) /\ x \in p.todo /\ Spares(p)
      BY <2>3, <2>5, <2>10, <3>1, <3>2 DEF Actor
    <3>4. Spares(q)
      BY <2>6, <2>10, <3>3, LeaderSpares
    <3> QED
      BY <2>5, <2>7, <3>1, <3>4
  <2> QED
    BY <2>2, <2>8, <2>9, <2>10 DEF DedupLeader
<1> QED
  BY <1>4, <1>5, <1>6

LEMMA NextLone == IInv /\ TurnIInv /\ LoneIInv /\ [MCNext]_mcvars => LoneIInv'
<1> SUFFICES ASSUME IInv, TurnIInv, LoneIInv, [MCNext]_mcvars PROVE LoneIInv'
  OBVIOUS
<1>1. CASE MCNext
  <2>1. PICK a \in Actors : Arrive(a) \/ Work(a)
    BY <1>1, NextSteps DEF MCNext
  <2>2. Others(a)
    BY <2>1, StepRests DEF TurnIInv
  <2>3. OneJanitor' /\ Unedited'
    BY <2>1, <2>2, NextOneJanitor, NextUnedited DEF LoneIInv
  <2>4. TurnIInv'
    BY NextTurn
  <2>5. Sparing'
    BY <1>1, <2>1, <2>2, <2>4, NextSparing DEF Sparing
  <2> QED
    BY <2>3, <2>5 DEF LoneIInv
<1>2. CASE UNCHANGED mcvars
  <2>1. UNCHANGED <<row, vec, actors, edits, nights, faults, overlapped, dropped>>
    BY <1>2 DEF mcvars, vars
  <2> QED
    BY <2>1 DEF LoneIInv, OneJanitor, Unedited, Sparing, Janitor, Spares, ActiveMems, Active,
                Indexing, Undisturbed, InTurn
<1> QED
  BY <1>1, <1>2

LEMMA InitLone == MCInit => LoneIInv
<1> SUFFICES ASSUME MCInit PROVE LoneIInv
  OBVIOUS
<1>1. /\ edits = 0 /\ nights = 0 /\ \A m \in Mems : row[m].st = "none"
      /\ \A a \in Actors : actors[a] = Idle
  BY DEF MCInit, Init, NoRow
<1>2. \A a \in Actors : ~Janitor(a)
  BY <1>1, IdleFields DEF Janitor, JanitorSteps
<1> QED
  BY <1>1, <1>2, IdleFields
  DEF LoneIInv, OneJanitor, Unedited, Sparing, ActiveMems, Active, Indexing

LEMMA LoneInvariance == MCSpec => [](IInv /\ TurnIInv /\ LoneIInv)
<1>1. [MCNext]_mcvars => [Next]_vars
  BY DEF MCNext, mcvars
<1> QED
  BY <1>1, InitTurn, InitLone, NextIInv, NextTurn, NextLone, PTL DEF MCSpec

(* Deduplication never takes the last memory that says something unless    *)
(* the user deleted one that said it under the janitor's hands: whoever    *)
(* writes, reads, deletes or crashes beside the one janitor of a night     *)
(* without edits, and whatever was edited when actors take turns.          *)
THEOREM DedupKeepsOne == MCSpec => DedupKeepsOneInTurn
<1> DEFINE A == InTurn \/ (edits = 0 /\ nights = 1) => KeepsOne
<1>1. ASSUME IInv, LoneIInv, InTurn \/ (edits = 0 /\ nights = 1),
             NEW a \in Actors, CullDuplicates(a), NEW n \in Mems, Culled(n)
      PROVE  \/ row[n].content \in dropped
             \/ \E m \in Mems \ {n} : /\ row'[m].st = "active"
                                      /\ row'[m].content = row[n].content
  <2>1. SoftDelete(actors[a].lose) /\ actors[a].pc = "cull"
    BY <1>1 DEF CullDuplicates, Culls, At
  <2>2. n \in actors[a].lose \cap ActiveMems
    BY <1>1, <2>1, CullRows DEF Culled, ActiveMems, Active
  <2>3. \A m \in ActiveMems \ actors[a].lose : m \in Mems /\ row'[m] = row[m]
    BY <1>1, <2>1, CullRows DEF ActiveMems
  <2>4. \/ row[n].content \in dropped
        \/ \E m \in ActiveMems \ actors[a].lose : row[m].content = row[n].content
    BY <1>1, <2>1, <2>2 DEF LoneIInv, Sparing, Spares, Undisturbed
  <2> QED
    BY <2>2, <2>3, <2>4 DEF ActiveMems, Active
<1>2. IInv /\ TurnIInv /\ LoneIInv /\ [MCNext]_mcvars => [A]_mcvars
  BY <1>1 DEF KeepsOne
<1>3. DedupKeepsOneInTurn <=> [][A]_mcvars
  BY PTL DEF DedupKeepsOneInTurn
<1> HIDE DEF A
<1> QED
  BY <1>2, <1>3, LoneInvariance, PTL DEF MCSpec
===============================================================================
