---------------------------- MODULE KBIngest_proofs ----------------------------
(***************************************************************************)
(* KBIngest for all numbers of documents, chunks, requests, rebuilds and   *)
(* faults, and at the end the Chunker for all texts and sizes.             *)
(***************************************************************************)
EXTENDS MCKBIngest, Chunker, FiniteSetTheorems, WellFoundedInduction, TLAPS

(* Where an actor works on one document. *)
Holding == {"save", "insert", "dropChunks", "deleteRow", "unlink",
            "claim", "parse", "upsert", "finish", "finalize"}

Pcs == Holding \cup {"idle", "mkcoll", "undo", "reset", "dropColl", "makeColl",
                     "purgeRow", "purgeFiles", "queue"}

Actor == [pc : Pcs, doc : Docs \cup {"none"}, queue : SUBSET Docs,
          cfg : {"none"} \cup Spaces, new : 0..MaxChunks, prev : Nat,
          docs : [Docs -> Row], count : Int]

KBRow == [st : {"none", "live", "gone"}, count : Int]

Fit(q) == q.pc \in Holding => q.doc \in Docs

(* An upload whose row is not there yet. *)
Uploading(a) == actors[a].pc \in {"save", "insert"}

(* A document is known to the upload alone until its row is there; once    *)
(* saved, its file is missing only when the KB is gone.  Files are removed *)
(* after rows.                                                             *)
Held(a) ==
  LET d == actors[a].doc
  IN /\ Uploading(a) =>
          /\ docs[d].st = "none" /\ kb.st # "none"
          /\ \A b \in Actors : b # a => actors[b].doc # d
     /\ At(a, "save") => d \notin UrlDocs
     /\ At(a, "insert") => (KBLive => d \in files \cup UrlDocs)
     /\ d \in Docs /\ ~Uploading(a) => docs[d].st # "none"
     /\ At(a, "unlink") => docs[d].st = "gone"
     /\ At(a, "purgeFiles") => kb.st = "gone"

Types ==
  /\ kb \in KBRow
  /\ docs \in [Docs -> Row]
  /\ coll \in BOOLEAN
  /\ vec \in [Docs -> [1..MaxChunks -> {"none"} \cup Spaces]]
  /\ files \in SUBSET (Docs \ UrlDocs)
  /\ faults \in 0..MaxFaults
  /\ rebuilds \in 0..MaxRebuilds
  /\ actors \in [Actors -> Actor]
  /\ \A a \in Actors : Fit(actors[a])

IInv ==
  /\ Types
  /\ \A a \in Actors : Held(a)
  /\ DocHasKBAndFile

(* What a step may do to the rows and the files. *)
Moves ==
  /\ kb' \in KBRow
  /\ kb'.st = kb.st \/ (kb.st = "none" /\ kb'.st = "live") \/ kb'.st = "gone"
  /\ kb'.st = "gone" => kb.st = "gone" \/ \A d \in Docs : docs'[d].st \notin LiveStatus
  /\ docs' \in [Docs -> Row]
  /\ \A d \in Docs :
       \/ docs'[d].st = docs[d].st
       \/ Live(d) /\ docs'[d].st \in LiveStatus \cup {"gone"}
       \/ /\ docs'[d].st = "pending" /\ KBLive
          /\ \E a \in Actors : /\ At(a, "insert") /\ actors[a].doc = d
                               /\ actors'[a].doc = "none"
  /\ files' \in SUBSET (Docs \ UrlDocs)
  /\ \A d \in files : d \in files' \/ docs[d].st = "gone" \/ kb.st = "gone"
  /\ coll' \in BOOLEAN
  /\ vec' \in [Docs -> [1..MaxChunks -> {"none"} \cup Spaces]]
  /\ faults' \in 0..MaxFaults

(* Which upholds the invariant if the actor that moved does. *)
LEMMA StepIInv ==
  ASSUME IInv, NEW a \in Actors, NEW q \in Actor, Fit(q),
         actors' = [actors EXCEPT ![a] = q], Moves, rebuilds' \in 0..MaxRebuilds,
         Held(a)',
         \/ q.doc \in {"none", actors[a].doc}
         \/ docs[q.doc].st # "none"
         \/ \A b \in Actors : actors[b].doc # q.doc
  PROVE  IInv'
<1>1. /\ actors' \in [Actors -> Actor] /\ actors'[a] = q
      /\ \A b \in Actors : b # a => actors'[b] = actors[b]
  BY DEF IInv, Types
<1>2. Types'
  BY <1>1, Zenon DEF IInv, Types, Moves, Fit
<1>3. ASSUME NEW b \in Actors, b # a PROVE Held(b)'
  <2> DEFINE d == actors[b].doc
  <2>1. actors'[b] = actors[b] /\ Held(b) /\ Fit(actors[b])
    BY <1>1, <1>3 DEF IInv, Types
  <2>2. CASE Uploading(b)
    <3>1. /\ d \in Docs /\ docs[d].st = "none" /\ kb.st # "none"
          /\ At(b, "save") => d \notin UrlDocs
          /\ At(b, "insert") => (KBLive => d \in files \cup UrlDocs)
          /\ \A c \in Actors : c # b => actors[c].doc # d
      BY <2>1, <2>2 DEF Held, Fit, Uploading, Holding
    <3>2. docs'[d].st = "none"
      <4>1. ~Live(d)
        BY <3>1 DEF Live, LiveStatus
      <4>2. \A c \in Actors : actors[c].doc = d => actors'[c].doc # "none"
        BY <2>1, <3>1, KBAssumption
      <4> QED
        BY <3>1, <4>1, <4>2 DEF Moves
    <3>3. kb'.st # "none" /\ (KBLive' => KBLive)
      BY <3>1 DEF Moves, KBLive
    <3>4. At(b, "insert") => (KBLive' => d \in files' \cup UrlDocs)
      BY <3>1, <3>3 DEF Moves, KBLive
    <3>5. \A c \in Actors : c # b => actors'[c].doc # d
      BY <1>1, <1>3, <3>1, KBAssumption
    <3> QED
      BY <2>1, <2>2, <3>1, <3>2, <3>3, <3>4, <3>5 DEF Held, Uploading, At
  <2>3. CASE ~Uploading(b)
    <3>1. /\ d \in Docs => docs[d].st # "none"
          /\ At(b, "unlink") => d \in Docs /\ docs[d].st = "gone"
          /\ At(b, "purgeFiles") => kb.st = "gone"
      BY <2>1, <2>3 DEF Held, Fit, At, Uploading, Holding
    <3>2. d \in Docs => docs'[d].st # "none"
      BY <3>1 DEF Moves, LiveStatus
    <3>3. At(b, "unlink") => docs'[d].st = "gone"
      <4>1. ASSUME At(b, "unlink") PROVE docs'[d].st = "gone"
        <5>1. \A c \in Actors : At(c, "insert") => actors[c].doc # d
          BY <3>1, <4>1 DEF IInv, Held, Uploading, At
        <5> QED
          BY <3>1, <4>1, <5>1 DEF Moves, Live, LiveStatus
      <4> QED
        BY <4>1
    <3>4. At(b, "purgeFiles") => kb'.st = "gone"
      BY <3>1 DEF Moves
    <3> QED
      BY <2>1, <2>3, <3>2, <3>3, <3>4 DEF Held, Uploading, At
  <2> QED
    BY <2>2, <2>3
<1>4. DocHasKBAndFile'
  <2> SUFFICES ASSUME NEW d \in Docs, docs'[d].st \in LiveStatus
               PROVE  kb'.st = "live" /\ d \in files' \cup UrlDocs
    BY DEF DocHasKBAndFile, Live, KBLive
  <2>1. kb.st = "live" /\ d \in files \cup UrlDocs /\ docs[d].st # "gone"
    <3>1. CASE Live(d)
      BY <3>1 DEF IInv, DocHasKBAndFile, KBLive, Live, LiveStatus
    <3>2. CASE ~Live(d)
      <4>1. PICK c \in Actors : At(c, "insert") /\ actors[c].doc = d /\ KBLive
        BY <3>2 DEF Moves, Live
      <4>2. Held(c)
        BY DEF IInv
      <4> QED
        BY <4>1, <4>2 DEF Held, Uploading, At, KBLive
    <3> QED
      BY <3>1, <3>2
  <2> QED
    BY <2>1 DEF Moves
<1> QED
  BY <1>2, <1>3, <1>4 DEF IInv

LEMMA IdleType == Idle \in Actor /\ Fit(Idle) /\ Idle.pc = "idle" /\ Idle.doc = "none"
<1>1. [d \in Docs |-> [st |-> "none", n |-> 0]] \in [Docs -> Row]
  BY DEF Row
<1>2. 0 \in 0..MaxChunks
  BY KBAssumption
<1> QED
  BY <1>1, <1>2 DEF Idle, Actor, Fit, Pcs, Holding

(* A step of an actor that holds no document afterwards. *)
LEMMA EmptyIInv ==
  ASSUME IInv, NEW a \in Actors, NEW q \in Actor, actors' = [actors EXCEPT ![a] = q],
         q.doc = "none", q.pc \notin Holding, q.pc # "purgeFiles",
         Moves, rebuilds' \in 0..MaxRebuilds
  PROVE  IInv'
<1>1. actors'[a] = q
  BY DEF IInv, Types
<1>2. Held(a)'
  BY <1>1, KBAssumption DEF Held, Uploading, At, Holding
<1>3. Fit(q)
  BY DEF Fit
<1> QED
  BY <1>2, <1>3, StepIInv

LEMMA EndIInv ==
  ASSUME IInv, NEW a \in Actors, End(a), Moves, rebuilds' \in 0..MaxRebuilds
  PROVE  IInv'
BY IdleType, EmptyIInv DEF End, Holding

(* A step that only moves the program counter. *)
LEMMA GotoIInv ==
  ASSUME IInv, NEW a \in Actors, NEW pc \in Pcs, Goto(a, pc), Moves,
         rebuilds' \in 0..MaxRebuilds,
         pc \notin {"save", "insert"}, ~Uploading(a), pc \in Holding => actors[a].pc \in Holding,
         pc = "unlink" => docs'[actors[a].doc].st = "gone",
         pc = "purgeFiles" => kb'.st = "gone"
  PROVE  IInv'
<1> DEFINE p == actors[a]
           q == [p EXCEPT !.pc = pc]
<1>1. p \in Actor /\ Fit(p) /\ Held(a)
  BY DEF IInv, Types
<1>2. q \in Actor /\ q.pc = pc /\ q.doc = p.doc
  BY <1>1 DEF Actor
<1>3. actors' = [actors EXCEPT ![a] = q]
  BY DEF Goto
<1> HIDE DEF q
<1>4. Fit(q)
  BY <1>1, <1>2 DEF Fit
<1>5. actors'[a] = q
  BY <1>3 DEF IInv, Types
<1>6. p.doc \in Docs => docs'[p.doc].st # "none"
  BY <1>1 DEF Held, Moves, LiveStatus
<1>7. Held(a)'
  BY <1>2, <1>5, <1>6 DEF Held, Uploading, At
<1> QED
  BY <1>2, <1>3, <1>4, <1>7, StepIInv

LEMMA WithoutIInv ==
  ASSUME IInv, NEW a \in Actors, NEW d, Without(a, d), Moves, rebuilds' \in 0..MaxRebuilds
  PROVE  IInv'
<1> DEFINE p == actors[a]
           q == [Idle EXCEPT !.pc = "queue", !.cfg = p.cfg, !.queue = p.queue \ {d}]
<1>1. p \in Actor
  BY DEF IInv, Types
<1>2. p.cfg \in {"none"} \cup Spaces /\ p.queue \ {d} \in SUBSET Docs
  BY <1>1 DEF Actor
<1>3. q \in Actor
  BY <1>2, IdleType DEF Actor, Pcs
<1>4. q.pc = "queue" /\ q.doc = "none" /\ actors' = [actors EXCEPT ![a] = q]
  BY IdleType DEF Idle, Without
<1> HIDE DEF q
<1>5. q.pc \notin Holding /\ q.pc # "purgeFiles"
  BY <1>4 DEF Holding
<1> QED
  BY <1>3, <1>4, <1>5, EmptyIInv

(* Steps that touch neither the rows nor the files. *)
LEMMA Still ==
  ASSUME IInv, UNCHANGED <<kb, docs, files>>,
         coll' \in BOOLEAN, vec' \in [Docs -> [1..MaxChunks -> {"none"} \cup Spaces]],
         faults' \in 0..MaxFaults
  PROVE  Moves
BY Zenon DEF IInv, Types, Moves

LEMMA Faults ==
  ASSUME IInv, Works \/ Fails
  PROVE  faults' \in 0..MaxFaults
BY KBAssumption DEF IInv, Types, Works, Fails

LEMMA NoPointsType ==
  NoPoints \in [1..MaxChunks -> {"none"} \cup Spaces]
BY DEF NoPoints

(* RemoveKB: the rows go, and the documents with them. *)
LEMMA RemoveMoves ==
  ASSUME IInv, RemoveKB, UNCHANGED <<coll, vec, files, faults>>
  PROVE  Moves /\ kb'.st = "gone"
<1>1. kb' \in KBRow /\ kb'.st = "gone"
  <2>1. kb \in KBRow /\ kb' = [kb EXCEPT !.st = "gone"]
    BY DEF IInv, Types, RemoveKB
  <2> QED
    BY <2>1 DEF KBRow
<1>2. /\ docs' \in [Docs -> Row]
      /\ \A d \in Docs : Live(d) => docs'[d].st = "gone"
      /\ \A d \in Docs : ~Live(d) => docs'[d].st = docs[d].st
  BY DEF IInv, Types, RemoveKB, Row
<1>3. \A d \in Docs : docs'[d].st \notin LiveStatus
  BY <1>2 DEF Live, LiveStatus
<1>4. \A d \in Docs : docs'[d].st = docs[d].st \/ (Live(d) /\ docs'[d].st = "gone")
  BY <1>2
<1>5. /\ coll' \in BOOLEAN /\ faults' \in 0..MaxFaults
      /\ vec' \in [Docs -> [1..MaxChunks -> {"none"} \cup Spaces]]
      /\ files' \in SUBSET (Docs \ UrlDocs) /\ files' = files
  BY Zenon DEF IInv, Types
<1> QED
  <2>1. \A d \in files : d \in files'
    BY <1>5
  <2>2. \A d \in Docs : docs'[d].st = docs[d].st
                         \/ (Live(d) /\ docs'[d].st \in LiveStatus \cup {"gone"})
    BY <1>4
  <2> QED
    BY <1>1, <1>2, <1>3, <1>5, <2>1, <2>2, Zenon DEF Moves

-------------------------------------------------------------------------------

LEMMA CreateIInv ==
  ASSUME IInv, NEW a \in Actors, rebuilds' \in 0..MaxRebuilds,
         CreateKB(a) \/ CreateCollection(a) \/ UndoCreate(a)
  PROVE  IInv'
<1>1. CASE CreateKB(a)
  <2>1. kb.st = "none" /\ kb' = [st |-> "live", count |-> 0] /\ At(a, "idle")
        /\ Goto(a, "mkcoll") /\ UNCHANGED <<docs, coll, vec, files, faults>>
    BY <1>1 DEF CreateKB
  <2>2. kb' \in KBRow /\ kb'.st = "live"
    BY <2>1 DEF KBRow
  <2>3. Moves
    BY <2>1, <2>2, Zenon DEF Moves, IInv, Types
  <2> QED
    BY <2>1, <2>3, GotoIInv DEF Pcs, Holding, Uploading, At
<1>2. CASE CreateCollection(a)
  <2>1. At(a, "mkcoll") /\ faults' \in 0..MaxFaults /\ coll' \in BOOLEAN
        /\ UNCHANGED <<kb, docs, vec, files>> /\ (End(a) \/ Goto(a, "undo"))
    BY <1>2, Faults DEF CreateCollection, IInv, Types
  <2>2. Moves
    BY <2>1, Still DEF IInv, Types
  <2> QED
    BY <2>1, <2>2, EndIInv, GotoIInv DEF Pcs, Holding, Uploading, At
<1>3. CASE UndoCreate(a)
  BY <1>3, RemoveMoves, EndIInv DEF UndoCreate
<1> QED
  BY <1>1, <1>2, <1>3

LEMMA UploadIInv ==
  ASSUME IInv, NEW a \in Actors, NEW d \in Docs, rebuilds' \in 0..MaxRebuilds, Upload(a, d)
  PROVE  IInv'
<1> DEFINE pc == IF d \in UrlDocs THEN "insert" ELSE "save"
           q == [Idle EXCEPT !.doc = d, !.pc = pc]
<1>1. /\ At(a, "idle") /\ KBLive /\ Fresh(d) /\ actors' = [actors EXCEPT ![a] = q]
      /\ UNCHANGED <<kb, docs, coll, vec, files, faults>>
  BY DEF Upload
<1>2. pc \in {"save", "insert"} /\ (pc = "save" <=> d \notin UrlDocs)
  OBVIOUS
<1> HIDE DEF pc
<1>3. q \in Actor /\ q.pc = pc /\ q.doc = d
  BY <1>2, IdleType DEF Idle, Actor, Pcs, Holding
<1> HIDE DEF q
<1>4. Fit(q)
  BY <1>3 DEF Fit
<1>5. Moves
  BY <1>1, Still DEF IInv, Types
<1>6. /\ actors'[a] = q /\ \A b \in Actors : b # a => actors'[b] = actors[b]
  BY <1>1 DEF IInv, Types
<1>7. Held(a)'
  BY <1>1, <1>2, <1>3, <1>6 DEF Held, Uploading, At, Fresh, KBLive
<1> QED
  BY <1>1, <1>3, <1>4, <1>5, <1>7, StepIInv DEF Fresh

LEMMA SaveIInv ==
  ASSUME IInv, NEW a \in Actors, rebuilds' \in 0..MaxRebuilds, SaveUpload(a)
  PROVE  IInv'
<1> DEFINE p == actors[a]
           q == [p EXCEPT !.pc = "insert"]
<1>1. /\ At(a, "save") /\ actors' = [actors EXCEPT ![a] = q]
      /\ files' = files \cup {p.doc} /\ UNCHANGED <<kb, docs, coll, vec, faults>>
  BY DEF SaveUpload, Goto
<1>2. p \in Actor /\ p.doc \in Docs \ UrlDocs /\ Held(a)
  BY <1>1 DEF IInv, Types, Fit, Held, At, Holding
<1>3. q \in Actor /\ q.pc = "insert" /\ q.doc = p.doc
  BY <1>2 DEF Actor, Pcs, Holding
<1> HIDE DEF q
<1>4. Fit(q)
  BY <1>2, <1>3 DEF Fit
<1>5. Moves
  <2>1. files' \in SUBSET (Docs \ UrlDocs) /\ \A e \in files : e \in files'
    BY <1>1, <1>2 DEF IInv, Types
  <2> QED
    BY <1>1, <2>1, Zenon DEF Moves, IInv, Types
<1>6. /\ actors'[a] = q /\ \A b \in Actors : b # a => actors'[b] = actors[b]
  BY <1>1 DEF IInv, Types
<1>7. Held(a)'
  BY <1>1, <1>2, <1>3, <1>6 DEF Held, Uploading, At
<1> QED
  BY <1>1, <1>3, <1>4, <1>5, <1>7, StepIInv

LEMMA InsertIInv ==
  ASSUME IInv, NEW a \in Actors, rebuilds' \in 0..MaxRebuilds, InsertDoc(a)
  PROVE  IInv'
<1> DEFINE d == actors[a].doc
           queued(cfg) == [Idle EXCEPT !.pc = "queue", !.queue = {d}, !.cfg = cfg]
<1>1. d \in Docs /\ docs[d].st = "none" /\ At(a, "insert")
  BY DEF InsertDoc, IInv, Types, Fit, Held, At, Uploading, Holding
<1>2. /\ UNCHANGED <<kb, coll, vec, files, faults>>
      /\ \/ End(a) /\ UNCHANGED docs
         \/ /\ KBLive /\ docs' = [docs EXCEPT ![d] = [st |-> "pending", n |-> 0]]
            /\ \/ End(a)
               \/ \E cfg \in Spaces : actors' = [actors EXCEPT ![a] = queued(cfg)]
  BY DEF InsertDoc, Spaces
<1>3. PICK q \in Actor : /\ actors' = [actors EXCEPT ![a] = q] /\ q.doc = "none"
                         /\ q.pc \in {"idle", "queue"}
  <2>1. CASE End(a)
    BY <2>1, IdleType DEF End
  <2>2. ASSUME NEW cfg \in Spaces, actors' = [actors EXCEPT ![a] = queued(cfg)]
        PROVE  \E q \in Actor : /\ actors' = [actors EXCEPT ![a] = q] /\ q.doc = "none"
                                /\ q.pc \in {"idle", "queue"}
    <3>1. queued(cfg) \in Actor
      BY <1>1, IdleType DEF Actor, Pcs
    <3>2. queued(cfg).doc = "none" /\ queued(cfg).pc = "queue"
      BY DEF Idle
    <3> HIDE DEF queued
    <3> QED
      BY <2>2, <3>1, <3>2
  <2> QED
    BY <1>2, <2>1, <2>2
<1>4. actors'[a].doc = "none"
  BY <1>3 DEF IInv, Types
<1>5. Moves
  <2>1. CASE UNCHANGED docs
    BY <1>2, <2>1, Still DEF IInv, Types
  <2>2. CASE KBLive /\ docs' = [docs EXCEPT ![d] = [st |-> "pending", n |-> 0]]
    <3>1. /\ docs' \in [Docs -> Row] /\ docs'[d].st = "pending"
          /\ \A e \in Docs : e # d => docs'[e] = docs[e]
      BY <1>1, <2>2 DEF IInv, Types, Row, LiveStatus
    <3>2. \A e \in Docs :
            \/ docs'[e].st = docs[e].st
            \/ /\ docs'[e].st = "pending" /\ KBLive
               /\ \E b \in Actors : /\ At(b, "insert") /\ actors[b].doc = e
                                    /\ actors'[b].doc = "none"
      BY <1>1, <1>4, <2>2, <3>1
    <3>3. \A e \in files : e \in files'
      BY <1>2
    <3>4. /\ kb' \in KBRow /\ kb'.st = kb.st /\ coll' \in BOOLEAN /\ faults' \in 0..MaxFaults
          /\ vec' \in [Docs -> [1..MaxChunks -> {"none"} \cup Spaces]]
          /\ files' \in SUBSET (Docs \ UrlDocs)
      BY <1>2, Zenon DEF IInv, Types
    <3> QED
      BY <3>1, <3>2, <3>3, <3>4, Zenon DEF Moves
  <2> QED
    BY <1>2, <2>1, <2>2
<1> QED
  BY <1>3, <1>5, EmptyIInv DEF Holding

(* A session that reads the rows. *)
LEMMA LoadType ==
  ASSUME IInv, NEW rec \in Actor
  PROVE  LET q == [rec EXCEPT !.docs = docs, !.count = kb.count]
         IN q \in Actor /\ q.pc = rec.pc /\ q.doc = rec.doc
<1>1. docs \in [Docs -> Row] /\ kb.count \in Int
  BY DEF IInv, Types, KBRow
<1> QED
  BY <1>1 DEF Actor

(* It holds a document whose row it has seen. *)
LEMMA LoadIInv ==
  ASSUME IInv, NEW a \in Actors, NEW rec \in Actor, Load(a, rec), Moves,
         rebuilds' \in 0..MaxRebuilds,
         rec.pc \notin {"save", "insert", "unlink", "purgeFiles"},
         \/ rec.doc \in Docs /\ docs[rec.doc].st # "none"
         \/ rec.doc = "none" /\ rec.pc \notin Holding
  PROVE  IInv'
<1> DEFINE q == [rec EXCEPT !.docs = docs, !.count = kb.count]
<1>1. q \in Actor /\ q.pc = rec.pc /\ q.doc = rec.doc
  BY LoadType
<1>2. actors' = [actors EXCEPT ![a] = q]
  BY DEF Load
<1> HIDE DEF q
<1>3. actors'[a] = q
  BY <1>1, <1>2 DEF IInv, Types
<1>4. Fit(q)
  BY <1>1 DEF Fit
<1>5. rec.doc \in Docs => docs'[rec.doc].st # "none"
  BY KBAssumption DEF Moves, LiveStatus
<1>6. Held(a)'
  BY <1>1, <1>3, <1>5 DEF Held, Uploading, At
<1> QED
  BY <1>1, <1>2, <1>4, <1>6, StepIInv

(* An actor that holds a document whose row it has seen. *)
LEMMA Seen ==
  ASSUME IInv, NEW a \in Actors, actors[a].pc \in Holding \ {"save", "insert"}
  PROVE  actors[a].doc \in Docs /\ docs[actors[a].doc].st # "none"
BY DEF IInv, Types, Fit, Held, Uploading

(* One row is deleted. *)
LEMMA GoneMoves ==
  ASSUME IInv, NEW d \in Docs, docs[d].st # "none",
         docs' = [docs EXCEPT ![d] = [st |-> "gone", n |-> 0]],
         kb' \in KBRow, kb'.st = kb.st, UNCHANGED <<coll, vec, files, faults>>
  PROVE  Moves
<1>1. /\ docs' \in [Docs -> Row] /\ docs'[d].st = "gone"
      /\ \A e \in Docs : e # d => docs'[e] = docs[e]
  BY DEF IInv, Types, Row
<1>2. docs[d].st \in LiveStatus \cup {"gone"}
  BY DEF IInv, Types, Row
<1>3. \A e \in Docs : \/ docs'[e].st = docs[e].st
                      \/ Live(e) /\ docs'[e].st \in LiveStatus \cup {"gone"}
  BY <1>1, <1>2 DEF Live
<1>4. \A e \in files : e \in files'
  OBVIOUS
<1>5. /\ coll' \in BOOLEAN /\ faults' \in 0..MaxFaults
      /\ vec' \in [Docs -> [1..MaxChunks -> {"none"} \cup Spaces]]
      /\ files' \in SUBSET (Docs \ UrlDocs)
  BY Zenon DEF IInv, Types
<1> QED
  BY <1>1, <1>3, <1>4, <1>5, Zenon DEF Moves

LEMMA SetCountType ==
  ASSUME IInv, NEW a \in Actors, NEW count \in Int, SetCount(a, count)
  PROVE  kb' \in KBRow /\ kb'.st = kb.st
<1> DEFINE written == Written(actors[a].count, count, kb.count)
<1>1. kb \in KBRow
  BY DEF IInv, Types
<1>2. written \in Int
  BY <1>1 DEF Written, KBRow
<1>3. kb' = [kb EXCEPT !.count = written]
  BY DEF SetCount
<1> HIDE DEF written
<1> QED
  BY <1>1, <1>2, <1>3 DEF KBRow

LEMMA DeleteIInv ==
  ASSUME IInv, NEW a \in Actors, rebuilds' \in 0..MaxRebuilds,
         (\E d \in Docs : DeleteDoc(a, d)) \/ DropChunks(a) \/ DeleteRow(a) \/ Unlink(a)
  PROVE  IInv'
<1>1. ASSUME NEW d \in Docs, DeleteDoc(a, d) PROVE IInv'
  <2> DEFINE rec == [Idle EXCEPT !.pc = "dropChunks", !.doc = d]
  <2>1. rec \in Actor
    BY IdleType DEF Actor, Pcs, Holding
  <2>2. rec.pc = "dropChunks" /\ rec.doc = d
    BY DEF Idle
  <2>3. Load(a, rec) /\ Live(d) /\ UNCHANGED <<kb, docs, coll, vec, files, faults>>
    BY <1>1 DEF DeleteDoc
  <2> HIDE DEF rec
  <2>4. Moves
    BY <2>3, Still DEF IInv, Types
  <2>5. docs[d].st # "none"
    BY <2>3 DEF Live, LiveStatus
  <2> QED
    BY <2>1, <2>2, <2>3, <2>4, <2>5, LoadIInv
<1>2. CASE DropChunks(a)
  <2>1. /\ At(a, "dropChunks") /\ faults' \in 0..MaxFaults
        /\ vec' \in [Docs -> [1..MaxChunks -> {"none"} \cup Spaces]]
        /\ Goto(a, "deleteRow") /\ UNCHANGED <<kb, docs, coll, files>>
    BY <1>2, Faults, NoPointsType DEF DropChunks, IInv, Types
  <2>2. Moves
    BY <2>1, Still DEF IInv, Types
  <2> QED
    BY <2>1, <2>2, GotoIInv DEF Pcs, Holding, Uploading, At
<1>3. CASE DeleteRow(a)
  <2> DEFINE d == actors[a].doc
             n == actors[a].docs[d].n
  <2>1. PICK count :
          /\ count = (IF n = 0 THEN actors[a].count
                      ELSE IF actors[a].count > n THEN actors[a].count - n ELSE 0)
          /\ IF StaleKB(a, count) THEN End(a) /\ UNCHANGED <<kb, docs>>
             ELSE /\ docs' = [docs EXCEPT ![d] = [st |-> "gone", n |-> 0]]
                  /\ SetCount(a, count)
                  /\ Goto(a, "unlink")
    BY <1>3 DEF DeleteRow
  <2>2. At(a, "deleteRow") /\ UNCHANGED <<coll, vec, files, faults>>
    BY <1>3 DEF DeleteRow
  <2>3. d \in Docs /\ docs[d].st # "none"
    BY <2>2, Seen DEF At, Holding
  <2>4. actors[a].count \in Int /\ n \in Nat
    BY <2>3 DEF IInv, Types, Actor, Row
  <2>5. count \in Int
    BY <2>1, <2>4
  <2>6. CASE StaleKB(a, count)
    BY <2>1, <2>2, <2>6, Still, EndIInv DEF IInv, Types
  <2>7. CASE ~StaleKB(a, count)
    <3>1. kb' \in KBRow /\ kb'.st = kb.st
      BY <2>1, <2>5, <2>7, SetCountType
    <3>2. Moves
      BY <2>1, <2>2, <2>3, <2>7, <3>1, GoneMoves
    <3>3. docs'[d].st = "gone"
      BY <2>1, <2>3, <2>7 DEF IInv, Types
    <3> QED
      BY <2>1, <2>2, <2>7, <3>2, <3>3, GotoIInv DEF Pcs, Holding, Uploading, At
  <2> QED
    BY <2>6, <2>7
<1>4. CASE Unlink(a)
  <2>1. /\ At(a, "unlink") /\ files' = files \ {actors[a].doc} /\ End(a)
        /\ UNCHANGED <<kb, docs, coll, vec, faults>>
    BY <1>4 DEF Unlink
  <2>2. docs[actors[a].doc].st = "gone"
    BY <2>1 DEF IInv, Held
  <2>3. /\ files' \in SUBSET (Docs \ UrlDocs)
        /\ \A d \in files : d \in files' \/ docs[d].st = "gone"
    BY <2>1, <2>2 DEF IInv, Types
  <2>4. Moves
    BY <2>1, <2>3, Zenon DEF Moves, IInv, Types
  <2> QED
    BY <2>1, <2>4, EndIInv
<1> QED
  BY <1>1, <1>2, <1>3, <1>4

(* A row as the session of an actor would write it. *)
LEMMA WrittenType ==
  ASSUME IInv, NEW a \in Actors, NEW d \in Docs, NEW row \in Row
  PROVE  /\ WrittenRow(a, d, row) \in Row
         /\ WrittenRow(a, d, row).st \in {row.st, docs[d].st}
BY DEF IInv, Types, WrittenRow, Written, Row

(* Live rows are written, each with what its status may become. *)
LEMMA WriteMoves ==
  ASSUME IInv, docs' \in [Docs -> Row],
         \A d \in Docs : \/ docs'[d].st = docs[d].st
                         \/ Live(d) /\ docs'[d].st \in LiveStatus,
         kb' \in KBRow, kb'.st = kb.st, UNCHANGED <<coll, vec, files, faults>>
  PROVE  Moves
<1>1. \A d \in Docs : \/ docs'[d].st = docs[d].st
                      \/ Live(d) /\ docs'[d].st \in LiveStatus \cup {"gone"}
  OBVIOUS
<1>2. \A e \in files : e \in files'
  OBVIOUS
<1>3. /\ coll' \in BOOLEAN /\ faults' \in 0..MaxFaults
      /\ vec' \in [Docs -> [1..MaxChunks -> {"none"} \cup Spaces]]
      /\ files' \in SUBSET (Docs \ UrlDocs)
  BY Zenon DEF IInv, Types
<1> QED
  BY <1>1, <1>2, <1>3, Zenon DEF Moves

LEMMA ResetIInv ==
  ASSUME IInv, NEW a \in Actors, rebuilds' \in 0..MaxRebuilds, Reset(a)
  PROVE  IInv'
<1> DEFINE zero == [st |-> "pending", n |-> 0]
           mine == {d \in Docs : actors[a].docs[d].st \in LiveStatus}
           q(cfg) == [Idle EXCEPT !.pc = "dropColl", !.queue = mine, !.cfg = cfg]
<1>1. /\ UNCHANGED <<coll, vec, files, faults>>
      /\ \/ End(a) /\ UNCHANGED <<kb, docs>>
         \/ /\ docs' = [d \in Docs |-> IF d \in mine /\ Live(d)
                                       THEN WrittenRow(a, d, zero) ELSE docs[d]]
            /\ SetCount(a, 0)
            /\ \E cfg \in {"user", "none"} : actors' = [actors EXCEPT ![a] = q(cfg)]
  BY DEF Reset
<1>2. zero \in Row /\ zero.st = "pending"
  BY DEF Row, LiveStatus
<1> HIDE DEF zero
<1>3. CASE End(a) /\ UNCHANGED <<kb, docs>>
  BY <1>1, <1>3, Still, EndIInv DEF IInv, Types
<1>4. ASSUME docs' = [d \in Docs |-> IF d \in mine /\ Live(d)
                                     THEN WrittenRow(a, d, zero) ELSE docs[d]],
             SetCount(a, 0),
             NEW cfg \in {"user", "none"}, actors' = [actors EXCEPT ![a] = q(cfg)]
      PROVE  IInv'
  <2>1. mine \in SUBSET Docs
    OBVIOUS
  <2> HIDE DEF mine
  <2>2. q(cfg) \in Actor
    BY <2>1, IdleType DEF Actor, Pcs, Spaces
  <2>3. q(cfg).pc = "dropColl" /\ q(cfg).doc = "none"
    BY DEF Idle
  <2>4. kb' \in KBRow /\ kb'.st = kb.st
    BY <1>4, SetCountType
  <2>5. \A d \in Docs : docs'[d] = docs[d] \/ (Live(d) /\ docs'[d] = WrittenRow(a, d, zero))
    BY <1>4
  <2>6. docs' \in [Docs -> Row]
    BY <1>2, <1>4, WrittenType DEF IInv, Types
  <2>7. \A d \in Docs : \/ docs'[d].st = docs[d].st
                        \/ Live(d) /\ docs'[d].st \in LiveStatus
    BY <1>2, <2>5, WrittenType DEF LiveStatus
  <2>8. Moves
    BY <1>1, <2>4, <2>6, <2>7, WriteMoves
  <2> HIDE DEF q
  <2> QED
    BY <1>4, <2>2, <2>3, <2>8, EmptyIInv DEF Holding
<1> QED
  BY <1>1, <1>3, <1>4

LEMMA RebuildIInv ==
  ASSUME IInv, NEW a \in Actors, rebuilds' \in 0..MaxRebuilds,
         DropCollection(a) \/ RecreateCollection(a)
  PROVE  IInv'
<1>1. CASE DropCollection(a)
  <2>1. /\ At(a, "dropColl") /\ faults' \in 0..MaxFaults /\ coll' \in BOOLEAN
        /\ vec' \in [Docs -> [1..MaxChunks -> {"none"} \cup Spaces]]
        /\ UNCHANGED <<kb, docs, files>> /\ (Goto(a, "makeColl") \/ End(a))
    BY <1>1, Faults, NoPointsType DEF DropCollection, IInv, Types
  <2>2. Moves
    BY <2>1, Still
  <2> QED
    BY <2>1, <2>2, EndIInv, GotoIInv DEF Pcs, Holding, Uploading, At
<1>2. CASE RecreateCollection(a)
  <2>1. /\ At(a, "makeColl") /\ faults' \in 0..MaxFaults /\ coll' \in BOOLEAN
        /\ UNCHANGED <<kb, docs, vec, files>> /\ (Goto(a, "queue") \/ End(a))
    BY <1>2, Faults DEF RecreateCollection, IInv, Types
  <2>2. Moves
    BY <2>1, Still DEF IInv, Types
  <2> QED
    BY <2>1, <2>2, EndIInv, GotoIInv DEF Pcs, Holding, Uploading, At
<1> QED
  BY <1>1, <1>2

LEMMA StartRebuildIInv == ASSUME IInv, NEW a \in Actors, Rebuild(a) PROVE IInv'
<1> DEFINE rec == [Idle EXCEPT !.pc = "reset"]
<1>1. rec \in Actor
  BY IdleType DEF Actor, Pcs
<1>2. rec.pc = "reset" /\ rec.doc = "none"
  BY DEF Idle
<1>3. /\ Load(a, rec) /\ UNCHANGED <<kb, docs, coll, vec, files, faults>>
      /\ rebuilds < MaxRebuilds /\ rebuilds' = rebuilds + 1
  BY DEF Rebuild
<1> HIDE DEF rec
<1>4. rebuilds' \in 0..MaxRebuilds
  BY <1>3, KBAssumption DEF IInv, Types
<1>5. Moves
  BY <1>3, Still DEF IInv, Types
<1> QED
  BY <1>1, <1>2, <1>3, <1>4, <1>5, LoadIInv DEF Holding

LEMMA PurgeIInv ==
  ASSUME IInv, NEW a \in Actors, rebuilds' \in 0..MaxRebuilds,
         PurgeCollection(a) \/ PurgeRow(a) \/ PurgeFiles(a)
  PROVE  IInv'
<1>1. CASE PurgeCollection(a)
  <2>1. /\ At(a, "idle") /\ Goto(a, "purgeRow") /\ UNCHANGED <<kb, docs, files, faults>>
        /\ coll' \in BOOLEAN /\ faults' \in 0..MaxFaults
        /\ vec' \in [Docs -> [1..MaxChunks -> {"none"} \cup Spaces]]
    BY <1>1, NoPointsType DEF PurgeCollection, IInv, Types
  <2>2. Moves
    BY <2>1, Still
  <2> QED
    BY <2>1, <2>2, GotoIInv DEF Pcs, Holding, Uploading, At
<1>2. CASE PurgeRow(a)
  BY <1>2, RemoveMoves, GotoIInv DEF PurgeRow, Pcs, Holding, Uploading, At
<1>3. CASE PurgeFiles(a)
  <2>1. /\ At(a, "purgeFiles") /\ files' = {} /\ End(a)
        /\ UNCHANGED <<kb, docs, coll, vec, faults>>
    BY <1>3 DEF PurgeFiles
  <2>2. kb.st = "gone"
    BY <2>1 DEF IInv, Held
  <2>3. files' \in SUBSET (Docs \ UrlDocs) /\ \A d \in files : kb.st = "gone"
    BY <2>1, <2>2
  <2>4. Moves
    BY <2>1, <2>3, Zenon DEF Moves, IInv, Types
  <2> QED
    BY <2>1, <2>4, EndIInv
<1> QED
  BY <1>1, <1>2, <1>3

-------------------------------------------------------------------------------
(* The ingest tasks *)

(* An actor that goes on with its document. *)
LEMMA OnIInv ==
  ASSUME IInv, NEW a \in Actors, NEW q \in Actor, actors' = [actors EXCEPT ![a] = q], Moves,
         rebuilds' \in 0..MaxRebuilds,
         q.pc \in Holding \ {"save", "insert", "unlink"}, q.doc = actors[a].doc,
         actors[a].pc \in Holding \ {"save", "insert"}
  PROVE  IInv'
<1>1. q.doc \in Docs /\ docs[q.doc].st # "none"
  BY Seen
<1>2. actors'[a] = q
  BY DEF IInv, Types
<1>3. docs'[q.doc].st # "none"
  BY <1>1 DEF Moves, LiveStatus
<1>4. Held(a)' /\ Fit(q)
  BY <1>1, <1>2, <1>3 DEF Held, Uploading, At, Fit, Holding
<1> QED
  BY <1>4, StepIInv

LEMMA NextDocIInv ==
  ASSUME IInv, NEW a \in Actors, rebuilds' \in 0..MaxRebuilds, NextDoc(a)
  PROVE  IInv'
<1> DEFINE p == actors[a]
<1>1. /\ UNCHANGED <<kb, docs, coll, vec, files, faults>>
      /\ \/ End(a)
         \/ \E d \in p.queue :
              IF Live(d) THEN Load(a, [p EXCEPT !.doc = d, !.pc = "claim"]) ELSE Without(a, d)
  BY DEF NextDoc
<1>2. Moves
  BY <1>1, Still DEF IInv, Types
<1>3. p \in Actor
  BY DEF IInv, Types
<1>4. ASSUME NEW d \in p.queue, Live(d), Load(a, [p EXCEPT !.doc = d, !.pc = "claim"])
      PROVE  IInv'
  <2> DEFINE rec == [p EXCEPT !.doc = d, !.pc = "claim"]
  <2>1. d \in Docs /\ docs[d].st # "none"
    BY <1>3, <1>4 DEF Actor, Live, LiveStatus
  <2>2. rec \in Actor /\ rec.pc = "claim" /\ rec.doc = d
    BY <1>3, <2>1 DEF Actor, Pcs, Holding
  <2>3. Load(a, rec)
    BY <1>4
  <2> HIDE DEF rec
  <2> QED
    BY <1>2, <2>1, <2>2, <2>3, LoadIInv
<1> QED
  BY <1>1, <1>2, <1>4, EndIInv, WithoutIInv

(* What the claim leaves in its actor. *)
LEMMA SessionType ==
  ASSUME NEW r \in Actor, NEW rows \in [Docs -> Row], NEW c \in Int
  PROVE  LET q == [r EXCEPT !.docs = rows, !.count = c]
         IN q \in Actor /\ q.pc = r.pc /\ q.doc = r.doc
BY DEF Actor

LEMMA ClaimType ==
  ASSUME NEW p \in Actor, NEW n \in Nat, NEW rows \in [Docs -> Row]
  PROVE  LET q == [p EXCEPT !.pc = "parse", !.prev = n, !.docs = rows, !.count = 0]
         IN q \in Actor /\ q.pc = "parse" /\ q.doc = p.doc
<1> DEFINE r == [p EXCEPT !.pc = "parse", !.prev = n]
           q == [r EXCEPT !.docs = rows, !.count = 0]
<1>1. "parse" \in Pcs
  BY DEF Pcs, Holding
<1>2. r \in Actor /\ r.pc = "parse" /\ r.doc = p.doc
  BY <1>1 DEF Actor
<1>3. [p EXCEPT !.pc = "parse", !.prev = n, !.docs = rows, !.count = 0] = q
  BY DEF Actor
<1> HIDE DEF r
<1>4. 0 \in Int
  OBVIOUS
<1>5. q \in Actor /\ q.pc = r.pc /\ q.doc = r.doc
  BY <1>2, <1>4, SessionType
<1> QED
  BY <1>2, <1>3, <1>5

LEMMA ClaimIInv ==
  ASSUME IInv, NEW a \in Actors, rebuilds' \in 0..MaxRebuilds, Claim(a)
  PROVE  IInv'
<1> DEFINE p == actors[a]
           d == p.doc
           row == [p.docs[d] EXCEPT !.st = "ingesting"]
           q == [p EXCEPT !.pc = "parse", !.prev = row.n, !.docs = Idle.docs, !.count = 0]
<1>1. /\ At(a, "claim") /\ UNCHANGED <<kb, coll, vec, files, faults>>
      /\ \/ End(a) /\ UNCHANGED docs
         \/ /\ docs' = IF Live(d) THEN [docs EXCEPT ![d] = WrittenRow(a, d, row)] ELSE docs
            /\ actors' = [actors EXCEPT ![a] = q]
  BY DEF Claim
<1>2. p \in Actor /\ d \in Docs
  BY <1>1, Seen DEF IInv, Types, At, Holding
<1>3. p.docs[d] \in Row
  BY <1>2 DEF Actor
<1>4. row \in Row /\ row.st = "ingesting" /\ row.n \in Nat
  BY <1>3 DEF Row, LiveStatus
<1> HIDE DEF row
<1>5. CASE End(a) /\ UNCHANGED docs
  BY <1>1, <1>5, Still, EndIInv DEF IInv, Types
<1>6. CASE /\ docs' = IF Live(d) THEN [docs EXCEPT ![d] = WrittenRow(a, d, row)] ELSE docs
           /\ actors' = [actors EXCEPT ![a] = q]
  <2>1. Idle.docs \in [Docs -> Row]
    BY IdleType DEF Actor
  <2>2. q \in Actor /\ q.pc = "parse" /\ q.doc = d
    <3> DEFINE n == row.n
               rows == Idle.docs
    <3>1. n \in Nat /\ rows \in [Docs -> Row]
      BY <1>4, <2>1
    <3>2. q = [p EXCEPT !.pc = "parse", !.prev = n, !.docs = rows, !.count = 0]
      OBVIOUS
    <3> HIDE DEF n, rows, q, p
    <3>3. /\ [p EXCEPT !.pc = "parse", !.prev = n, !.docs = rows, !.count = 0] \in Actor
          /\ [p EXCEPT !.pc = "parse", !.prev = n, !.docs = rows, !.count = 0].pc = "parse"
          /\ [p EXCEPT !.pc = "parse", !.prev = n, !.docs = rows, !.count = 0].doc = p.doc
      BY Zenon, <1>2, <3>1, ClaimType
    <3> QED
      BY Zenon, <3>2, <3>3
  <2>3. actors' = [actors EXCEPT ![a] = q]
    BY <1>6
  <2> HIDE DEF q
  <2>4. /\ docs' \in [Docs -> Row]
        /\ \A e \in Docs : \/ docs'[e].st = docs[e].st
                           \/ Live(e) /\ docs'[e].st \in LiveStatus
    <3>1. CASE Live(d)
      BY <1>2, <1>4, <1>6, <3>1, WrittenType DEF IInv, Types, Live, LiveStatus
    <3>2. CASE ~Live(d)
      BY <1>6, <3>2 DEF IInv, Types
    <3> QED
      BY <3>1, <3>2
  <2>5. Moves
    BY <1>1, <2>4, WriteMoves DEF IInv, Types
  <2> QED
    BY <1>1, <2>2, <2>3, <2>5, OnIInv DEF At, Holding
<1> QED
  BY <1>1, <1>5, <1>6

LEMMA ParseIInv ==
  ASSUME IInv, NEW a \in Actors, rebuilds' \in 0..MaxRebuilds, Parse(a)
  PROVE  IInv'
<1> DEFINE p == actors[a]
           q(pc, n) == [p EXCEPT !.pc = pc, !.new = n]
<1>1. /\ At(a, "parse") /\ UNCHANGED <<kb, docs, coll, vec, files, faults>>
      /\ \/ \E n \in Yields(p.doc) :
              actors' = [actors EXCEPT ![a].pc = "upsert", ![a].new = n]
         \/ actors' = [actors EXCEPT ![a].pc = "finish", ![a].new = 0]
  BY DEF Parse
<1>2. p \in Actor
  BY DEF IInv, Types
<1>3. Moves
  BY <1>1, Still DEF IInv, Types
<1>4. PICK pc \in {"upsert", "finish"}, n \in 0..MaxChunks :
        actors' = [actors EXCEPT ![a] = q(pc, n)]
  <2>1. \A n \in Yields(p.doc) : n \in 0..MaxChunks
    BY KBAssumption DEF Yields
  <2>2. 0 \in 0..MaxChunks
    BY KBAssumption
  <2> QED
    BY <1>1, <2>1, <2>2
<1>5. q(pc, n) \in Actor /\ q(pc, n).pc = pc /\ q(pc, n).doc = p.doc
  BY <1>2 DEF Actor, Pcs, Holding
<1> HIDE DEF q
<1> QED
  BY <1>1, <1>3, <1>4, <1>5, OnIInv DEF At, Holding

LEMMA UpsertIInv ==
  ASSUME IInv, NEW a \in Actors, rebuilds' \in 0..MaxRebuilds, Upsert(a)
  PROVE  IInv'
<1> DEFINE p == actors[a]
           d == p.doc
           space == SpaceOf(p.cfg)
           points == [i \in 1..MaxChunks |-> IF i <= p.new THEN space ELSE vec[d][i]]
           q == [p EXCEPT !.pc = "finish", !.new = 0]
<1>1. /\ At(a, "upsert") /\ UNCHANGED <<kb, docs, coll, files>> /\ (Works \/ Fails)
      /\ UNCHANGED vec \/ vec' = [vec EXCEPT ![d] = points]
      /\ Goto(a, "finish") \/ actors' = [actors EXCEPT ![a].pc = "finish", ![a].new = 0]
  BY DEF Upsert
<1>2. p \in Actor /\ d \in Docs
  BY <1>1, Seen DEF IInv, Types, At, Holding
<1>3. vec[d] \in [1..MaxChunks -> {"none"} \cup Spaces] /\ space \in {"none"} \cup Spaces
  BY <1>2 DEF IInv, Types, SpaceOf, Spaces
<1> HIDE DEF space
<1>4. points \in [1..MaxChunks -> {"none"} \cup Spaces]
  BY <1>3
<1> HIDE DEF points
<1>5. vec' \in [Docs -> [1..MaxChunks -> {"none"} \cup Spaces]]
  BY <1>1, <1>2, <1>4 DEF IInv, Types
<1>6. Moves
  BY <1>1, <1>5, Faults, Still DEF IInv, Types
<1>7. CASE Goto(a, "finish")
  BY <1>1, <1>6, <1>7, GotoIInv DEF Pcs, Holding, Uploading, At
<1>8. CASE actors' = [actors EXCEPT ![a].pc = "finish", ![a].new = 0]
  <2>1. 0 \in 0..MaxChunks
    BY KBAssumption
  <2>2. q \in Actor /\ q.pc = "finish" /\ q.doc = d
    BY <1>2, <2>1 DEF Actor, Pcs, Holding
  <2>3. actors' = [actors EXCEPT ![a] = q]
    BY <1>8
  <2> HIDE DEF q
  <2> QED
    BY <1>1, <1>6, <2>2, <2>3, OnIInv DEF At, Holding
<1> QED
  BY <1>1, <1>7, <1>8

LEMMA FinishReadIInv ==
  ASSUME IInv, NEW a \in Actors, rebuilds' \in 0..MaxRebuilds, FinishRead(a)
  PROVE  IInv'
<1> DEFINE p == actors[a]
           rec == [p EXCEPT !.pc = "finalize"]
<1>1. /\ At(a, "finish") /\ UNCHANGED <<kb, docs, coll, vec, files, faults>>
      /\ Load(a, rec) \/ Without(a, p.doc)
  BY DEF FinishRead
<1>2. p \in Actor /\ p.doc \in Docs /\ docs[p.doc].st # "none"
  BY <1>1, Seen DEF IInv, Types, At, Holding
<1>3. rec \in Actor /\ rec.pc = "finalize" /\ rec.doc = p.doc
  BY <1>2 DEF Actor, Pcs, Holding
<1> HIDE DEF rec
<1>4. Moves
  BY <1>1, Still DEF IInv, Types
<1> QED
  BY <1>1, <1>2, <1>3, <1>4, LoadIInv, WithoutIInv

LEMMA FinalizeIInv ==
  ASSUME IInv, NEW a \in Actors, rebuilds' \in 0..MaxRebuilds, Finalize(a)
  PROVE  IInv'
<1> DEFINE p == actors[a]
           d == p.doc
           row == [st |-> IF p.new > 0 THEN "done" ELSE "failed", n |-> p.new]
           count == IF p.new > 0 THEN p.count - p.prev + p.new ELSE p.count
<1>1. /\ At(a, "finalize") /\ UNCHANGED <<coll, vec, files, faults>>
      /\ \/ End(a) /\ UNCHANGED <<kb, docs>>
         \/ /\ docs' = IF Live(d) THEN [docs EXCEPT ![d] = WrittenRow(a, d, row)] ELSE docs
            /\ SetCount(a, count)
            /\ Without(a, d)
  BY DEF Finalize
<1>2. p \in Actor /\ d \in Docs
  BY <1>1, Seen DEF IInv, Types, At, Holding
<1>3. p.new \in Nat /\ p.prev \in Nat /\ p.count \in Int
  BY <1>2, KBAssumption DEF Actor
<1>4. count \in Int
  BY <1>3
<1>5. row \in Row /\ row.st \in LiveStatus
  BY <1>3 DEF Row, LiveStatus
<1> HIDE DEF row, count
<1>6. CASE End(a) /\ UNCHANGED <<kb, docs>>
  BY <1>1, <1>6, Still, EndIInv DEF IInv, Types
<1>7. CASE /\ docs' = IF Live(d) THEN [docs EXCEPT ![d] = WrittenRow(a, d, row)] ELSE docs
           /\ SetCount(a, count)
           /\ Without(a, d)
  <2>1. kb' \in KBRow /\ kb'.st = kb.st
    BY <1>4, <1>7, SetCountType
  <2>2. /\ docs' \in [Docs -> Row]
        /\ \A e \in Docs : \/ docs'[e].st = docs[e].st
                           \/ Live(e) /\ docs'[e].st \in LiveStatus
    <3>1. CASE Live(d)
      BY <1>2, <1>5, <1>7, <3>1, WrittenType DEF IInv, Types, Live
    <3>2. CASE ~Live(d)
      BY <1>7, <3>2 DEF IInv, Types
    <3> QED
      BY <3>1, <3>2
  <2>3. Moves
    BY <1>1, <2>1, <2>2, WriteMoves
  <2> QED
    BY <1>7, <2>3, WithoutIInv
<1> QED
  BY <1>1, <1>6, <1>7

-------------------------------------------------------------------------------

LEMMA InitIInv == Init => IInv
<1> SUFFICES ASSUME Init PROVE IInv
  OBVIOUS
<1>1. kb \in KBRow /\ docs \in [Docs -> Row]
  BY DEF Init, KBRow, Row
<1>2. coll \in BOOLEAN /\ files \in SUBSET (Docs \ UrlDocs)
  BY Zenon DEF Init
<1>3. vec \in [Docs -> [1..MaxChunks -> {"none"} \cup Spaces]]
  BY NoPointsType DEF Init
<1>4. faults \in 0..MaxFaults /\ rebuilds \in 0..MaxRebuilds
  BY KBAssumption DEF Init
<1>5. actors \in [Actors -> Actor] /\ \A a \in Actors : actors[a] = Idle
  BY IdleType DEF Init
<1>6. \A a \in Actors : Held(a)
  BY <1>5, IdleType, KBAssumption DEF Held, Uploading, At
<1>7. DocHasKBAndFile
  BY DEF Init, DocHasKBAndFile, Live, LiveStatus
<1> QED
  BY <1>1, <1>2, <1>3, <1>4, <1>5, <1>6, <1>7, IdleType, Zenon DEF IInv, Types

LEMMA NextIInv == IInv /\ [Next]_vars => IInv'
<1> SUFFICES ASSUME IInv, [Next]_vars PROVE IInv'
  OBVIOUS
<1>1. ASSUME NEW a \in Actors, UNCHANGED rebuilds, Request(a) \/ Work(a) \/ Crash(a)
      PROVE  IInv'
  <2>1. rebuilds' \in 0..MaxRebuilds
    BY <1>1 DEF IInv, Types
  <2>2. CASE Crash(a)
    <3>1. faults' \in 0..MaxFaults
      BY <2>2, Faults DEF Crash
    <3>2. Moves
      BY <2>2, <3>1, Still DEF Crash, IInv, Types
    <3> QED
      BY <2>1, <2>2, <3>2, EndIInv DEF Crash
  <2>3. CASE Request(a)
    BY <2>1, <2>3, CreateIInv, PurgeIInv, UploadIInv, DeleteIInv, Zenon DEF Request
  <2>4. CASE Work(a)
    BY <2>1, <2>4, CreateIInv, SaveIInv, InsertIInv, DeleteIInv, ResetIInv, RebuildIInv, PurgeIInv,
       NextDocIInv, ClaimIInv, ParseIInv, UpsertIInv, FinishReadIInv, FinalizeIInv, Zenon
    DEF Work
  <2> QED
    BY <1>1, <2>2, <2>3, <2>4
<1>2. CASE UNCHANGED vars
  BY <1>2 DEF vars, IInv, Types, Fit, Held, Uploading, At, DocHasKBAndFile, Live, KBLive
<1> QED
  BY <1>1, <1>2, StartRebuildIInv DEF Next

(* Rows, files and what each request knows of its document stay in step    *)
(* through all interleavings, crashes and failures.                         *)
THEOREM Invariance == Spec => []IInv
BY InitIInv, NextIInv, PTL DEF Spec

(* Every reachable state of the knowledge base is well typed. *)
THEOREM TypeCorrect == Spec => []TypeOK
<1>1. IInv => TypeOK
  BY DEF IInv, Types, TypeOK, KBRow, Actor
<1> QED
  BY <1>1, Invariance, PTL

(* A document row has its knowledge base and its upload, for any number of *)
(* requests, ingests, crashes and store failures.                          *)
THEOREM RowsKept == Spec => []DocHasKBAndFile
<1>1. IInv => DocHasKBAndFile
  BY DEF IInv
<1> QED
  BY <1>1, Invariance, PTL

(* A step that upholds the invariant brings no deleted row back. *)
Kept ==
  /\ kb.st = "gone" => kb'.st = "gone"
  /\ \A d \in Docs : docs[d].st = "gone" => docs'[d].st = "gone"

(* A commit of some columns of a row that is still there. *)
LEMMA CommitKept ==
  ASSUME Types, NEW a \in Actors, NEW d \in Docs, NEW row,
         docs' = IF Live(d) THEN [docs EXCEPT ![d] = WrittenRow(a, d, row)] ELSE docs,
         kb'.st = kb.st
  PROVE  Kept
<1>1. docs[d].st = "gone" => ~Live(d)
  BY DEF Live, LiveStatus
<1> HIDE DEF WrittenRow
<1> QED
  BY <1>1 DEF Kept, Types

LEMMA WorkKept ==
  ASSUME IInv, NEW a \in Actors, Work(a)
  PROVE  Kept
<1>1. CASE UNCHANGED <<kb, docs>>
  BY <1>1 DEF Kept
<1>2. ASSUME NEW count, SetCount(a, count) PROVE kb'.st = kb.st
  BY <1>2 DEF SetCount, IInv, Types, KBRow
<1>3. CASE RemoveKB
  BY <1>3 DEF RemoveKB, Kept, IInv, Types, KBRow
<1>4. CASE InsertDoc(a)
  <2> DEFINE d == actors[a].doc
  <2>1. docs[d].st = "none" /\ d \in Docs
    BY <1>4 DEF InsertDoc, IInv, Types, Fit, Holding, Held, Uploading, At
  <2>2. UNCHANGED docs \/ docs' = [docs EXCEPT ![d] = [st |-> "pending", n |-> 0]]
    BY <1>4 DEF InsertDoc
  <2>3. UNCHANGED kb
    BY <1>4 DEF InsertDoc
  <2> QED
    BY <2>1, <2>2, <2>3 DEF Kept, IInv, Types
<1>5. CASE DeleteRow(a)
  <2> DEFINE d == actors[a].doc
  <2>1. \/ UNCHANGED <<kb, docs>>
        \/ kb'.st = kb.st /\ docs' = [docs EXCEPT ![d] = [st |-> "gone", n |-> 0]]
    BY <1>2, <1>5 DEF DeleteRow
  <2> QED
    BY <2>1 DEF Kept, IInv, Types
<1>6. CASE Reset(a)
  <2> DEFINE zero == [st |-> "pending", n |-> 0]
             mine == {d \in Docs : actors[a].docs[d].st \in LiveStatus}
  <2>1. \/ UNCHANGED <<kb, docs>>
        \/ /\ kb'.st = kb.st
           /\ docs' = [d \in Docs |-> IF d \in mine /\ Live(d)
                                      THEN WrittenRow(a, d, zero) ELSE docs[d]]
    BY <1>2, <1>6 DEF Reset
  <2>2. \A d \in Docs : docs[d].st = "gone" => ~Live(d)
    BY DEF Live, LiveStatus
  <2> HIDE DEF zero, mine
  <2> QED
    BY <2>1, <2>2 DEF Kept
<1>7. CASE Claim(a)
  <2> DEFINE d == actors[a].doc
             row == [actors[a].docs[d] EXCEPT !.st = "ingesting"]
  <2>1. d \in Docs
    BY <1>7, Seen DEF Claim, At, Holding
  <2>2. UNCHANGED kb
    BY <1>7 DEF Claim
  <2>3. \/ UNCHANGED docs
        \/ docs' = IF Live(d) THEN [docs EXCEPT ![d] = WrittenRow(a, d, row)] ELSE docs
    BY <1>7 DEF Claim
  <2> HIDE DEF row, d
  <2> QED
    BY <1>1, <2>1, <2>2, <2>3, CommitKept DEF IInv
<1>8. CASE Finalize(a)
  <2> DEFINE d == actors[a].doc
             new == actors[a].new
             row == [st |-> IF new > 0 THEN "done" ELSE "failed", n |-> new]
  <2>1. d \in Docs
    BY <1>8, Seen DEF Finalize, At, Holding
  <2>2. \/ UNCHANGED <<kb, docs>>
        \/ /\ docs' = IF Live(d) THEN [docs EXCEPT ![d] = WrittenRow(a, d, row)] ELSE docs
           /\ kb'.st = kb.st
    BY <1>2, <1>8 DEF Finalize
  <2> HIDE DEF row, d
  <2> QED
    BY <1>1, <2>1, <2>2, CommitKept DEF IInv
<1> QED
  BY <1>1, <1>3, <1>4, <1>5, <1>6, <1>7, <1>8
  DEF Work, CreateCollection, UndoCreate, SaveUpload, DropChunks, Unlink,
      DropCollection, RecreateCollection, PurgeRow, PurgeFiles, NextDoc, Parse, Upsert, FinishRead

(* No ingest, reset or commit of a session that outlives a deletion brings *)
(* the row of a document or of the knowledge base back.                    *)
THEOREM NoRowReturns == Spec => DeletedStaysDeleted
<1>1. IInv /\ [Next]_vars => [Kept]_vars
  <2> SUFFICES ASSUME IInv, Next PROVE Kept
    BY DEF Kept
  <2>1. ASSUME NEW a \in Actors, Rebuild(a) PROVE Kept
    BY <2>1 DEF Rebuild, Kept
  <2>2. ASSUME NEW a \in Actors, Request(a) PROVE Kept
    BY <2>2 DEF Request, CreateKB, PurgeCollection, Upload, DeleteDoc, Kept
  <2>3. ASSUME NEW a \in Actors, Crash(a) PROVE Kept
    BY <2>3 DEF Crash, Kept
  <2> QED
    BY <2>1, <2>2, <2>3, WorkKept DEF Next
<1> QED
  BY <1>1, Invariance, PTL DEF Spec, DeletedStaysDeleted, Kept


-------------------------------------------------------------------------------
(* MapThenSumSet over the documents: its recursive function exists on the  *)
(* finite set of them, and what it adds up to.                             *)

(* Induction over the numbers: a set with 0 and all successors is Nat.     *)
LEMMA NumberInduction ==
  ASSUME NEW R \in SUBSET Nat, 0 \in R, \A n \in R : n + 1 \in R
  PROVE  R = Nat
<1> SUFFICES ASSUME Nat \ R # {} PROVE FALSE
  OBVIOUS
<1>1. IsWellFoundedOn(OpToRel(<, Nat), Nat)
  BY NatLessThanWellFounded
<1>2. PICK n \in Nat \ R : \A m \in Nat \ R : <<m, n>> \notin OpToRel(<, Nat)
  BY <1>1, WFMin
<1>3. n \in Nat /\ n # 0
  OBVIOUS
<1>4. n - 1 \in Nat /\ n - 1 < n /\ n = (n - 1) + 1
  BY <1>3
<1>5. n - 1 \notin R
  BY <1>4
<1>6. <<n - 1, n>> \in OpToRel(<, Nat)
  BY <1>3, <1>4 DEF OpToRel
<1> QED
  BY <1>2, <1>4, <1>5, <1>6

Chosen(s) == CHOOSE d \in s : TRUE

(* Induction over the subsets of a finite set, in the order in which       *)
(* MapThenSumSet takes their elements.                                     *)
LEMMA SubsetInduction ==
  ASSUME NEW D, IsFiniteSet(D), NEW R \in SUBSET (SUBSET D), {} \in R,
         \A s \in SUBSET D : s # {} /\ s \ {Chosen(s)} \in R => s \in R
  PROVE  R = SUBSET D
<1> DEFINE N == {n \in Nat : \A s \in SUBSET D : Cardinality(s) = n => s \in R}
<1>1. \A s \in SUBSET D : IsFiniteSet(s) /\ Cardinality(s) \in Nat
  BY FS_Subset, FS_CardinalityType
<1>2. 0 \in N
  BY <1>1, FS_EmptySet
<1>3. ASSUME NEW n \in N PROVE n + 1 \in N
  <2> SUFFICES ASSUME NEW s \in SUBSET D, Cardinality(s) = n + 1 PROVE s \in R
    OBVIOUS
  <2>1. n \in Nat /\ n + 1 # 0 /\ (n + 1) - 1 = n
    OBVIOUS
  <2>2. s # {} /\ Chosen(s) \in s
    <3>1. Cardinality(s) # 0
      BY <2>1
    <3>2. s # {}
      BY <3>1, FS_EmptySet
    <3> QED
      BY <3>2 DEF Chosen
  <2>3. Cardinality(s \ {Chosen(s)}) = n
    <3>1. IsFiniteSet(s)
      BY <1>1
    <3>2. Cardinality(s \ {Chosen(s)}) = Cardinality(s) - 1
      BY <2>2, <3>1, FS_RemoveElement
    <3> QED
      BY <2>1, <3>2
  <2>4. s \ {Chosen(s)} \in SUBSET D
    OBVIOUS
  <2>5. s \ {Chosen(s)} \in R
    BY <2>3, <2>4
  <2> QED
    BY <2>2, <2>5
<1>4. N = Nat
  <2> HIDE DEF N
  <2>1. N \in SUBSET Nat
    BY DEF N
  <2> QED
    BY <1>2, <1>3, <2>1, NumberInduction
<1> QED
  BY <1>1, <1>4

(* The sum of the chunk counts of some rows. *)
SumOf(rows, S) == MapThenSumSet(LAMBDA d : rows[d].n, S)

(* The recursion that defines it. *)
Sums(rows, f, D) ==
  f = [s \in SUBSET D |->
         IF s = {} THEN 0 ELSE rows[Chosen(s)].n + f[s \ {Chosen(s)}]]

LEMMA SumIsSums ==
  ASSUME NEW rows, NEW S
  PROVE  SumOf(rows, S) = (CHOOSE f : Sums(rows, f, S))[S]
BY Zenon DEF SumOf, MapThenSumSet, MapThenFoldSet, Sums, Chosen


(* One step of the recursion on all subsets, from a function on those of   *)
(* at most n documents to one on those of at most n + 1.                   *)
Upto(D, n) == {s \in SUBSET D : Cardinality(s) <= n}

Unfold(rows, g, s) == IF s = {} THEN 0 ELSE rows[Chosen(s)].n + g[s \ {Chosen(s)}]

LEMMA SumsExist ==
  ASSUME NEW D, IsFiniteSet(D), NEW rows
  PROVE  \E f : Sums(rows, f, D)
<1> DEFINE R == {n \in Nat : \E g : g = [s \in Upto(D, n) |-> Unfold(rows, g, s)]}
<1>1. \A s \in SUBSET D : IsFiniteSet(s) /\ Cardinality(s) \in Nat
  BY FS_Subset, FS_CardinalityType
<1>2. ASSUME NEW n \in Nat, NEW s \in SUBSET D, Cardinality(s) <= n + 1, s # {}
      PROVE  s \ {Chosen(s)} \in Upto(D, n)
  <2>1. IsFiniteSet(s) /\ Cardinality(s) \in Nat /\ Chosen(s) \in s
    BY <1>1, <1>2 DEF Chosen
  <2>2. Cardinality(s \ {Chosen(s)}) = Cardinality(s) - 1
    BY <2>1, FS_RemoveElement
  <2>3. Cardinality(s \ {Chosen(s)}) <= n
    BY <1>2, <2>1, <2>2
  <2> QED
    BY <2>3 DEF Upto
<1>3. 0 \in R
  <2> DEFINE g == [s \in Upto(D, 0) |-> 0]
  <2>1. \A s \in Upto(D, 0) : s = {}
    BY <1>1, FS_EmptySet DEF Upto
  <2>2. g = [s \in Upto(D, 0) |-> Unfold(rows, g, s)]
    BY <2>1 DEF Unfold
  <2> QED
    BY <2>2
<1>4. ASSUME NEW n \in R PROVE n + 1 \in R
  <2>1. n \in Nat
    OBVIOUS
  <2>2. PICK g : g = [s \in Upto(D, n) |-> Unfold(rows, g, s)]
    OBVIOUS
  <2> DEFINE h == [s \in Upto(D, n + 1) |-> Unfold(rows, g, s)]
  <2>3. ASSUME NEW s \in Upto(D, n + 1) PROVE h[s] = Unfold(rows, h, s)
    <3>1. CASE s = {}
      BY <3>1 DEF Unfold
    <3>2. CASE s # {}
      <4> DEFINE t == s \ {Chosen(s)}
      <4>1. t \in Upto(D, n)
        BY <1>2, <2>1, <3>2 DEF Upto
      <4>2. t \in Upto(D, n + 1)
        BY <1>1, <2>1, <4>1 DEF Upto
      <4> HIDE DEF t
      <4>3. h[t] = Unfold(rows, g, t) /\ g[t] = Unfold(rows, g, t)
        BY <2>2, <4>1, <4>2, Zenon
      <4>4. h[t] = g[t]
        BY <4>3
      <4>5. h[s] = Unfold(rows, g, s)
        OBVIOUS
      <4> HIDE DEF h
      <4> QED
        BY <3>2, <4>4, <4>5 DEF Unfold, t
    <3> QED
      BY <3>1, <3>2
  <2>4. h = [s \in Upto(D, n + 1) |-> h[s]]
    OBVIOUS
  <2>5. h = [s \in Upto(D, n + 1) |-> Unfold(rows, h, s)]
    <3> HIDE DEF h
    <3> QED
      BY <2>3, <2>4, Zenon
  <2>6. n + 1 \in Nat
    BY <2>1
  <2> HIDE DEF h
  <2> QED
    BY <2>5, <2>6
<1>5. R = Nat
  <2>1. R \in SUBSET Nat
    OBVIOUS
  <2> HIDE DEF R
  <2> QED
    BY <1>3, <1>4, <2>1, NumberInduction
<1>6. Cardinality(D) \in Nat /\ Upto(D, Cardinality(D)) = SUBSET D
  <2>1. \A s \in SUBSET D : Cardinality(s) <= Cardinality(D)
    BY FS_Subset
  <2> QED
    BY <1>1, <2>1 DEF Upto
<1>7. PICK g : g = [s \in Upto(D, Cardinality(D)) |-> Unfold(rows, g, s)]
  BY <1>5, <1>6
<1>8. g = [s \in SUBSET D |-> Unfold(rows, g, s)]
  BY <1>6, <1>7
<1> QED
  BY <1>8 DEF Sums, Unfold

(* So the sum over D is that of a function on its subsets. *)
LEMMA SumByRecursion ==
  ASSUME NEW D, IsFiniteSet(D), NEW rows
  PROVE  \E f : Sums(rows, f, D) /\ SumOf(rows, D) = f[D]
<1> DEFINE f == CHOOSE g : Sums(rows, g, D)
<1>1. Sums(rows, f, D)
  BY SumsExist, Zenon
<1>2. SumOf(rows, D) = f[D]
  BY SumIsSums, Zenon
<1> QED
  BY <1>1, <1>2, Zenon

LEMMA SumStep ==
  ASSUME NEW D, NEW rows, NEW f, Sums(rows, f, D)
  PROVE  /\ f[{}] = 0
         /\ \A s \in SUBSET D :
              s # {} => /\ Chosen(s) \in s /\ Chosen(s) \in D
                        /\ s \ {Chosen(s)} \in SUBSET D
                        /\ f[s] = rows[Chosen(s)].n + f[s \ {Chosen(s)}]
<1>1. \A s \in SUBSET D : f[s] = IF s = {} THEN 0
                                ELSE rows[Chosen(s)].n + f[s \ {Chosen(s)}]
  BY Zenon DEF Sums
<1>2. \A s \in SUBSET D : s # {} => Chosen(s) \in s
  BY DEF Chosen
<1> QED
  BY <1>1, <1>2

(* Counts are natural numbers, and none is more than the sum. *)
LEMMA SumBounds ==
  ASSUME NEW D, IsFiniteSet(D), NEW rows, \A d \in D : rows[d].n \in Nat
  PROVE  /\ SumOf(rows, D) \in Nat
         /\ \A d \in D : rows[d].n <= SumOf(rows, D)
         /\ (\A d \in D : rows[d].n = 0) => SumOf(rows, D) = 0
<1>1. PICK f : Sums(rows, f, D) /\ SumOf(rows, D) = f[D]
  BY SumByRecursion
<1> DEFINE R == {s \in SUBSET D : /\ f[s] \in Nat
                                  /\ \A d \in s : rows[d].n <= f[s]
                                  /\ (\A d \in s : rows[d].n = 0) => f[s] = 0}
<1>2. {} \in R
  BY <1>1, SumStep
<1>3. ASSUME NEW s \in SUBSET D, s # {}, s \ {Chosen(s)} \in R PROVE s \in R
  <2> DEFINE t == s \ {Chosen(s)}
  <2>1. Chosen(s) \in s /\ rows[Chosen(s)].n \in Nat /\ f[s] = rows[Chosen(s)].n + f[t]
    BY <1>1, <1>3, SumStep
  <2>2. /\ f[t] \in Nat /\ \A d \in t : rows[d].n <= f[t]
        /\ (\A d \in t : rows[d].n = 0) => f[t] = 0
    BY <1>3
  <2>3. \A d \in s : d = Chosen(s) \/ d \in t
    OBVIOUS
  <2>4. \A d \in t : d \in s
    OBVIOUS
  <2>5. \A d \in s : rows[d].n \in Nat
    OBVIOUS
  <2> HIDE DEF t
  <2> QED
    BY <2>1, <2>2, <2>3, <2>4, <2>5
<1>4. R = SUBSET D
  <2>1. R \in SUBSET (SUBSET D)
    OBVIOUS
  <2> HIDE DEF R
  <2> QED
    BY <1>2, <1>3, <2>1, SubsetInduction
<1>5. D \in R
  BY <1>4
<1> QED
  BY <1>1, <1>5

(* One row changes: so does the sum, by as much. *)
LEMMA SumChange ==
  ASSUME NEW D, IsFiniteSet(D), NEW rows, NEW new, NEW x \in D,
         \A d \in D : rows[d].n \in Nat /\ new[d].n \in Nat,
         \A d \in D : d # x => new[d].n = rows[d].n
  PROVE  SumOf(new, D) = SumOf(rows, D) - rows[x].n + new[x].n
<1>1. PICK f : Sums(rows, f, D) /\ SumOf(rows, D) = f[D]
  BY SumByRecursion
<1>2. PICK g : Sums(new, g, D) /\ SumOf(new, D) = g[D]
  BY SumByRecursion
<1> DEFINE more(s) == IF x \in s THEN new[x].n - rows[x].n ELSE 0
           R == {s \in SUBSET D : f[s] \in Nat /\ g[s] \in Nat /\ g[s] = f[s] + more(s)}
<1>3. {} \in R
  BY <1>1, <1>2, SumStep
<1>4. ASSUME NEW s \in SUBSET D, s # {}, s \ {Chosen(s)} \in R PROVE s \in R
  <2> DEFINE c == Chosen(s)
             t == s \ {c}
  <2>1. /\ c \in s /\ c \in D
        /\ f[s] = rows[c].n + f[t] /\ g[s] = new[c].n + g[t]
    <3>1. s \in SUBSET D /\ s # {}
      BY <1>4
    <3>2. \A u \in SUBSET D :
            u # {} => /\ Chosen(u) \in u /\ Chosen(u) \in D
                      /\ f[u] = rows[Chosen(u)].n + f[u \ {Chosen(u)}]
      BY <1>1, SumStep, Zenon
    <3>3. \A u \in SUBSET D : u # {} => g[u] = new[Chosen(u)].n + g[u \ {Chosen(u)}]
      BY <1>2, SumStep, Zenon
    <3> QED
      BY <3>1, <3>2, <3>3
  <2>2. f[t] \in Nat /\ g[t] \in Nat /\ g[t] = f[t] + more(t)
    BY <1>4
  <2>3. rows[c].n \in Nat /\ new[c].n \in Nat /\ rows[x].n \in Nat /\ new[x].n \in Nat
    BY <2>1
  <2>4. CASE c = x
    <3>1. more(t) = 0 /\ more(s) = new[x].n - rows[x].n
      BY <2>1, <2>4
    <3> HIDE DEF more, c, t
    <3> QED
      BY <2>1, <2>2, <2>3, <2>4, <3>1
  <2>5. CASE c # x
    <3>1. more(t) = more(s) /\ new[c].n = rows[c].n
      BY <2>1, <2>5
    <3>2. more(s) \in Int
      BY <2>3
    <3> HIDE DEF more, c, t
    <3> QED
      BY <2>1, <2>2, <2>3, <3>1, <3>2
  <2> QED
    BY <2>4, <2>5
<1>5. R = SUBSET D
  <2>1. R \in SUBSET (SUBSET D)
    OBVIOUS
  <2> HIDE DEF R
  <2> QED
    BY <1>3, <1>4, <2>1, SubsetInduction
<1>6. D \in R
  BY <1>5
<1>7. f[D] \in Nat /\ g[D] = f[D] + (new[x].n - rows[x].n)
  BY <1>6
<1> QED
  BY <1>1, <1>2, <1>7


-------------------------------------------------------------------------------
(* While requests take turns (~overlapped), what the actor at work knows of *)
(* the three stores.                                                       *)

(* Its session holds the rows as they are. *)
Reading == {"dropChunks", "deleteRow", "reset", "claim", "finalize"}

Ingesting == {"parse", "upsert", "finish", "finalize"}

(* Where documents wait for their ingest. *)
Queueing == {"dropColl", "makeColl", "queue", "claim"} \cup Ingesting

(* Gone documents count nothing, and the KB counts what is left. *)
Tallied ==
  /\ \A d \in Docs : ~Live(d) => docs[d].n = 0
  /\ KBLive => kb.count = SumOf(docs, Docs)

(* A document waits for its ingest with no chunks counted. *)
Books(a) ==
  LET p == actors[a]
  IN /\ p.pc \in Reading => p.docs = docs /\ p.count = kb.count
     /\ p.prev = 0 /\ \A d \in p.queue : docs[d].n = 0
     /\ p.pc \in Ingesting \cup {"claim"} => p.doc \in p.queue
     /\ p.queue # {} => p.pc \in Queueing

(* The points document d has while a is at work. *)
Expected(a, d) ==
  LET p == actors[a]
  IN IF p.pc = "purgeRow" \/ (p.pc = "deleteRow" /\ d = p.doc) THEN {}
     ELSE IF p.pc \in {"finish", "finalize"} /\ d = p.doc THEN 1..p.new
     ELSE IF docs[d].st = "done" THEN 1..docs[d].n ELSE {}

NeedsKB == {"mkcoll", "save", "insert", "dropChunks", "deleteRow", "reset",
            "dropColl", "makeColl", "purgeRow"}

(* The stores where nothing has failed. *)
Stores(a) ==
  LET p == actors[a]
  IN /\ p.pc # "undo"
     /\ p.pc \in NeedsKB => KBLive
     /\ coll <=> KBLive /\ p.pc \notin {"mkcoll", "makeColl", "purgeRow"}
     /\ \A d \in files : \/ Live(d) \/ p.pc = "purgeFiles"
                         \/ p.pc \in {"insert", "unlink"} /\ d = p.doc
     /\ p.pc # "dropColl" => \A d \in Docs : Points(d) = Expected(a, d)
     /\ p.pc \in {"dropColl", "makeColl"} => \A d \in Docs : docs[d].st # "done"
     /\ \A d \in p.queue :
          docs[d].st = IF p.pc \in Ingesting /\ d = p.doc THEN "ingesting" ELSE "pending"

Turn(a) == Tallied /\ Books(a) /\ (faults = 0 => Stores(a))

Rested == \A a \in Actors : At(a, "idle") => actors[a] = Idle

(* The stores at rest. *)
Agree ==
  /\ coll <=> KBLive
  /\ \A d \in files : Live(d)
  /\ \A d \in Docs : Points(d) = IF docs[d].st = "done" THEN 1..docs[d].n ELSE {}

LEMMA IdleFields ==
  /\ Idle.pc = "idle" /\ Idle.doc = "none" /\ Idle.queue = {}
  /\ Idle.new = 0 /\ Idle.prev = 0
BY DEF Idle

LEMMA EndFields ==
  ASSUME IInv, NEW a \in Actors, End(a)
  PROVE  actors'[a] = Idle
BY DEF End, IInv, Types

LEMMA GotoFields ==
  ASSUME IInv, NEW a \in Actors, NEW pc, Goto(a, pc)
  PROVE  LET p == actors[a]
             q == actors'[a]
         IN /\ q.pc = pc /\ q.doc = p.doc /\ q.queue = p.queue /\ q.cfg = p.cfg
            /\ q.new = p.new /\ q.prev = p.prev /\ q.docs = p.docs /\ q.count = p.count
<1>1. actors'[a] = [actors[a] EXCEPT !.pc = pc] /\ actors[a] \in Actor
  BY DEF Goto, IInv, Types
<1> QED
  BY <1>1 DEF Actor

LEMMA WithoutFields ==
  ASSUME IInv, NEW a \in Actors, NEW d, Without(a, d)
  PROVE  LET q == actors'[a]
         IN /\ q.pc = "queue" /\ q.doc = "none" /\ q.queue = actors[a].queue \ {d}
            /\ q.new = 0 /\ q.prev = 0
<1>1. actors'[a] = [Idle EXCEPT !.pc = "queue", !.cfg = actors[a].cfg,
                                !.queue = actors[a].queue \ {d}]
  BY DEF Without, IInv, Types
<1> QED
  BY <1>1 DEF Idle

LEMMA LoadFields ==
  ASSUME IInv, NEW a \in Actors, NEW rec \in Actor, Load(a, rec)
  PROVE  LET q == actors'[a]
         IN /\ q.pc = rec.pc /\ q.doc = rec.doc /\ q.queue = rec.queue
            /\ q.new = rec.new /\ q.prev = rec.prev /\ q.docs = docs /\ q.count = kb.count
<1>1. actors'[a] = [rec EXCEPT !.docs = docs, !.count = kb.count]
  BY DEF Load, IInv, Types
<1> QED
  BY <1>1 DEF Actor

LEMMA RowsTyped ==
  ASSUME IInv
  PROVE  /\ kb.count \in Int /\ coll \in BOOLEAN
         /\ \A d \in Docs : docs[d].n \in Nat /\ docs[d].st \in {"none", "gone"} \cup LiveStatus
         /\ \A d \in Docs : Live(d) => KBLive
         /\ files \subseteq Docs
BY DEF IInv, Types, Row, KBRow, DocHasKBAndFile

LEMMA TallySame ==
  ASSUME Tallied, UNCHANGED <<kb, docs>>
  PROVE  Tallied'
BY DEF Tallied, Live, KBLive

LEMMA TallyRemoved ==
  ASSUME IInv, Tallied, RemoveKB
  PROVE  Tallied' /\ ~KBLive' /\ \A d \in Docs : ~Live(d)'
<1>1. kb'.st = "gone"
  BY DEF RemoveKB, IInv, Types, KBRow
<1>2. \A d \in Docs : docs'[d] = IF Live(d) THEN [st |-> "gone", n |-> 0] ELSE docs[d]
  BY DEF RemoveKB
<1>3. \A d \in Docs : docs'[d].n = 0 /\ docs'[d].st \notin LiveStatus
  BY <1>2 DEF Tallied, Live, LiveStatus
<1> QED
  BY <1>1, <1>3 DEF Tallied, KBLive, Live

(* One row changes, and the count of the KB with it. *)
LEMMA TallyChanged ==
  ASSUME IInv, IInv', Tallied, NEW x \in Docs,
         \A d \in Docs : d # x => docs'[d] = docs[d],
         ~Live(x)' => docs'[x].n = 0,
         KBLive' => KBLive /\ kb'.count = kb.count - docs[x].n + docs'[x].n
  PROVE  Tallied'
<1>1. /\ \A d \in Docs : docs[d].n \in Nat /\ docs'[d].n \in Nat
      /\ \A d \in Docs : d # x => docs'[d].n = docs[d].n
  BY RowsTyped DEF IInv, Types, Row
<1>2. SumOf(docs', Docs) = SumOf(docs, Docs) - docs[x].n + docs'[x].n
  BY <1>1, KBAssumption, SumChange
<1>3. \A d \in Docs : ~Live(d)' => docs'[d].n = 0
  BY DEF Tallied, Live
<1>4. KBLive' => kb'.count = SumOf(docs', Docs)
  BY <1>2 DEF Tallied
<1>5. KBLive' => kb'.count = SumOf(docs, Docs)'
  BY <1>4, Zenon
<1> QED
  BY <1>3, <1>5, Zenon DEF Tallied

(* No row counts anything. *)
LEMMA TallyZero ==
  ASSUME \A d \in Docs : docs'[d].n = 0, KBLive' => kb'.count = 0
  PROVE  Tallied'
<1>1. SumOf(docs', Docs) = 0
  BY KBAssumption, SumBounds
<1>2. SumOf(docs, Docs)' = 0
  BY <1>1, Zenon
<1> QED
  BY <1>2 DEF Tallied

LEMMA EndBooks ==
  ASSUME IInv, NEW a \in Actors, End(a)
  PROVE  Books(a)'
BY EndFields, IdleFields DEF Books, Reading, Ingesting

(* What an idle actor says of the stores. *)
LEMMA IdleStores ==
  ASSUME NEW a \in Actors, actors[a] = Idle
  PROVE  Stores(a) <=> Agree
<1>1. \A d \in Docs : Expected(a, d) = IF docs[d].st = "done" THEN 1..docs[d].n ELSE {}
  BY IdleFields DEF Expected
<1> QED
  BY <1>1, IdleFields DEF Stores, Agree, NeedsKB

LEMMA EndTurn ==
  ASSUME IInv, NEW a \in Actors, End(a), Tallied', faults' = 0 => Agree'
  PROVE  Turn(a)'
<1>1. actors'[a] = Idle
  BY EndFields
<1>2. \A d \in Docs : Expected(a, d)' = IF docs'[d].st = "done" THEN 1..docs'[d].n ELSE {}
  BY <1>1, IdleFields DEF Expected
<1>3. Agree' => Stores(a)'
  BY <1>1, <1>2, IdleFields DEF Stores, Agree, NeedsKB
<1> QED
  BY <1>3, EndBooks DEF Turn

LEMMA SamePoints ==
  ASSUME UNCHANGED vec
  PROVE  \A d \in Docs : Points(d)' = Points(d)
BY DEF Points

LEMMA NoPointsLeft ==
  ASSUME NEW d \in Docs, vec[d] = NoPoints
  PROVE  Points(d) = {}
BY DEF Points, NoPoints


(* A step that moves the program counter from where a reads no session. *)
LEMMA GotoBooks ==
  ASSUME IInv, NEW a \in Actors, NEW pc, Goto(a, pc), Books(a), UNCHANGED docs,
         pc \in Reading => actors[a].pc \in Reading /\ UNCHANGED kb,
         pc \in Ingesting \cup {"claim"} => actors[a].pc \in Ingesting \cup {"claim"},
         actors[a].pc \in Queueing => pc \in Queueing
  PROVE  Books(a)'
BY GotoFields DEF Books

LEMMA CreateTurn ==
  ASSUME IInv, NEW a \in Actors, Turn(a), Rested,
         CreateKB(a) \/ CreateCollection(a) \/ UndoCreate(a)
  PROVE  Turn(a)'
<1>1. CASE CreateKB(a)
  <2>1. /\ At(a, "idle") /\ kb.st = "none" /\ kb' = [st |-> "live", count |-> 0]
        /\ Goto(a, "mkcoll") /\ UNCHANGED <<docs, coll, vec, files, faults>>
        /\ actors[a] = Idle
    BY <1>1 DEF CreateKB, Rested
  <2>2. \A d \in Docs : ~Live(d) /\ docs[d].n = 0
    BY <2>1 DEF IInv, DocHasKBAndFile, KBLive, Turn, Tallied
  <2>3. Tallied'
    BY <2>1, <2>2, TallyZero
  <2>4. Books(a)'
    BY <2>1, GotoBooks DEF Turn, At, Reading, Ingesting, Queueing
  <2>5. ASSUME faults' = 0 PROVE Stores(a)'
    <3>1. Agree /\ ~KBLive /\ KBLive'
      BY <2>1, <2>5, IdleStores DEF Turn, KBLive
    <3>2. actors'[a].pc = "mkcoll" /\ actors'[a].queue = {}
      BY <2>1, GotoFields, IdleFields
    <3>3. \A d \in Docs : Points(d)' = Expected(a, d)'
      BY <2>1, <3>1, <3>2, SamePoints DEF Agree, Expected
    <3> QED
      BY <2>1, <3>1, <3>2, <3>3 DEF Stores, Agree, NeedsKB, Live
  <2> QED
    BY <2>3, <2>4, <2>5 DEF Turn
<1>2. CASE CreateCollection(a)
  <2>1. /\ At(a, "mkcoll") /\ UNCHANGED <<kb, docs, vec, files>>
        /\ \/ Works /\ coll' = TRUE /\ End(a)
           \/ Fails /\ Goto(a, "undo")
    BY <1>2 DEF CreateCollection
  <2>2. Tallied'
    BY <2>1, TallySame DEF Turn
  <2>3. CASE Works /\ coll' = TRUE /\ End(a)
    <3>1. ASSUME faults' = 0 PROVE Agree'
      <4>1. Stores(a)
        BY <2>3, <3>1 DEF Turn, Works
      <4>2. \A d \in Docs : Points(d)' = IF docs'[d].st = "done" THEN 1..docs'[d].n ELSE {}
        BY <2>1, <4>1, SamePoints DEF Stores, At, Expected
      <4> QED
        BY <2>1, <2>3, <4>1, <4>2 DEF Stores, Agree, NeedsKB, At, KBLive, Live
    <3> QED
      BY <2>2, <2>3, <3>1, EndTurn
  <2>4. CASE Fails /\ Goto(a, "undo")
    <3>1. Books(a)'
      BY <2>1, <2>4, GotoBooks DEF Turn, At, Reading, Ingesting, Queueing
    <3>2. faults' # 0
      BY <2>4, KBAssumption DEF Fails, IInv, Types
    <3> QED
      BY <2>2, <3>1, <3>2 DEF Turn
  <2> QED
    BY <2>1, <2>3, <2>4
<1>3. CASE UndoCreate(a)
  <2>1. At(a, "undo") /\ RemoveKB /\ End(a) /\ UNCHANGED faults
    BY <1>3 DEF UndoCreate
  <2>2. faults # 0
    BY <2>1 DEF Turn, Stores, At
  <2> QED
    BY <2>1, <2>2, TallyRemoved, EndTurn DEF Turn
<1> QED
  BY <1>1, <1>2, <1>3

(* POST /documents. *)
LEMMA UploadTurn ==
  ASSUME IInv, NEW a \in Actors, Turn(a), Rested, NEW d \in Docs, Upload(a, d)
  PROVE  Turn(a)'
<1>1. /\ At(a, "idle") /\ KBLive /\ actors[a] = Idle
      /\ \E pc \in {"save", "insert"} :
           actors' = [actors EXCEPT ![a] = [Idle EXCEPT !.doc = d, !.pc = pc]]
      /\ UNCHANGED <<kb, docs, coll, vec, files, faults>>
  BY DEF Upload, Rested
<1>2. /\ actors'[a].pc \in {"save", "insert"} /\ actors'[a].doc = d
      /\ actors'[a].queue = {} /\ actors'[a].prev = 0
  BY <1>1 DEF Idle, IInv, Types
<1>3. Tallied'
  BY <1>1, TallySame DEF Turn
<1>4. Books(a)'
  BY <1>2 DEF Books, Reading, Ingesting
<1>5. ASSUME faults' = 0 PROVE Stores(a)'
  <2>1. Agree
    BY <1>1, <1>5, IdleStores DEF Turn
  <2>2. \A e \in Docs : Points(e)' = Expected(a, e)'
    BY <1>1, <1>2, <2>1, SamePoints DEF Agree, Expected
  <2> QED
    BY <1>1, <1>2, <2>1, <2>2 DEF Stores, Agree, NeedsKB, Live, KBLive
<1> QED
  BY <1>3, <1>4, <1>5 DEF Turn

LEMMA SaveTurn ==
  ASSUME IInv, NEW a \in Actors, Turn(a), SaveUpload(a)
  PROVE  Turn(a)'
<1>1. /\ At(a, "save") /\ Goto(a, "insert") /\ files' = files \cup {actors[a].doc}
      /\ UNCHANGED <<kb, docs, coll, vec, faults>>
  BY DEF SaveUpload
<1>2. /\ actors'[a].pc = "insert" /\ actors'[a].doc = actors[a].doc
      /\ actors'[a].queue = actors[a].queue
  BY <1>1, GotoFields
<1>3. Tallied'
  BY <1>1, TallySame DEF Turn
<1>4. Books(a)'
  BY <1>1, GotoBooks DEF Turn, At, Reading, Ingesting, Queueing
<1>5. ASSUME faults' = 0 PROVE Stores(a)'
  <2>1. Stores(a)
    BY <1>1, <1>5 DEF Turn
  <2>2. \A e \in Docs : Points(e)' = Expected(a, e)'
    BY <1>1, <1>2, <2>1, SamePoints DEF Stores, At, Expected
  <2>3. \A e \in files' : Live(e)' \/ e = actors'[a].doc
    BY <1>1, <1>2, <2>1 DEF Stores, At, Live
  <2> QED
    BY <1>1, <1>2, <2>1, <2>2, <2>3 DEF Stores, At, NeedsKB, Ingesting, KBLive
<1> QED
  BY <1>3, <1>4, <1>5 DEF Turn

LEMMA InsertTurn ==
  ASSUME IInv, IInv', NEW a \in Actors, Turn(a), InsertDoc(a)
  PROVE  Turn(a)'
<1> DEFINE d == actors[a].doc
           queued(cfg) == [Idle EXCEPT !.pc = "queue", !.queue = {d}, !.cfg = cfg]
<1>1. d \in Docs /\ docs[d].st = "none" /\ At(a, "insert")
  BY DEF InsertDoc, IInv, Types, Fit, Held, At, Uploading, Holding
<1>0. \/ ~KBLive /\ End(a) /\ UNCHANGED docs
      \/ /\ KBLive /\ docs' = [docs EXCEPT ![d] = [st |-> "pending", n |-> 0]]
         /\ \/ End(a)
            \/ \E cfg \in Spaces : actors' = [actors EXCEPT ![a] = queued(cfg)]
  BY DEF InsertDoc, Spaces
<1>2. UNCHANGED <<kb, coll, vec, files, faults>>
  BY DEF InsertDoc
<1>3. CASE ~KBLive /\ End(a) /\ UNCHANGED docs
  <2>1. Tallied'
    BY <1>2, <1>3, TallySame DEF Turn
  <2>2. faults' # 0
    BY <1>1, <1>2, <1>3 DEF Turn, Stores, At, NeedsKB
  <2> QED
    BY <1>3, <2>1, <2>2, EndTurn
<1>4. CASE /\ KBLive /\ docs' = [docs EXCEPT ![d] = [st |-> "pending", n |-> 0]]
           /\ \/ End(a)
              \/ \E cfg \in Spaces : actors' = [actors EXCEPT ![a] = queued(cfg)]
  <2>1. /\ docs'[d].st = "pending" /\ docs'[d].n = 0
        /\ \A e \in Docs : e # d => docs'[e] = docs[e]
    BY <1>1, <1>4 DEF IInv, Types
  <2>2. docs[d].n = 0 /\ ~Live(d)
    BY <1>1 DEF Turn, Tallied, Live, LiveStatus
  <2>3. Tallied'
    <3>1. kb'.count = kb.count /\ kb.count \in Int
      BY <1>2, RowsTyped
    <3>2. kb'.count = kb.count - docs[d].n + docs'[d].n
      BY <2>1, <2>2, <3>1
    <3> QED
      BY <1>1, <1>4, <2>1, <3>2, TallyChanged DEF Turn
  <2>4. ASSUME faults' = 0
        PROVE  /\ coll' <=> KBLive'
               /\ \A e \in files' : Live(e)'
               /\ \A e \in Docs :
                    Points(e)' = IF docs'[e].st = "done" THEN 1..docs'[e].n ELSE {}
    <3>1. Stores(a)
      BY <1>2, <2>4 DEF Turn
    <3>2. \A e \in files' : Live(e)'
      BY <1>1, <1>2, <2>1, <3>1, RowsTyped DEF Stores, At, Live, LiveStatus
    <3>3. \A e \in Docs : Points(e)' = IF docs[e].st = "done" THEN 1..docs[e].n ELSE {}
      BY <1>1, <1>2, <3>1, SamePoints DEF Stores, At, Expected
    <3> QED
      BY <1>1, <1>2, <1>4, <2>1, <3>1, <3>2, <3>3 DEF Stores, At, KBLive
  <2>5. CASE End(a)
    BY <2>3, <2>4, <2>5, EndTurn DEF Agree
  <2>6. ASSUME NEW cfg \in Spaces, actors' = [actors EXCEPT ![a] = queued(cfg)]
        PROVE  Turn(a)'
    <3>1. /\ actors'[a].pc = "queue" /\ actors'[a].doc = "none"
          /\ actors'[a].queue = {d} /\ actors'[a].prev = 0
      BY <2>6 DEF Idle, IInv, Types
    <3>2. Books(a)'
      BY <2>1, <3>1 DEF Books, Reading, Ingesting, Queueing
    <3>3. ASSUME faults' = 0 PROVE Stores(a)'
      <4>1. \A e \in Docs : Points(e)' = Expected(a, e)'
        BY <2>4, <3>1, <3>3 DEF Expected
      <4> QED
        BY <2>1, <2>4, <3>1, <3>3, <4>1 DEF Stores, NeedsKB, Ingesting
    <3> QED
      BY <2>3, <3>2, <3>3 DEF Turn
  <2> QED
    BY <1>4, <2>5, <2>6
<1> QED
  BY <1>0, <1>3, <1>4


(* DELETE /documents/{id}. *)
LEMMA DeleteDocTurn ==
  ASSUME IInv, NEW a \in Actors, Turn(a), Rested, NEW d \in Docs, DeleteDoc(a, d)
  PROVE  Turn(a)'
<1> DEFINE rec == [Idle EXCEPT !.pc = "dropChunks", !.doc = d]
<1>1. /\ At(a, "idle") /\ KBLive /\ actors[a] = Idle /\ Load(a, rec)
      /\ UNCHANGED <<kb, docs, coll, vec, files, faults>>
  BY DEF DeleteDoc, Rested
<1>2. rec \in Actor
  BY IdleType DEF Actor, Pcs, Holding
<1>3. /\ rec.pc = "dropChunks" /\ rec.doc = d /\ rec.queue = {} /\ rec.prev = 0
  BY DEF Idle
<1> HIDE DEF rec
<1>4. /\ actors'[a].pc = "dropChunks" /\ actors'[a].doc = d /\ actors'[a].queue = {}
      /\ actors'[a].prev = 0 /\ actors'[a].docs = docs /\ actors'[a].count = kb.count
  BY <1>1, <1>2, <1>3, LoadFields
<1>5. Tallied'
  BY <1>1, TallySame DEF Turn
<1>6. Books(a)'
  BY <1>1, <1>4 DEF Books, Ingesting
<1>7. ASSUME faults' = 0 PROVE Stores(a)'
  <2>1. Agree
    BY <1>1, <1>7, IdleStores DEF Turn
  <2>2. \A e \in Docs : Points(e)' = Expected(a, e)'
    BY <1>1, <1>4, <2>1, SamePoints DEF Agree, Expected
  <2> QED
    BY <1>1, <1>4, <2>1, <2>2 DEF Stores, Agree, NeedsKB, Live, KBLive
<1> QED
  BY <1>5, <1>6, <1>7 DEF Turn

LEMMA DropChunksTurn ==
  ASSUME IInv, NEW a \in Actors, Turn(a), DropChunks(a)
  PROVE  Turn(a)'
<1> DEFINE d == actors[a].doc
<1>1. /\ At(a, "dropChunks") /\ Goto(a, "deleteRow") /\ UNCHANGED <<kb, docs, coll, files>>
      /\ \/ Works /\ vec' = [vec EXCEPT ![d] = NoPoints]
         \/ Fails
  BY DEF DropChunks
<1>2. d \in Docs
  BY <1>1, Seen DEF At, Holding
<1>3. Tallied'
  BY <1>1, TallySame DEF Turn
<1>4. Books(a)'
  BY <1>1, GotoBooks DEF Turn, At, Reading, Ingesting, Queueing
<1>5. ASSUME faults' = 0 PROVE Stores(a)'
  <2>1. Works /\ vec' = [vec EXCEPT ![d] = NoPoints]
    BY <1>1, <1>5, KBAssumption DEF Fails, IInv, Types
  <2>2. Stores(a)
    BY <1>5, <2>1 DEF Turn, Works
  <2>3. /\ actors'[a].pc = "deleteRow" /\ actors'[a].doc = d
        /\ actors'[a].queue = actors[a].queue
    BY <1>1, GotoFields
  <2>4. vec'[d] = NoPoints /\ \A e \in Docs : e # d => vec'[e] = vec[e]
    BY <1>2, <2>1 DEF IInv, Types
  <2>5. \A e \in Docs : Points(e)' = Expected(a, e)'
    <3>1. Points(d)' = {}
      BY <2>3, <2>4 DEF Points, NoPoints
    <3>2. \A e \in Docs : e # d => Points(e)' = Points(e)
      BY <2>4 DEF Points
    <3>3. \A e \in Docs : e # d => Points(e) = IF docs[e].st = "done" THEN 1..docs[e].n ELSE {}
      BY <1>1, <2>2 DEF Stores, At, Expected
    <3> QED
      BY <1>1, <2>3, <3>1, <3>2, <3>3 DEF Expected
  <2> QED
    BY <1>1, <2>2, <2>3, <2>5 DEF Stores, At, NeedsKB, Live, KBLive, Ingesting
<1> QED
  BY <1>3, <1>4, <1>5 DEF Turn

LEMMA DeleteRowTurn ==
  ASSUME IInv, IInv', NEW a \in Actors, Turn(a), DeleteRow(a)
  PROVE  Turn(a)'
<1> DEFINE d == actors[a].doc
           n == actors[a].docs[d].n
           count == IF n = 0 THEN actors[a].count
                    ELSE IF actors[a].count > n THEN actors[a].count - n ELSE 0
<1>1. At(a, "deleteRow") /\ UNCHANGED <<coll, vec, files, faults>>
  BY DEF DeleteRow
<1>2. d \in Docs
  BY <1>1, Seen DEF At, Holding
<1>3. n = docs[d].n /\ actors[a].count = kb.count
  BY <1>1 DEF Turn, Books, Reading, At
<1>4. \/ StaleKB(a, count) /\ End(a) /\ UNCHANGED <<kb, docs>>
      \/ /\ docs' = [docs EXCEPT ![d] = [st |-> "gone", n |-> 0]]
         /\ SetCount(a, count) /\ Goto(a, "unlink")
  BY Zenon DEF DeleteRow
<1>5. CASE StaleKB(a, count) /\ End(a) /\ UNCHANGED <<kb, docs>>
  <2>1. faults' # 0
    BY <1>1, <1>5 DEF Turn, Stores, At, NeedsKB, StaleKB
  <2> QED
    BY <1>5, <2>1, TallySame, EndTurn DEF Turn
<1>6. CASE /\ docs' = [docs EXCEPT ![d] = [st |-> "gone", n |-> 0]]
           /\ SetCount(a, count) /\ Goto(a, "unlink")
  <2>1. /\ docs'[d].st = "gone" /\ docs'[d].n = 0
        /\ \A e \in Docs : e # d => docs'[e] = docs[e]
    BY <1>2, <1>6 DEF IInv, Types
  <2>2. kb'.st = kb.st /\ kb'.count = count
    BY <1>3, <1>6 DEF SetCount, Written, IInv, Types, KBRow
  <2>3. KBLive => count = kb.count - docs[d].n + 0
    <3>1. docs[d].n \in Nat /\ kb.count \in Int
      BY <1>2, RowsTyped
    <3>2. KBLive => docs[d].n <= kb.count
      <4>1. \A e \in Docs : docs[e].n \in Nat
        BY RowsTyped
      <4>2. docs[d].n <= SumOf(docs, Docs)
        BY <1>2, <4>1, KBAssumption, SumBounds
      <4> QED
        BY <4>2 DEF Turn, Tallied
    <3> QED
      BY <1>3, <3>1, <3>2
  <2>4. Tallied'
    <3>1. KBLive' => KBLive /\ kb'.count = kb.count - docs[d].n + docs'[d].n
      BY <2>1, <2>2, <2>3 DEF KBLive
    <3> HIDE DEF d, n, count
    <3> QED
      BY <1>2, <2>1, <3>1, TallyChanged DEF Turn
  <2>5. /\ actors'[a].pc = "unlink" /\ actors'[a].doc = d
        /\ actors'[a].queue = actors[a].queue /\ actors'[a].prev = actors[a].prev
    BY <1>6, GotoFields
  <2>6. actors[a].queue = {}
    BY <1>1 DEF Turn, Books, At, Queueing, Ingesting
  <2>7. Books(a)'
    BY <2>5, <2>6 DEF Turn, Books, Reading, Ingesting
  <2>8. ASSUME faults' = 0 PROVE Stores(a)'
    <3>1. Stores(a)
      BY <1>1, <2>8 DEF Turn
    <3>2. KBLive /\ KBLive' /\ coll
      BY <1>1, <2>2, <3>1 DEF Stores, At, NeedsKB, KBLive
    <3>3. \A e \in files' : Live(e)' \/ e = d
      BY <1>1, <2>1, <3>1, RowsTyped DEF Stores, At, Live
    <3>4. \A e \in Docs : Points(e)' = Expected(a, e)'
      <4>1. \A e \in Docs : Points(e)' = Expected(a, e)
        BY <1>1, <3>1, SamePoints DEF Stores, At
      <4> QED
        BY <1>1, <2>1, <2>5, <4>1 DEF At, Expected
    <3> QED
      BY <1>1, <2>5, <2>6, <3>2, <3>3, <3>4 DEF Stores
  <2> QED
    BY <2>4, <2>7, <2>8 DEF Turn
<1> QED
  BY <1>4, <1>5, <1>6

LEMMA UnlinkTurn ==
  ASSUME IInv, NEW a \in Actors, Turn(a), Unlink(a)
  PROVE  Turn(a)'
<1>1. /\ At(a, "unlink") /\ files' = files \ {actors[a].doc} /\ End(a)
      /\ UNCHANGED <<kb, docs, coll, vec, faults>>
  BY DEF Unlink
<1>2. ASSUME faults' = 0 PROVE Agree'
  <2>1. Stores(a)
    BY <1>1, <1>2 DEF Turn
  <2>2. \A d \in Docs : Points(d)' = IF docs'[d].st = "done" THEN 1..docs'[d].n ELSE {}
    BY <1>1, <2>1, SamePoints DEF Stores, At, Expected
  <2> QED
    BY <1>1, <2>1, <2>2 DEF Stores, Agree, At, KBLive, Live
<1> QED
  BY <1>1, <1>2, TallySame, EndTurn DEF Turn


(* POST /rebuild. *)
LEMMA StartRebuildTurn ==
  ASSUME IInv, NEW a \in Actors, Turn(a), Rested, Rebuild(a)
  PROVE  Turn(a)'
<1> DEFINE rec == [Idle EXCEPT !.pc = "reset"]
<1>1. /\ At(a, "idle") /\ KBLive /\ actors[a] = Idle /\ Load(a, rec)
      /\ UNCHANGED <<kb, docs, coll, vec, files, faults>>
  BY DEF Rebuild, Rested
<1>2. rec \in Actor
  BY IdleType DEF Actor, Pcs
<1>3. /\ rec.pc = "reset" /\ rec.queue = {} /\ rec.prev = 0
  BY DEF Idle
<1> HIDE DEF rec
<1>4. /\ actors'[a].pc = "reset" /\ actors'[a].queue = {}
      /\ actors'[a].prev = 0 /\ actors'[a].docs = docs /\ actors'[a].count = kb.count
  BY <1>1, <1>2, <1>3, LoadFields
<1>5. Tallied'
  BY <1>1, TallySame DEF Turn
<1>6. Books(a)'
  BY <1>1, <1>4 DEF Books, Ingesting
<1>7. ASSUME faults' = 0 PROVE Stores(a)'
  <2>1. Agree
    BY <1>1, <1>7, IdleStores DEF Turn
  <2>2. \A e \in Docs : Points(e)' = Expected(a, e)'
    BY <1>1, <1>4, <2>1, SamePoints DEF Agree, Expected
  <2> QED
    BY <1>1, <1>4, <2>1, <2>2 DEF Stores, Agree, NeedsKB, Live, KBLive
<1> QED
  BY <1>5, <1>6, <1>7 DEF Turn

LEMMA ResetTurn ==
  ASSUME IInv, IInv', NEW a \in Actors, Turn(a), Reset(a)
  PROVE  Turn(a)'
<1> DEFINE zero == [st |-> "pending", n |-> 0]
           mine == {d \in Docs : actors[a].docs[d].st \in LiveStatus}
           queued(cfg) == [Idle EXCEPT !.pc = "dropColl", !.queue = mine, !.cfg = cfg]
<1>1. At(a, "reset") /\ UNCHANGED <<coll, vec, files, faults>>
  BY DEF Reset
<1>2. actors[a].docs = docs /\ actors[a].count = kb.count
  BY <1>1 DEF Turn, Books, Reading, At
<1>3. mine = {d \in Docs : Live(d)}
  BY <1>2 DEF Live
<1>4. \/ /\ StaleKB(a, 0) \/ \E d \in mine : StaleDoc(a, d, zero)
         /\ End(a) /\ UNCHANGED <<kb, docs>>
      \/ /\ docs' = [d \in Docs |-> IF d \in mine /\ Live(d)
                                    THEN WrittenRow(a, d, zero) ELSE docs[d]]
         /\ SetCount(a, 0)
         /\ \E cfg \in {"user", "none"} : actors' = [actors EXCEPT ![a] = queued(cfg)]
  BY Zenon DEF Reset
<1>5. CASE /\ StaleKB(a, 0) \/ \E d \in mine : StaleDoc(a, d, zero)
           /\ End(a) /\ UNCHANGED <<kb, docs>>
  <2>1. ~KBLive
    BY <1>3, <1>5 DEF StaleKB, StaleDoc
  <2>2. faults' # 0
    BY <1>1, <2>1 DEF Turn, Stores, At, NeedsKB
  <2> QED
    BY <1>5, <2>2, TallySame, EndTurn DEF Turn
<1>6. CASE /\ docs' = [d \in Docs |-> IF d \in mine /\ Live(d)
                                      THEN WrittenRow(a, d, zero) ELSE docs[d]]
           /\ SetCount(a, 0)
           /\ \E cfg \in {"user", "none"} : actors' = [actors EXCEPT ![a] = queued(cfg)]
  <2>1. \A d \in Docs : docs'[d] = IF Live(d) THEN zero ELSE docs[d]
    <3>1. \A d \in Docs : WrittenRow(a, d, zero) = zero
      BY <1>2 DEF WrittenRow, Written
    <3> QED
      BY <1>3, <1>6, <3>1
  <2>2. kb'.st = kb.st /\ kb'.count = 0
    BY <1>2, <1>6 DEF SetCount, Written, IInv, Types, KBRow
  <2>3. \A d \in Docs : /\ docs'[d].n = 0 /\ docs'[d].st # "done"
                        /\ Live(d) => docs'[d].st = "pending"
                        /\ Live(d)' <=> Live(d)
    BY <2>1 DEF Turn, Tallied, Live, LiveStatus
  <2>4. Tallied'
    BY <2>2, <2>3, TallyZero
  <2>5. /\ actors'[a].pc = "dropColl" /\ actors'[a].queue = mine /\ actors'[a].prev = 0
    <3>1. PICK cfg \in {"user", "none"} : actors' = [actors EXCEPT ![a] = queued(cfg)]
      BY <1>6
    <3> HIDE DEF mine
    <3>2. /\ queued(cfg).pc = "dropColl" /\ queued(cfg).queue = mine
          /\ queued(cfg).prev = 0
      BY DEF Idle
    <3> HIDE DEF queued
    <3>3. actors'[a] = queued(cfg)
      BY <3>1 DEF IInv, Types
    <3> QED
      BY <3>2, <3>3
  <2>6. Books(a)'
    BY <2>3, <2>5 DEF Books, Reading, Ingesting, Queueing
  <2>7. ASSUME faults' = 0 PROVE Stores(a)'
    <3>1. Stores(a)
      BY <1>1, <2>7 DEF Turn
    <3>2. KBLive /\ KBLive' /\ coll
      BY <1>1, <2>2, <3>1 DEF Stores, At, NeedsKB, KBLive
    <3>3. \A e \in files' : Live(e)'
      BY <1>1, <2>3, <3>1, RowsTyped DEF Stores, At
    <3>4. \A d \in mine : docs'[d].st = "pending"
      BY <1>3, <2>3
    <3> HIDE DEF mine
    <3> QED
      BY <1>1, <2>3, <2>5, <3>2, <3>3, <3>4 DEF Stores, Ingesting
  <2> QED
    BY <2>4, <2>6, <2>7 DEF Turn
<1> QED
  BY <1>4, <1>5, <1>6

LEMMA RecreateTurn ==
  ASSUME IInv, NEW a \in Actors, Turn(a), DropCollection(a) \/ RecreateCollection(a)
  PROVE  Turn(a)'
<1>1. CASE DropCollection(a)
  <2>1. /\ At(a, "dropColl") /\ UNCHANGED <<kb, docs, files>>
        /\ \/ /\ Works /\ coll' = FALSE /\ vec' = [d \in Docs |-> NoPoints]
              /\ Goto(a, "makeColl")
           \/ Fails /\ End(a)
    BY <1>1 DEF DropCollection
  <2>2. Tallied'
    BY <2>1, TallySame DEF Turn
  <2>3. CASE Fails /\ End(a)
    <3>1. faults' # 0
      BY <2>3, KBAssumption DEF Fails, IInv, Types
    <3> QED
      BY <2>2, <2>3, <3>1, EndTurn
  <2>4. CASE /\ Works /\ coll' = FALSE /\ vec' = [d \in Docs |-> NoPoints]
             /\ Goto(a, "makeColl")
    <3>1. Books(a)'
      BY <2>1, <2>4, GotoBooks DEF Turn, At, Reading, Ingesting, Queueing
    <3>2. ASSUME faults' = 0 PROVE Stores(a)'
      <4>1. Stores(a)
        BY <2>4, <3>2 DEF Turn, Works
      <4>2. actors'[a].pc = "makeColl" /\ actors'[a].queue = actors[a].queue
        BY <2>4, GotoFields
      <4>3. \A d \in Docs : docs[d].st # "done"
        BY <2>1, <4>1 DEF Stores, At
      <4>4. \A d \in Docs : Points(d)' = Expected(a, d)'
        BY <2>1, <2>4, <4>2, <4>3 DEF Points, NoPoints, Expected
      <4> QED
        BY <2>1, <2>4, <4>1, <4>2, <4>3, <4>4
        DEF Stores, At, NeedsKB, KBLive, Live, Ingesting
    <3> QED
      BY <2>2, <3>1, <3>2 DEF Turn
  <2> QED
    BY <2>1, <2>3, <2>4
<1>2. CASE RecreateCollection(a)
  <2>1. /\ At(a, "makeColl") /\ UNCHANGED <<kb, docs, vec, files>>
        /\ \/ Works /\ coll' = TRUE /\ Goto(a, "queue")
           \/ Fails /\ End(a)
    BY <1>2 DEF RecreateCollection
  <2>2. Tallied'
    BY <2>1, TallySame DEF Turn
  <2>3. CASE Fails /\ End(a)
    <3>1. faults' # 0
      BY <2>3, KBAssumption DEF Fails, IInv, Types
    <3> QED
      BY <2>2, <2>3, <3>1, EndTurn
  <2>4. CASE Works /\ coll' = TRUE /\ Goto(a, "queue")
    <3>1. Books(a)'
      BY <2>1, <2>4, GotoBooks DEF Turn, At, Reading, Ingesting, Queueing
    <3>2. ASSUME faults' = 0 PROVE Stores(a)'
      <4>1. Stores(a)
        BY <2>4, <3>2 DEF Turn, Works
      <4>2. actors'[a].pc = "queue" /\ actors'[a].queue = actors[a].queue
        BY <2>4, GotoFields
      <4>3. \A d \in Docs : Points(d)' = Expected(a, d)'
        BY <2>1, <4>1, <4>2, SamePoints DEF Stores, At, Expected
      <4> QED
        BY <2>1, <2>4, <4>1, <4>2, <4>3 DEF Stores, At, NeedsKB, KBLive, Live, Ingesting
    <3> QED
      BY <2>2, <3>1, <3>2 DEF Turn
  <2> QED
    BY <2>1, <2>3, <2>4
<1> QED
  BY <1>1, <1>2

(* purge_kb. *)
LEMMA PurgeTurn ==
  ASSUME IInv, NEW a \in Actors, Turn(a), Rested,
         PurgeCollection(a) \/ PurgeRow(a) \/ PurgeFiles(a)
  PROVE  Turn(a)'
<1>1. CASE PurgeCollection(a)
  <2>1. /\ At(a, "idle") /\ KBLive /\ actors[a] = Idle /\ Goto(a, "purgeRow")
        /\ coll' = FALSE /\ vec' = [d \in Docs |-> NoPoints]
        /\ UNCHANGED <<kb, docs, files, faults>>
    BY <1>1 DEF PurgeCollection, Rested
  <2>2. Tallied'
    BY <2>1, TallySame DEF Turn
  <2>3. Books(a)'
    BY <2>1, GotoBooks DEF Turn, At, Reading, Ingesting, Queueing
  <2>4. ASSUME faults' = 0 PROVE Stores(a)'
    <3>1. Agree
      BY <2>1, <2>4, IdleStores DEF Turn
    <3>2. actors'[a].pc = "purgeRow" /\ actors'[a].queue = {}
      BY <2>1, GotoFields, IdleFields
    <3>3. \A d \in Docs : Points(d)' = Expected(a, d)'
      BY <2>1, <3>2 DEF Points, NoPoints, Expected
    <3> QED
      BY <2>1, <3>1, <3>2, <3>3 DEF Stores, Agree, NeedsKB, KBLive, Live
  <2> QED
    BY <2>2, <2>3, <2>4 DEF Turn
<1>2. CASE PurgeRow(a)
  <2>1. /\ At(a, "purgeRow") /\ RemoveKB /\ Goto(a, "purgeFiles")
        /\ UNCHANGED <<coll, vec, files, faults>>
    BY <1>2 DEF PurgeRow
  <2>2. Tallied' /\ ~KBLive' /\ \A d \in Docs : ~Live(d)'
    BY <2>1, TallyRemoved DEF Turn
  <2>3. /\ actors'[a].pc = "purgeFiles" /\ actors'[a].queue = {} /\ actors'[a].prev = 0
    BY <2>1, GotoFields DEF Turn, Books, At, Queueing, Ingesting
  <2>4. Books(a)'
    BY <2>3 DEF Books, Reading, Ingesting
  <2>5. ASSUME faults' = 0 PROVE Stores(a)'
    <3>1. Stores(a)
      BY <2>1, <2>5 DEF Turn
    <3>2. \A d \in Docs : Points(d)' = {}
      BY <2>1, <3>1, SamePoints DEF Stores, At, Expected
    <3>3. \A d \in Docs : docs'[d].st # "done"
      BY <2>2 DEF Live, LiveStatus
    <3>4. \A d \in Docs : Points(d)' = Expected(a, d)'
      BY <2>3, <3>2, <3>3 DEF Expected
    <3> QED
      BY <2>1, <2>2, <2>3, <3>1, <3>4 DEF Stores, At, NeedsKB
  <2> QED
    BY <2>2, <2>4, <2>5 DEF Turn
<1>3. CASE PurgeFiles(a)
  <2>1. /\ At(a, "purgeFiles") /\ files' = {} /\ End(a)
        /\ UNCHANGED <<kb, docs, coll, vec, faults>>
    BY <1>3 DEF PurgeFiles
  <2>2. ASSUME faults' = 0 PROVE Agree'
    <3>1. Stores(a)
      BY <2>1, <2>2 DEF Turn
    <3>2. \A d \in Docs : Points(d)' = IF docs'[d].st = "done" THEN 1..docs'[d].n ELSE {}
      BY <2>1, <3>1, SamePoints DEF Stores, At, Expected
    <3> QED
      BY <2>1, <3>1, <3>2 DEF Stores, Agree, At, KBLive
  <2> QED
    BY <2>1, <2>2, TallySame, EndTurn DEF Turn
<1> QED
  BY <1>1, <1>2, <1>3


-------------------------------------------------------------------------------
(* The ingest of one document after the other. *)

(* Where no document is in a part of the ingest of its own. *)
LEMMA WithoutBooks ==
  ASSUME IInv, NEW a \in Actors, NEW d, Without(a, d),
         \A e \in actors[a].queue : e # d => docs'[e].n = 0
  PROVE  Books(a)'
BY WithoutFields DEF Books, Reading, Ingesting, Queueing

LEMMA NextDocTurn ==
  ASSUME IInv, NEW a \in Actors, Turn(a), NextDoc(a)
  PROVE  Turn(a)'
<1> DEFINE p == actors[a]
<1>1. /\ At(a, "queue") /\ UNCHANGED <<kb, docs, coll, vec, files, faults>>
      /\ \/ End(a)
         \/ \E d \in p.queue : \/ Load(a, [p EXCEPT !.doc = d, !.pc = "claim"])
                               \/ Without(a, d)
  BY DEF NextDoc
<1>2. Tallied'
  BY <1>1, TallySame DEF Turn
<1>3. ASSUME faults = 0
      PROVE  /\ coll <=> KBLive
             /\ \A d \in files : Live(d)
             /\ \A d \in Docs : Points(d) = IF docs[d].st = "done" THEN 1..docs[d].n ELSE {}
             /\ \A d \in p.queue : docs[d].st = "pending"
  BY <1>1, <1>3 DEF Turn, Stores, At, Expected, Ingesting
<1>4. CASE End(a)
  <2>1. faults' = 0 => Agree'
    BY <1>1, <1>3, SamePoints DEF Agree, KBLive, Live
  <2> QED
    BY <1>2, <1>4, <2>1, EndTurn
<1>5. ASSUME NEW d \in p.queue, Load(a, [p EXCEPT !.doc = d, !.pc = "claim"])
      PROVE  Turn(a)'
  <2> DEFINE rec == [p EXCEPT !.doc = d, !.pc = "claim"]
             q == actors'[a]
  <2>1. p \in Actor /\ d \in Docs
    BY DEF IInv, Types, Actor
  <2>2. /\ rec \in Actor /\ rec.pc = "claim" /\ rec.doc = d
        /\ rec.queue = p.queue /\ rec.prev = p.prev
    BY <2>1 DEF Actor, Pcs, Holding
  <2> HIDE DEF rec
  <2>3. Load(a, rec)
    BY <1>5 DEF rec
  <2>4. /\ q.pc = "claim" /\ q.doc = d /\ q.queue = p.queue /\ q.prev = p.prev
        /\ q.docs = docs /\ q.count = kb.count
    BY <2>2, <2>3, LoadFields
  <2>5. Books(a)'
    BY <1>1, <2>4 DEF Turn, Books, Queueing
  <2>6. ASSUME faults' = 0 PROVE Stores(a)'
    <3>1. \A e \in Docs : Points(e)' = Expected(a, e)'
      BY <1>1, <1>3, <2>4, <2>6, SamePoints DEF Expected
    <3> QED
      BY <1>1, <1>3, <2>4, <2>6, <3>1 DEF Stores, NeedsKB, KBLive, Live, Ingesting
  <2> QED
    BY <1>2, <2>5, <2>6 DEF Turn
<1>6. ASSUME NEW d \in p.queue, Without(a, d) PROVE Turn(a)'
  <2>1. Books(a)'
    BY <1>1, <1>6, WithoutBooks DEF Turn, Books
  <2>2. ASSUME faults' = 0 PROVE Stores(a)'
    <3>1. actors'[a].pc = "queue" /\ actors'[a].queue = p.queue \ {d}
      BY <1>6, WithoutFields
    <3>2. \A e \in Docs : Points(e)' = Expected(a, e)'
      BY <1>1, <1>3, <2>2, <3>1, SamePoints DEF Expected
    <3> QED
      BY <1>1, <1>3, <2>2, <3>1, <3>2 DEF Stores, NeedsKB, KBLive, Live, Ingesting
  <2> QED
    BY <1>2, <2>1, <2>2 DEF Turn
<1> QED
  BY <1>1, <1>4, <1>5, <1>6

(* What an ingest knows of the document it is at. *)
LEMMA AtDoc ==
  ASSUME IInv, NEW a \in Actors, Turn(a), actors[a].pc \in Ingesting \cup {"claim"}
  PROVE  LET d == actors[a].doc
         IN /\ d \in Docs /\ d \in actors[a].queue /\ docs[d].n = 0
            /\ faults = 0 =>
                 /\ KBLive /\ coll /\ Live(d)
                 /\ docs[d].st = IF actors[a].pc = "claim" THEN "pending" ELSE "ingesting"
                 /\ \A e \in files : Live(e)
                 /\ \A e \in Docs : Points(e) = Expected(a, e)
<1> DEFINE d == actors[a].doc
<1>1. d \in Docs /\ d \in actors[a].queue /\ docs[d].n = 0
  BY DEF Turn, Books, IInv, Types, Actor
<1>2. ASSUME faults = 0
      PROVE  docs[d].st = IF actors[a].pc = "claim" THEN "pending" ELSE "ingesting"
  BY <1>1, <1>2 DEF Turn, Stores, Ingesting
<1>3. ASSUME faults = 0 PROVE Live(d) /\ KBLive
  BY <1>1, <1>2, <1>3, RowsTyped DEF Live, LiveStatus
<1>4. ASSUME faults = 0
      PROVE  coll /\ (\A e \in files : Live(e)) /\ \A e \in Docs : Points(e) = Expected(a, e)
  BY <1>3, <1>4 DEF Turn, Stores, Ingesting
<1> QED
  BY <1>1, <1>2, <1>3, <1>4

LEMMA ClaimTurn ==
  ASSUME IInv, IInv', NEW a \in Actors, Turn(a), Claim(a)
  PROVE  Turn(a)'
<1> DEFINE p == actors[a]
           d == p.doc
           row == [p.docs[d] EXCEPT !.st = "ingesting"]
           q == [p EXCEPT !.pc = "parse", !.prev = row.n, !.docs = Idle.docs, !.count = 0]
<1>1. /\ At(a, "claim") /\ UNCHANGED <<kb, coll, vec, files, faults>>
      /\ \/ StaleDoc(a, d, row) /\ End(a) /\ UNCHANGED docs
         \/ /\ ~StaleDoc(a, d, row)
            /\ docs' = IF Live(d) THEN [docs EXCEPT ![d] = WrittenRow(a, d, row)] ELSE docs
            /\ actors' = [actors EXCEPT ![a] = q]
  BY DEF Claim
<1>2. /\ p.docs = docs /\ d \in Docs /\ d \in p.queue /\ docs[d].n = 0 /\ p.prev = 0
      /\ docs[d] \in Row
  BY <1>1, AtDoc DEF Turn, Books, Reading, At, IInv, Types
<1>3. /\ row.n = 0 /\ row.st = "ingesting"
      /\ row = [st |-> "ingesting", n |-> 0]
  BY <1>2 DEF Row
<1>4. CASE StaleDoc(a, d, row) /\ End(a) /\ UNCHANGED docs
  <2>1. faults' # 0
    BY <1>1, <1>4, AtDoc DEF StaleDoc, At
  <2> QED
    BY <1>1, <1>4, <2>1, TallySame, EndTurn DEF Turn
<1>5. CASE /\ ~StaleDoc(a, d, row)
           /\ docs' = IF Live(d) THEN [docs EXCEPT ![d] = WrittenRow(a, d, row)] ELSE docs
           /\ actors' = [actors EXCEPT ![a] = q]
  <2>1. Live(d)
    <3>1. CASE row = p.docs[d]
      BY <1>2, <1>3, <3>1 DEF Live, LiveStatus
    <3>2. CASE row # p.docs[d]
      BY <1>5, <3>2 DEF StaleDoc
    <3> QED
      BY <3>1, <3>2
  <2>2. WrittenRow(a, d, row) = row
    BY <1>2 DEF WrittenRow, Written, Row
  <2>3. /\ docs'[d] = row /\ docs'[d].st = "ingesting" /\ docs'[d].n = 0
        /\ \A e \in Docs : e # d => docs'[e] = docs[e]
    BY <1>2, <1>3, <1>5, <2>1, <2>2 DEF IInv, Types
  <2>4. Live(d)' /\ (\A e \in Docs : Live(e) => Live(e)')
    <3>1. \A e \in Docs : e # d => (Live(e) <=> Live(e)')
      BY <2>3 DEF Live
    <3> QED
      BY <1>5, <2>3, <3>1 DEF Live, LiveStatus
  <2>5. Tallied'
    <3>1. kb'.count = kb.count - docs[d].n + docs'[d].n
      BY <1>1, <1>2, <2>3, RowsTyped
    <3> HIDE DEF d
    <3> QED
      BY <1>1, <1>2, <2>3, <3>1, TallyChanged DEF Turn, KBLive
  <2>6. /\ actors'[a].pc = "parse" /\ actors'[a].doc = d /\ actors'[a].queue = p.queue
        /\ actors'[a].prev = 0
    <3>1. /\ q.pc = "parse" /\ q.doc = d /\ q.queue = p.queue /\ q.prev = 0
      BY <1>3 DEF IInv, Types, Actor
    <3> HIDE DEF q
    <3>2. actors'[a] = q
      BY <1>5 DEF IInv, Types
    <3> QED
      BY <3>1, <3>2
  <2>7. Books(a)'
    <3>1. \A e \in p.queue : docs'[e].n = 0
      BY <2>3 DEF Turn, Books, IInv, Types, Actor
    <3> QED
      BY <1>2, <2>6, <3>1 DEF Books, Reading, Queueing, Ingesting
  <2>8. ASSUME faults' = 0 PROVE Stores(a)'
    <3>1. /\ KBLive /\ KBLive' /\ coll' /\ docs[d].st = "pending"
          /\ \A e \in files' : Live(e)'
          /\ \A e \in Docs : Points(e) = Expected(a, e)
      BY <1>1, <2>4, <2>8, AtDoc, RowsTyped DEF At, KBLive
    <3>2. \A e \in Docs : Points(e)' = Expected(a, e)'
      <4>1. \A e \in Docs : Points(e)' = IF docs[e].st = "done" THEN 1..docs[e].n ELSE {}
        BY <1>1, <3>1, SamePoints DEF At, Expected
      <4> QED
        BY <2>3, <2>6, <3>1, <4>1 DEF Expected
    <3>3. \A e \in p.queue : docs'[e].st = IF e = d THEN "ingesting" ELSE "pending"
      <4>1. \A e \in p.queue : e \in Docs /\ docs[e].st = "pending"
        BY <1>1, <2>8 DEF Turn, Stores, At, Ingesting, IInv, Types, Actor
      <4> QED
        BY <2>3, <4>1
    <3> QED
      BY <2>6, <3>1, <3>2, <3>3 DEF Stores, NeedsKB, Ingesting
  <2> QED
    BY <2>5, <2>7, <2>8 DEF Turn
<1> QED
  BY <1>1, <1>4, <1>5


(* A step of the ingest of document d that leaves the rows alone, to where  *)
(* the points of d are those of the record.                                *)
LEMMA IngestTurn ==
  ASSUME IInv, NEW a \in Actors, Turn(a), actors[a].pc \in Ingesting,
         actors'[a].pc \in Ingesting,
         actors'[a].doc = actors[a].doc, actors'[a].queue = actors[a].queue,
         actors'[a].prev = actors[a].prev,
         actors'[a].pc \in Reading => actors'[a].docs = docs /\ actors'[a].count = kb.count,
         UNCHANGED <<kb, docs, coll, files>>,
         faults' = 0 => faults = 0,
         \A d \in Docs : d # actors[a].doc => vec'[d] = vec[d],
         faults' = 0 => Points(actors[a].doc)' =
                          IF actors'[a].pc \in {"finish", "finalize"}
                            THEN 1..actors'[a].new ELSE {}
  PROVE  Turn(a)'
<1> DEFINE d == actors[a].doc
<1>1. Tallied'
  BY TallySame DEF Turn
<1>2. Books(a)'
  BY DEF Turn, Books, Ingesting, Queueing
<1>3. ASSUME faults' = 0 PROVE Stores(a)'
  <2>1. /\ KBLive /\ coll /\ docs[d].st = "ingesting" /\ d \in Docs
        /\ \A e \in files : Live(e)
        /\ \A e \in Docs : Points(e) = Expected(a, e)
    BY <1>3, AtDoc DEF Ingesting
  <2>2. \A e \in Docs : e # d => Points(e)' = IF docs[e].st = "done" THEN 1..docs[e].n ELSE {}
    BY <2>1 DEF Points, Expected, Ingesting
  <2>3. \A e \in Docs : Points(e)' = Expected(a, e)'
    BY <1>3, <2>1, <2>2 DEF Expected, Ingesting
  <2>4. \A e \in actors[a].queue : docs[e].st = IF e = d THEN "ingesting" ELSE "pending"
    BY <1>3 DEF Turn, Stores
  <2> QED
    BY <1>3, <2>1, <2>3, <2>4 DEF Stores, NeedsKB, KBLive, Live, Ingesting
<1> QED
  BY <1>1, <1>2, <1>3 DEF Turn

LEMMA ParseTurn ==
  ASSUME IInv, NEW a \in Actors, Turn(a), Parse(a)
  PROVE  Turn(a)'
<1> DEFINE d == actors[a].doc
           q == actors'[a]
<1>1. /\ At(a, "parse") /\ UNCHANGED <<kb, docs, coll, vec, files, faults>>
      /\ \/ \E n \in Yields(d) : actors' = [actors EXCEPT ![a].pc = "upsert", ![a].new = n]
         \/ actors' = [actors EXCEPT ![a].pc = "finish", ![a].new = 0]
  BY DEF Parse
<1>2. /\ q.pc = "upsert" \/ (q.pc = "finish" /\ q.new = 0)
      /\ q.doc = d /\ q.queue = actors[a].queue /\ q.prev = actors[a].prev
  BY <1>1 DEF IInv, Types, Actor
<1>3. ASSUME faults' = 0 PROVE Points(d) = {}
  BY <1>1, <1>3, AtDoc DEF At, Ingesting, Expected
<1>4. faults' = 0 => Points(actors[a].doc)' = {}
  BY <1>1, <1>2, <1>3 DEF Points
<1>5. 1..0 = {}
  OBVIOUS
<1> QED
  BY <1>1, <1>2, <1>4, <1>5, IngestTurn DEF At, Ingesting, Reading

LEMMA UpsertTurn ==
  ASSUME IInv, NEW a \in Actors, Turn(a), Upsert(a)
  PROVE  Turn(a)'
<1> DEFINE d == actors[a].doc
           new == actors[a].new
           space == SpaceOf(actors[a].cfg)
           q == actors'[a]
           points == [i \in 1..MaxChunks |-> IF i <= new THEN space ELSE vec[d][i]]
<1>1. At(a, "upsert") /\ UNCHANGED <<kb, docs, coll, files>>
  BY DEF Upsert
<1>2. d \in Docs /\ new \in 0..MaxChunks /\ MaxChunks \in Nat
  BY <1>1, AtDoc, KBAssumption DEF At, Ingesting, IInv, Types, Actor
<1>3. ASSUME faults = 0 PROVE Points(d) = {}
  BY <1>1, <1>3, AtDoc DEF At, Ingesting, Expected
<1>4. \/ Works /\ vec' = [vec EXCEPT ![d] = points] /\ Goto(a, "finish")
      \/ /\ actors' = [actors EXCEPT ![a].pc = "finish", ![a].new = 0]
         /\ UNCHANGED vec /\ (Works \/ Fails)
  BY DEF Upsert
<1>5. CASE Works /\ vec' = [vec EXCEPT ![d] = points] /\ Goto(a, "finish")
  <2>1. /\ q.pc = "finish" /\ q.doc = d /\ q.queue = actors[a].queue
        /\ q.prev = actors[a].prev /\ q.new = new
    BY <1>5, GotoFields
  <2>2. vec'[d] = points /\ \A e \in Docs : e # d => vec'[e] = vec[e]
    BY <1>2, <1>5 DEF IInv, Types
  <2>3. space # "none"
    BY DEF SpaceOf
  <2>4. ASSUME faults' = 0 PROVE Points(actors[a].doc)' = 1..new
    <3>1. \A i \in 1..MaxChunks : vec[d][i] = "none"
      BY <1>3, <1>5, <2>4 DEF Points, Works
    <3>2. \A i \in 1..MaxChunks : points[i] # "none" <=> i <= new
      BY <2>3, <3>1
    <3>3. {i \in 1..MaxChunks : points[i] # "none"} = 1..new
      BY <1>2, <3>2
    <3>4. Points(actors[a].doc)' = {i \in 1..MaxChunks : vec'[actors'[a].doc][i] # "none"}
      BY DEF Points
    <3> HIDE DEF points
    <3> QED
      BY <2>1, <2>2, <3>3, <3>4
  <2> HIDE DEF points, space
  <2> QED
    BY <1>1, <1>5, <2>1, <2>2, <2>4, IngestTurn DEF At, Ingesting, Reading, Works
<1>6. CASE /\ actors' = [actors EXCEPT ![a].pc = "finish", ![a].new = 0]
           /\ UNCHANGED vec /\ (Works \/ Fails)
  <2>1. /\ q.pc = "finish" /\ q.doc = d /\ q.queue = actors[a].queue
        /\ q.prev = actors[a].prev /\ q.new = 0
    BY <1>6 DEF IInv, Types, Actor
  <2>2. faults' = 0 => faults = 0
    BY <1>6, KBAssumption DEF Works, Fails, IInv, Types
  <2>3. faults' = 0 => Points(actors[a].doc)' = {}
    BY <1>3, <1>6, <2>1, <2>2 DEF Points
  <2>4. 1..0 = {}
    OBVIOUS
  <2> QED
    BY <1>1, <1>6, <2>1, <2>2, <2>3, <2>4, IngestTurn DEF At, Ingesting, Reading
<1> QED
  BY <1>4, <1>5, <1>6

LEMMA FinishReadTurn ==
  ASSUME IInv, NEW a \in Actors, Turn(a), FinishRead(a)
  PROVE  Turn(a)'
<1> DEFINE p == actors[a]
           d == p.doc
           rec == [p EXCEPT !.pc = "finalize"]
           q == actors'[a]
<1>1. /\ At(a, "finish") /\ UNCHANGED <<kb, docs, coll, vec, files, faults>>
      /\ \/ Live(d) /\ Load(a, rec)
         \/ ~Live(d) /\ Without(a, d)
  BY DEF FinishRead
<1>2. CASE Live(d) /\ Load(a, rec)
  <2>1. /\ rec \in Actor /\ rec.pc = "finalize" /\ rec.doc = d /\ rec.new = p.new
        /\ rec.queue = p.queue /\ rec.prev = p.prev
    BY DEF IInv, Types, Actor, Pcs, Holding
  <2> HIDE DEF rec
  <2>2. /\ q.pc = "finalize" /\ q.doc = d /\ q.queue = p.queue /\ q.prev = p.prev
        /\ q.new = p.new /\ q.docs = docs /\ q.count = kb.count
    BY <1>2, <2>1, LoadFields
  <2>3. ASSUME faults' = 0 PROVE Points(actors[a].doc)' = 1..p.new
    <3>1. Points(d) = 1..p.new
      BY <1>1, <2>3, AtDoc DEF At, Ingesting, Expected
    <3> QED
      BY <1>1, <2>2, <3>1 DEF Points
  <2> QED
    BY <1>1, <2>2, <2>3, IngestTurn DEF At, Ingesting, Reading
<1>3. CASE ~Live(d) /\ Without(a, d)
  <2>1. faults' # 0
    BY <1>1, <1>3, AtDoc DEF At, Ingesting
  <2>2. Books(a)'
    BY <1>1, <1>3, WithoutBooks DEF Turn, Books
  <2> QED
    BY <1>1, <2>1, <2>2, TallySame DEF Turn
<1> QED
  BY <1>1, <1>2, <1>3

LEMMA FinalizeTurn ==
  ASSUME IInv, IInv', NEW a \in Actors, Turn(a), Finalize(a)
  PROVE  Turn(a)'
<1> DEFINE p == actors[a]
           d == p.doc
           new == p.new
           row == [st |-> IF new > 0 THEN "done" ELSE "failed", n |-> new]
           count == IF new > 0 THEN p.count - p.prev + new ELSE p.count
<1>1. /\ At(a, "finalize") /\ UNCHANGED <<coll, vec, files, faults>>
      /\ \/ (StaleDoc(a, d, row) \/ StaleKB(a, count)) /\ End(a) /\ UNCHANGED <<kb, docs>>
         \/ /\ ~StaleDoc(a, d, row)
            /\ docs' = IF Live(d) THEN [docs EXCEPT ![d] = WrittenRow(a, d, row)] ELSE docs
            /\ SetCount(a, count) /\ Without(a, d)
  BY DEF Finalize
<1>2. /\ p.docs = docs /\ p.count = kb.count /\ p.prev = 0
      /\ d \in Docs /\ d \in p.queue /\ docs[d].n = 0 /\ docs[d] \in Row
  BY <1>1, AtDoc DEF Turn, Books, Reading, Ingesting, At, IInv, Types
<1>3. new \in Nat /\ kb.count \in Int
  <2>1. new \in 0..MaxChunks
    BY DEF IInv, Types, Actor
  <2> QED
    BY <2>1, KBAssumption, RowsTyped
<1>4. count = kb.count + new
  BY <1>2, <1>3
<1>5. row.n = new /\ row.st \in {"done", "failed"} /\ (row.st = "done" <=> new > 0)
  OBVIOUS
<1>6. CASE (StaleDoc(a, d, row) \/ StaleKB(a, count)) /\ End(a) /\ UNCHANGED <<kb, docs>>
  <2>1. faults' # 0
    BY <1>1, <1>6, AtDoc DEF StaleDoc, StaleKB, At, Ingesting
  <2> QED
    BY <1>1, <1>6, <2>1, TallySame, EndTurn DEF Turn
<1>7. CASE /\ ~StaleDoc(a, d, row)
           /\ docs' = IF Live(d) THEN [docs EXCEPT ![d] = WrittenRow(a, d, row)] ELSE docs
           /\ SetCount(a, count) /\ Without(a, d)
  <2>1. Live(d)
    <3>1. CASE row = p.docs[d]
      BY <1>2, <1>5, <3>1 DEF Live, LiveStatus
    <3>2. CASE row # p.docs[d]
      BY <1>7, <3>2 DEF StaleDoc
    <3> QED
      BY <3>1, <3>2
  <2>2. WrittenRow(a, d, row) = row
    BY <1>2 DEF WrittenRow, Written, Row
  <2> HIDE DEF row, count
  <2>3. /\ docs'[d] = row /\ \A e \in Docs : e # d => docs'[e] = docs[e]
    BY <1>2, <1>7, <2>1, <2>2 DEF IInv, Types
  <2>4. row.st \in LiveStatus /\ (\A e \in Docs : Live(e) => docs'[e].st \in LiveStatus)
    BY <1>5, <2>3 DEF Live, LiveStatus
  <2>5. kb'.st = kb.st /\ kb'.count = kb.count + new
    BY <1>2, <1>4, <1>7 DEF SetCount, Written, IInv, Types, KBRow
  <2>6. Tallied'
    <3>1. kb'.count = kb.count - docs[d].n + docs'[d].n
      BY <1>2, <1>3, <1>5, <2>3, <2>5
    <3>2. KBLive' => KBLive
      BY <2>5 DEF KBLive
    <3>3. PICK x \in Docs : x = d
      BY <1>2
    <3>4. Live(x)'
      BY <2>3, <2>4, <3>3 DEF Live
    <3> HIDE DEF d
    <3> QED
      BY <2>3, <2>5, <3>1, <3>2, <3>3, <3>4, TallyChanged DEF Turn
  <2>7. Books(a)'
    <3>1. \A e \in p.queue : e # d => docs'[e].n = 0
      BY <2>3 DEF Turn, Books, IInv, Types, Actor
    <3> QED
      BY <1>7, <3>1, WithoutBooks
  <2>8. ASSUME faults' = 0 PROVE Stores(a)'
    <3>1. /\ KBLive /\ KBLive' /\ coll'
          /\ \A e \in files' : docs'[e].st \in LiveStatus
          /\ \A e \in Docs : Points(e) = Expected(a, e)
      BY <1>1, <2>4, <2>5, <2>8, AtDoc, RowsTyped DEF At, KBLive, Ingesting
    <3>2. /\ actors'[a].pc = "queue" /\ actors'[a].queue = p.queue \ {d}
      BY <1>7, WithoutFields
    <3>3. \A e \in Docs : Points(e)' = IF docs'[e].st = "done" THEN 1..docs'[e].n ELSE {}
      <4>1. \A e \in Docs : Points(e)' = Points(e)
        BY <1>1, SamePoints
      <4>2. \A e \in Docs : e # d => Points(e) = IF docs[e].st = "done" THEN 1..docs[e].n ELSE {}
        BY <1>1, <3>1 DEF At, Expected
      <4>3. Points(d) = 1..new
        BY <1>1, <1>2, <3>1 DEF At, Expected
      <4>4. 1..new = IF row.st = "done" THEN 1..row.n ELSE {}
        BY <1>3, <1>5
      <4> HIDE DEF d, new
      <4> QED
        BY <1>2, <2>3, <4>1, <4>2, <4>3, <4>4
    <3>4. \A e \in Docs : Points(e)' = Expected(a, e)'
      BY <3>2, <3>3 DEF Expected
    <3>5. \A e \in p.queue \ {d} : docs'[e].st = "pending"
      <4>1. \A e \in p.queue \ {d} : e \in Docs /\ docs[e].st = "pending"
        BY <1>1, <2>8 DEF Turn, Stores, IInv, Types, Actor
      <4> QED
        BY <2>3, <4>1
    <3> QED
      BY <3>1, <3>2, <3>4, <3>5 DEF Stores, NeedsKB, Ingesting, Live
  <2> QED
    BY <2>6, <2>7, <2>8 DEF Turn
<1> QED
  BY <1>1, <1>6, <1>7


-------------------------------------------------------------------------------

Step(a) == Rebuild(a) \/ Request(a) \/ Work(a) \/ Crash(a)

LEMMA StepTurn ==
  ASSUME IInv, IInv', NEW a \in Actors, Turn(a), Rested, Step(a)
  PROVE  Turn(a)'
<1>1. CASE Crash(a)
  <2>1. /\ Fails /\ End(a) /\ UNCHANGED <<kb, docs, coll, vec, files>>
    BY <1>1 DEF Crash
  <2>2. faults' # 0
    BY <2>1, KBAssumption DEF Fails, IInv, Types
  <2> QED
    BY <2>1, <2>2, TallySame, EndTurn DEF Turn
<1>2. CASE Request(a)
  BY <1>2, CreateTurn, PurgeTurn, UploadTurn, DeleteDocTurn, Zenon DEF Request
<1>3. CASE Work(a)
  BY <1>3, CreateTurn, SaveTurn, InsertTurn, DropChunksTurn, DeleteRowTurn, UnlinkTurn,
     ResetTurn, RecreateTurn, PurgeTurn, NextDocTurn, ClaimTurn, ParseTurn, UpsertTurn,
     FinishReadTurn, FinalizeTurn, Zenon
  DEF Work
<1> QED
  BY <1>1, <1>2, <1>3, StartRebuildTurn DEF Step

(* Only the actor that steps moves; it rests as it began, and a request     *)
(* that arrives is at work.                                                *)
Others(a) == \A b \in Actors : b # a => actors'[b] = actors[b]

Rests(a) == Others(a) /\ actors'[a] = Idle

Goes(a) == Others(a) /\ actors'[a].pc # "idle"

LEMMA RestsOrGoes ==
  ASSUME IInv, NEW a \in Actors
  PROVE  /\ End(a) => Rests(a)
         /\ \A pc : Goto(a, pc) /\ pc # "idle" => Goes(a)
         /\ \A d : Without(a, d) => Goes(a)
         /\ \A rec \in Actor : Load(a, rec) /\ rec.pc # "idle" => Goes(a)
<1>1. actors \in [Actors -> Actor]
  BY DEF IInv, Types
<1>2. End(a) => Rests(a)
  BY <1>1 DEF End, Rests, Others
<1>3. ASSUME NEW pc, Goto(a, pc), pc # "idle" PROVE Goes(a)
  <2>1. Others(a)
    BY <1>1, <1>3 DEF Goto, Others
  <2> QED
    BY <1>3, <2>1, GotoFields DEF Goes
<1>4. ASSUME NEW d, Without(a, d) PROVE Goes(a)
  <2>1. Others(a)
    BY <1>1, <1>4 DEF Without, Others
  <2> QED
    BY <1>4, <2>1, WithoutFields DEF Goes
<1>5. ASSUME NEW rec \in Actor, Load(a, rec), rec.pc # "idle" PROVE Goes(a)
  <2>1. Others(a)
    BY <1>1, <1>5 DEF Load, Others
  <2> QED
    BY <1>5, <2>1, LoadFields DEF Goes
<1> QED
  BY <1>2, <1>3, <1>4, <1>5

LEMMA RequestGoes ==
  ASSUME IInv, NEW a \in Actors, Rebuild(a) \/ Request(a)
  PROVE  Goes(a)
<1>1. CASE Rebuild(a)
  <2> DEFINE rec == [Idle EXCEPT !.pc = "reset"]
  <2>1. rec \in Actor /\ rec.pc # "idle"
    BY IdleType DEF Actor, Pcs
  <2>2. Load(a, rec)
    BY <1>1 DEF Rebuild
  <2> HIDE DEF rec
  <2> QED
    BY <2>1, <2>2, RestsOrGoes
<1>2. CASE CreateKB(a)
  BY <1>2, RestsOrGoes DEF CreateKB
<1>3. CASE PurgeCollection(a)
  BY <1>3, RestsOrGoes DEF PurgeCollection
<1>4. ASSUME NEW d \in Docs, Upload(a, d) PROVE Goes(a)
  <2>1. PICK pc \in {"save", "insert"} :
          actors' = [actors EXCEPT ![a] = [Idle EXCEPT !.doc = d, !.pc = pc]]
    BY <1>4 DEF Upload
  <2> QED
    BY <2>1 DEF Goes, Others, Idle, IInv, Types
<1>5. ASSUME NEW d \in Docs, DeleteDoc(a, d) PROVE Goes(a)
  <2> DEFINE rec == [Idle EXCEPT !.pc = "dropChunks", !.doc = d]
  <2>1. rec \in Actor /\ rec.pc # "idle"
    BY IdleType DEF Actor, Pcs, Holding
  <2>2. Load(a, rec)
    BY <1>5 DEF DeleteDoc
  <2> HIDE DEF rec
  <2> QED
    BY <2>1, <2>2, RestsOrGoes
<1> QED
  BY <1>1, <1>2, <1>3, <1>4, <1>5 DEF Request

LEMMA WorkRestsOrGoes ==
  ASSUME IInv, NEW a \in Actors, Work(a) \/ Crash(a)
  PROVE  ~At(a, "idle") /\ (Rests(a) \/ Goes(a))
<1>1. ~At(a, "idle")
  BY DEF Work, Crash, At, CreateCollection, UndoCreate, SaveUpload, InsertDoc,
         DropChunks, DeleteRow, Unlink, Reset, DropCollection, RecreateCollection, PurgeRow,
         PurgeFiles, NextDoc, Claim, Parse, Upsert, FinishRead, Finalize
<1>2. CASE \/ CreateCollection(a) \/ UndoCreate(a) \/ SaveUpload(a)
           \/ DropChunks(a) \/ DeleteRow(a) \/ Unlink(a)
           \/ DropCollection(a) \/ RecreateCollection(a) \/ PurgeRow(a) \/ PurgeFiles(a)
           \/ Crash(a)
  <2>1. End(a) \/ \E pc \in {"undo", "insert", "deleteRow", "unlink", "makeColl", "queue",
                             "purgeFiles"} : Goto(a, pc)
    BY <1>2 DEF CreateCollection, UndoCreate, SaveUpload, DropChunks, DeleteRow, Unlink,
                DropCollection, RecreateCollection, PurgeRow, PurgeFiles, Crash
  <2> QED
    BY <1>1, <2>1, RestsOrGoes
<1>3. CASE InsertDoc(a)
  <2>1. \/ End(a)
        \/ \E cfg \in {"kb", "user"} :
             actors' = [actors EXCEPT ![a] = [Idle EXCEPT !.pc = "queue",
                                                !.queue = {actors[a].doc}, !.cfg = cfg]]
    BY <1>3 DEF InsertDoc
  <2>2. ASSUME NEW cfg,
               actors' = [actors EXCEPT ![a] = [Idle EXCEPT !.pc = "queue",
                                                  !.queue = {actors[a].doc}, !.cfg = cfg]]
        PROVE  Goes(a)
    BY <2>2 DEF Goes, Others, Idle, IInv, Types
  <2> QED
    BY <1>1, <2>1, <2>2, RestsOrGoes
<1>4. CASE Reset(a)
  <2> DEFINE mine == {d \in Docs : actors[a].docs[d].st \in LiveStatus}
             Queued(cfg) == actors' = [actors EXCEPT ![a] =
                               [Idle EXCEPT !.pc = "dropColl", !.queue = mine, !.cfg = cfg]]
  <2>1. End(a) \/ \E cfg \in {"user", "none"} : Queued(cfg)
    BY <1>4, Zenon DEF Reset
  <2>2. ASSUME NEW cfg, Queued(cfg) PROVE Goes(a)
    <3> HIDE DEF mine
    <3> QED
      BY <2>2 DEF Goes, Others, Idle, IInv, Types
  <2> HIDE DEF Queued
  <2> QED
    BY <1>1, <2>1, <2>2, RestsOrGoes
<1>5. CASE NextDoc(a)
  <2>1. End(a) \/ \E d \in actors[a].queue :
                    Load(a, [actors[a] EXCEPT !.doc = d, !.pc = "claim"]) \/ Without(a, d)
    BY <1>5 DEF NextDoc
  <2>2. ASSUME NEW d \in actors[a].queue,
               Load(a, [actors[a] EXCEPT !.doc = d, !.pc = "claim"])
        PROVE  Goes(a)
    <3> DEFINE rec == [actors[a] EXCEPT !.doc = d, !.pc = "claim"]
    <3>1. actors[a] \in Actor /\ d \in Docs
      BY DEF IInv, Types, Actor
    <3>2. rec \in Actor /\ rec.pc # "idle"
      BY <3>1 DEF Actor, Pcs, Holding
    <3> HIDE DEF rec
    <3>3. Load(a, rec)
      BY <2>2 DEF rec
    <3> QED
      BY <3>2, <3>3, RestsOrGoes
  <2> QED
    BY <1>1, <2>1, <2>2, RestsOrGoes
<1>6. CASE Claim(a)
  <2> DEFINE row == [actors[a].docs[actors[a].doc] EXCEPT !.st = "ingesting"]
             r == [actors[a] EXCEPT !.pc = "parse", !.prev = row.n, !.docs = Idle.docs,
                                    !.count = 0]
  <2>1. End(a) \/ actors' = [actors EXCEPT ![a] = r]
    BY <1>6, Zenon DEF Claim
  <2>2. r.pc = "parse"
    BY DEF IInv, Types, Actor
  <2> HIDE DEF r
  <2> QED
    BY <1>1, <2>1, <2>2, RestsOrGoes DEF Goes, Others, IInv, Types
<1>7. CASE Parse(a) \/ Upsert(a)
  <2>1. \/ Goto(a, "finish")
        \/ \E n \in Nat, pc \in {"upsert", "finish"} :
             actors' = [actors EXCEPT ![a].pc = pc, ![a].new = n]
    BY <1>7, KBAssumption DEF Parse, Upsert, Yields
  <2>2. ASSUME NEW n, NEW pc \in {"upsert", "finish"},
               actors' = [actors EXCEPT ![a].pc = pc, ![a].new = n]
        PROVE  Goes(a)
    BY <2>2 DEF Goes, Others, IInv, Types, Actor
  <2> QED
    BY <1>1, <2>1, <2>2, RestsOrGoes
<1>8. CASE FinishRead(a)
  <2> DEFINE rec == [actors[a] EXCEPT !.pc = "finalize"]
  <2>1. Load(a, rec) \/ Without(a, actors[a].doc)
    BY <1>8 DEF FinishRead
  <2>2. rec \in Actor /\ rec.pc # "idle"
    BY DEF IInv, Types, Actor, Pcs, Holding
  <2> HIDE DEF rec
  <2> QED
    BY <1>1, <2>1, <2>2, RestsOrGoes
<1>9. CASE Finalize(a)
  <2>1. End(a) \/ Without(a, actors[a].doc)
    BY <1>9, Zenon DEF Finalize
  <2> QED
    BY <1>1, <2>1, RestsOrGoes
<1> QED
  BY <1>1, <1>2, <1>3, <1>4, <1>5, <1>6, <1>7, <1>8, <1>9 DEF Work


-------------------------------------------------------------------------------

AtMostOne == \A a, b \in Busy : a = b

TurnIInv ==
  /\ IsFiniteSet(Busy)
  /\ Rested
  /\ ~overlapped => AtMostOne /\ \A a \in Actors : Busy \subseteq {a} => Turn(a)

LEMMA AtMostOneOf ==
  ASSUME NEW S, IsFiniteSet(S), ~(Cardinality(S) > 1)
  PROVE  \A x, y \in S : x = y
<1>1. Cardinality(S) \in Nat
  BY FS_CardinalityType
<1>2. Cardinality(S) = 0 \/ Cardinality(S) = 1
  BY <1>1
<1>3. S = {} \/ \E x : S = {x}
  BY <1>2, FS_EmptySet, FS_Singleton
<1> QED
  BY <1>3

LEMMA StepRests ==
  ASSUME IInv, Rested, NEW a \in Actors, Step(a)
  PROVE  /\ \A b \in Actors : b # a => actors'[b] = actors[b]
         /\ At(a, "idle") => a \in Busy'
         /\ Rested'
         /\ Busy' \subseteq Busy \cup {a}
<1>1. Rests(a) \/ Goes(a)
  BY RequestGoes, WorkRestsOrGoes DEF Step
<1>2. \A b \in Actors : b # a => actors'[b] = actors[b]
  BY <1>1 DEF Rests, Goes, Others
<1>3. At(a, "idle") => Goes(a)
  BY RequestGoes, WorkRestsOrGoes DEF Step
<1>4. At(a, "idle") => a \in Busy'
  BY <1>3 DEF Goes, Busy, At
<1>5. Rested'
  BY <1>1, <1>2 DEF Rested, Rests, Goes, At
<1> QED
  BY <1>2, <1>4, <1>5 DEF Busy, At

(* An actor at rest says of the stores what any other at rest says. *)
LEMMA SameAtRest ==
  ASSUME NEW a \in Actors, NEW b \in Actors, (actors[a] = actors[b])', Turn(a)'
  PROVE  Turn(b)'
<1>1. \A d \in Docs : Expected(a, d)' = Expected(b, d)'
  BY DEF Expected
<1>2. Books(a)' => Books(b)'
  BY DEF Books
<1>3. Stores(a)' => Stores(b)'
  BY <1>1 DEF Stores
<1> QED
  BY <1>2, <1>3 DEF Turn

LEMMA NextTurn == IInv /\ TurnIInv /\ [MCNext]_mcvars => TurnIInv'
<1> SUFFICES ASSUME IInv, TurnIInv, [MCNext]_mcvars PROVE TurnIInv'
  OBVIOUS
<1>1. CASE MCNext
  <2>1. PICK a \in Actors : Step(a)
    BY <1>1 DEF MCNext, Next, Step
  <2>2. /\ \A b \in Actors : b # a => actors'[b] = actors[b]
        /\ At(a, "idle") => a \in Busy'
        /\ Rested'
        /\ Busy' \subseteq Busy \cup {a}
    BY <2>1, StepRests DEF TurnIInv
  <2>3. IsFiniteSet(Busy')
    <3>1. IsFiniteSet(Busy \cup {a})
      BY FS_AddElement DEF TurnIInv
    <3> QED
      BY <2>2, <3>1, FS_Subset
  <2>4. ASSUME ~overlapped'
        PROVE  AtMostOne' /\ \A b \in Actors : Busy' \subseteq {b} => Turn(b)'
    <3>1. ~overlapped /\ ~(Cardinality(Busy') > 1)
      BY <1>1, <2>4 DEF MCNext
    <3>2. AtMostOne'
      BY <2>3, <3>1, AtMostOneOf DEF AtMostOne
    <3>3. Busy \subseteq {a}
      <4> SUFFICES ASSUME NEW b \in Busy, b # a PROVE FALSE
        OBVIOUS
      <4>1. b \in Busy' /\ b \in Actors
        BY <2>2 DEF Busy, At
      <4>2. a \notin Busy
        BY <3>1 DEF TurnIInv, AtMostOne
      <4>3. a \in Busy'
        BY <2>2, <4>2 DEF Busy
      <4> QED
        BY <3>2, <4>1, <4>3 DEF AtMostOne
    <3>4. Turn(a)
      BY <3>1, <3>3 DEF TurnIInv
    <3>5. IInv'
      <4>1. [Next]_vars
        BY <1>1 DEF MCNext
      <4> QED
        BY <4>1, NextIInv
    <3>6. Turn(a)'
      BY <2>1, <3>4, <3>5, StepTurn DEF TurnIInv
    <3>7. ASSUME NEW b \in Actors, Busy' \subseteq {b} PROVE Turn(b)'
      <4>1. CASE b = a
        BY <3>6, <4>1
      <4>2. CASE b # a
        <5>1. b \notin Busy' /\ a \notin Busy'
          BY <2>2, <3>3, <3>7, <4>2 DEF Busy, At
        <5>2. (actors[a] = actors[b])'
          BY <2>2, <5>1 DEF Busy, Rested
        <5> QED
          BY <3>6, <5>2, SameAtRest
      <4> QED
        BY <4>1, <4>2
    <3> QED
      BY <3>2, <3>7
  <2> QED
    BY <2>2, <2>3, <2>4 DEF TurnIInv
<1>2. CASE UNCHANGED mcvars
  <2>1. UNCHANGED <<kb, docs, coll, vec, files, actors, faults, overlapped>>
    BY <1>2 DEF mcvars, vars
  <2>2. Busy' = Busy /\ Rested' /\ (AtMostOne => AtMostOne')
    BY <2>1 DEF TurnIInv, Busy, Rested, AtMostOne, At, Idle
  <2>3. \A a \in Actors : Turn(a) => Turn(a)'
    <3> SUFFICES ASSUME NEW a \in Actors, Turn(a) PROVE Turn(a)'
      OBVIOUS
    <3>1. Tallied'
      BY <2>1, TallySame DEF Turn
    <3>2. \A d \in Docs : Points(d)' = Points(d) /\ Expected(a, d)' = Expected(a, d)
      BY <2>1, SamePoints DEF Expected
    <3>3. Books(a) => Books(a)'
      BY <2>1 DEF Books
    <3>4. Stores(a) => Stores(a)'
      BY <2>1, <3>2 DEF Stores, KBLive, Live
    <3> QED
      BY <2>1, <3>1, <3>3, <3>4 DEF Turn
  <2> QED
    BY <2>1, <2>2, <2>3 DEF TurnIInv
<1> QED
  BY <1>1, <1>2

LEMMA InitTurn == MCInit => IInv /\ TurnIInv
<1> SUFFICES ASSUME MCInit PROVE TurnIInv
  BY InitIInv DEF MCInit
<1>1. /\ kb.st = "none" /\ coll = FALSE /\ files = {}
      /\ \A d \in Docs : docs[d].st = "none" /\ docs[d].n = 0 /\ vec[d] = NoPoints
      /\ \A a \in Actors : actors[a] = Idle
  BY DEF MCInit, Init
<1>2. Busy = {} /\ Rested
  BY <1>1, IdleFields DEF Busy, Rested, At
<1>3. Tallied /\ Agree
  BY <1>1, NoPointsLeft DEF Tallied, Agree, KBLive
<1>4. ASSUME NEW a \in Actors PROVE Turn(a)
  <2>1. Books(a)
    BY <1>1, IdleFields DEF Books, Reading, Ingesting
  <2> QED
    BY <1>1, <1>3, <2>1, IdleStores DEF Turn
<1> QED
  BY <1>2, <1>4, FS_EmptySet DEF TurnIInv, AtMostOne

(* The invariants of the model hold with the history variables too. *)
LEMMA TurnInvariance == MCSpec => [](IInv /\ TurnIInv)
<1>1. [MCNext]_mcvars => [Next]_vars
  BY DEF MCNext, mcvars
<1> QED
  BY <1>1, InitTurn, NextIInv, NextTurn, PTL DEF MCSpec

(* While requests take turns, the chunk count of the knowledge base is the *)
(* sum over its documents: every commit of delete_document, rebuild_kb and *)
(* ingest_document moves both by as much, wherever a crash or a failing    *)
(* store stops them.                                                       *)
THEOREM CountKept == MCSpec => []CountIsSum
<1>1. TurnIInv => CountIsSum
  <2> SUFFICES ASSUME TurnIInv, ~overlapped, KBLive
               PROVE  kb.count = SumOf(docs, Docs)
    BY Zenon DEF CountIsSum, SumOf
  <2>1. PICK a \in Actors : Busy \subseteq {a}
    BY KBAssumption DEF TurnIInv, AtMostOne, Busy
  <2> QED
    BY <2>1 DEF TurnIInv, Turn, Tallied
<1> QED
  BY <1>1, TurnInvariance, PTL

(* While requests take turns and nothing fails, the rows, the vectors and  *)
(* the uploads agree whenever all is at rest, for any number of documents, *)
(* chunks and rebuilds (create_kb, upload_document, delete_document,       *)
(* rebuild_kb, purge_kb, ingest_document).                                 *)
THEOREM StoresKept == MCSpec => []StoresAgree
<1>1. IInv /\ TurnIInv => StoresAgree
  <2> SUFFICES ASSUME IInv, TurnIInv, AllIdle, faults = 0, ~overlapped
               PROVE  /\ \A d \in Docs :
                           Points(d) = IF docs[d].st = "done" THEN 1..docs[d].n ELSE {}
                      /\ coll = KBLive
                      /\ files = {d \in Docs \ UrlDocs : Live(d)}
    BY DEF StoresAgree
  <2>1. PICK a \in Actors : actors[a] = Idle
    BY KBAssumption DEF TurnIInv, Rested, AllIdle
  <2>2. Agree
    BY <2>1, IdleStores DEF TurnIInv, Turn, AllIdle, Busy
  <2>3. coll \in BOOLEAN /\ KBLive \in BOOLEAN
    BY Zenon DEF IInv, Types, KBLive
  <2>4. coll = KBLive
    <3>1. coll <=> KBLive
      BY <2>2, Zenon DEF Agree
    <3>2. ASSUME NEW x \in BOOLEAN, NEW y \in BOOLEAN, x <=> y PROVE x = y
      BY <3>2
    <3> QED
      BY <2>3, <3>1, <3>2, Zenon
  <2>5. files = {d \in Docs \ UrlDocs : Live(d)}
    BY <2>2 DEF Agree, IInv, Types, DocHasKBAndFile
  <2> QED
    BY <2>2, <2>4, <2>5, Zenon DEF Agree
<1> QED
  BY <1>1, TurnInvariance, PTL

-------------------------------------------------------------------------------
(* The chunker, for every list of atoms and all sizes.                     *)

(* The lengths of the prefixes of s. *)
IsPrefixes(P, s) ==
  /\ P \in [0..Len(s) -> Int]
  /\ P[0] = 0
  /\ \A n \in 1..Len(s) : P[n] = P[n-1] + s[n]

(* The recursion that adds the lengths of the atoms has a solution. *)
LEMMA PrefixesExist ==
  ASSUME NEW s \in Seq(Nat), NEW n \in Nat
  PROVE  \E f : f = [i \in 0..n |-> IF i = 0 THEN 0 ELSE f[i-1] + s[i]]
<1> DEFINE Solved(k) == \E f : f = [i \in 0..k |-> IF i = 0 THEN 0 ELSE f[i-1] + s[i]]
           R == {k \in Nat : Solved(k)}
<1>1. Solved(0)
  <2> DEFINE f == [i \in 0..0 |-> 0]
  <2>1. f = [i \in 0..0 |-> IF i = 0 THEN 0 ELSE f[i-1] + s[i]]
    OBVIOUS
  <2> QED
    BY <2>1
<1>2. ASSUME NEW k \in Nat, Solved(k) PROVE Solved(k + 1)
  <2>1. PICK f : f = [i \in 0..k |-> IF i = 0 THEN 0 ELSE f[i-1] + s[i]]
    BY <1>2
  <2> DEFINE g == [i \in 0..k+1 |-> IF i = k + 1 THEN f[k] + s[k+1] ELSE f[i]]
  <2>2. /\ \A i \in 0..k : g[i] = f[i]
        /\ g[k+1] = f[k] + s[k+1]
    OBVIOUS
  <2>3. \A i \in 0..k : f[i] = IF i = 0 THEN 0 ELSE f[i-1] + s[i]
    BY <2>1
  <2>4. g = [i \in 0..k+1 |-> g[i]]
    BY Zenon
  <2> HIDE DEF g
  <2>5. ASSUME NEW i \in 0..k+1
        PROVE  g[i] = IF i = 0 THEN 0 ELSE g[i-1] + s[i]
    <3>1. CASE i = k + 1
      <4>1. i # 0 /\ i - 1 = k /\ k \in 0..k
        BY <3>1
      <4> QED
        BY <2>2, <3>1, <4>1
    <3>2. CASE i = 0
      <4>1. 0 \in 0..k
        OBVIOUS
      <4> QED
        BY <2>2, <2>3, <3>2, <4>1
    <3>3. CASE i # 0 /\ i \in 0..k
      <4>1. i - 1 \in 0..k
        BY <3>3
      <4> QED
        BY <2>2, <2>3, <3>3, <4>1
    <3> QED
      BY <3>1, <3>2, <3>3
  <2>6. g = [i \in 0..k+1 |-> IF i = 0 THEN 0 ELSE g[i-1] + s[i]]
    BY <2>4, <2>5, Zenon
  <2> QED
    BY <2>6, Zenon
<1> HIDE DEF Solved
<1>3. R \in SUBSET Nat /\ 0 \in R /\ \A k \in R : k + 1 \in R
  BY <1>1, <1>2
<1>4. n \in R
  BY <1>3, NumberInduction
<1> QED
  BY <1>4 DEF Solved

(* And it adds them up. *)
LEMMA PrefixesAdd ==
  ASSUME NEW s \in Seq(Nat), NEW P,
         P = [i \in 0..Len(s) |-> IF i = 0 THEN 0 ELSE P[i-1] + s[i]]
  PROVE  IsPrefixes(P, s)
<1>1. Len(s) \in Nat /\ \A i \in 1..Len(s) : s[i] \in Nat
  OBVIOUS
<1>2. \A i \in 0..Len(s) : P[i] = IF i = 0 THEN 0 ELSE P[i-1] + s[i]
  OBVIOUS
<1>3. P[0] = 0 /\ \A i \in 1..Len(s) : P[i] = P[i-1] + s[i]
  <2>1. 0 \in 0..Len(s) /\ \A i \in 1..Len(s) : i \in 0..Len(s) /\ i # 0
    BY <1>1
  <2> QED
    BY <1>2, <2>1, Zenon
<1> DEFINE R == {i \in Nat : i <= Len(s) => P[i] \in Int}
<1>4. ASSUME NEW i \in R PROVE i + 1 \in R
  <2>1. CASE i + 1 <= Len(s)
    <3>1. i + 1 \in 1..Len(s) /\ (i + 1) - 1 = i /\ i <= Len(s)
      BY <1>1, <2>1
    <3>2. P[i] \in Int /\ s[i+1] \in Int
      BY <1>1, <3>1
    <3> QED
      BY <1>3, <3>1, <3>2
  <2> QED
    BY <1>1, <2>1
<1>5. R = Nat
  <2>1. 0 \in R
    BY <1>3
  <2> HIDE DEF R
  <2> QED
    BY <1>4, <2>1, NumberInduction DEF R
<1>6. ASSUME NEW i \in 0..Len(s) PROVE P[i] \in Int
  <2>1. i \in Nat /\ i <= Len(s)
    BY <1>1
  <2>2. i \in R
    BY <1>5, <2>1
  <2> QED
    BY <2>1, <2>2
<1> QED
  BY <1>3, <1>6 DEF IsPrefixes

(* The length of atoms i..j of s joined by Sep, two characters long. *)
Length(s, i, j) ==
  LET prefix[n \in 0..Len(s)] == IF n = 0 THEN 0 ELSE prefix[n-1] + s[n]
  IN prefix[j] - prefix[i-1] + 2 * (j - i)

LEMMA JoinedIsLength == \A i, j : Joined(i, j) = Length(atoms, i, j)
BY Zenon DEF Joined, Sep, Length

(* It is the recursion's answer for a range of atoms. *)
LEMMA LengthByPrefixes ==
  ASSUME NEW s \in Seq(Nat)
  PROVE  \E P : /\ IsPrefixes(P, s)
                /\ \A i, j \in Int : Length(s, i, j) = P[j] - P[i-1] + 2 * (j - i)
<1> DEFINE P == CHOOSE f : f = [n \in 0..Len(s) |-> IF n = 0 THEN 0 ELSE f[n-1] + s[n]]
<1>1. P = [n \in 0..Len(s) |-> IF n = 0 THEN 0 ELSE P[n-1] + s[n]]
  <2>1. Len(s) \in Nat
    OBVIOUS
  <2>2. \E f : f = [n \in 0..Len(s) |-> IF n = 0 THEN 0 ELSE f[n-1] + s[n]]
    BY <2>1, PrefixesExist
  <2> QED
    BY <2>2, Zenon
<1>2. ASSUME NEW i \in Int, NEW j \in Int
      PROVE  Length(s, i, j) = P[j] - P[i-1] + 2 * (j - i)
  BY Zenon DEF Length
<1> HIDE DEF P
<1>3. IsPrefixes(P, s)
  BY <1>1, PrefixesAdd
<1> QED
  BY <1>2, <1>3, Zenon

(* What the loop relies on: one atom more is one separator and its length  *)
(* more.                                                                   *)
LEMMA LengthFacts ==
  ASSUME NEW s \in Seq(Nat)
  PROVE  /\ \A i \in 1..Len(s) : Length(s, i, i) = s[i]
         /\ \A i, j \in 1..Len(s) : Length(s, i, j) \in Int
         /\ \A i, j \in 1..Len(s) :
              j > 1 => Length(s, i, j) = Length(s, i, j - 1) + 2 + s[j]
<1>1. PICK P : /\ IsPrefixes(P, s)
               /\ \A i, j \in Int : Length(s, i, j) = P[j] - P[i-1] + 2 * (j - i)
  BY LengthByPrefixes
<1>2. Len(s) \in Nat /\ \A i \in 1..Len(s) : s[i] \in Nat
  OBVIOUS
<1>3. \A i \in 0..Len(s) : P[i] \in Int
  BY <1>1 DEF IsPrefixes
<1>4. \A i \in 1..Len(s) : P[i] = P[i-1] + s[i]
  BY <1>1 DEF IsPrefixes
<1>5. ASSUME NEW i \in 1..Len(s), NEW j \in 1..Len(s)
      PROVE  /\ i - 1 \in 0..Len(s) /\ j - 1 \in 0..Len(s)
             /\ i \in 0..Len(s) /\ j \in 0..Len(s)
  BY <1>2
<1>6. ASSUME NEW i \in 1..Len(s) PROVE Length(s, i, i) = s[i]
  <2>1. Length(s, i, i) = P[i] - P[i-1] + 2 * (i - i)
    BY <1>1
  <2>2. P[i-1] \in Int /\ P[i] = P[i-1] + s[i] /\ s[i] \in Int
    BY <1>2, <1>3, <1>4, <1>5
  <2> QED
    BY <2>1, <2>2
<1>7. ASSUME NEW i \in 1..Len(s), NEW j \in 1..Len(s)
      PROVE  /\ Length(s, i, j) \in Int
             /\ j > 1 => Length(s, i, j) = Length(s, i, j - 1) + 2 + s[j]
  <2>1. /\ Length(s, i, j) = P[j] - P[i-1] + 2 * (j - i)
        /\ Length(s, i, j - 1) = P[j-1] - P[i-1] + 2 * ((j - 1) - i)
    BY <1>1
  <2>2. P[i-1] \in Int /\ P[j] \in Int /\ P[j-1] \in Int
    BY <1>3, <1>5
  <2>3. s[j] \in Int /\ P[j] = P[j-1] + s[j] /\ i \in Int /\ j \in Int
    BY <1>2, <1>4
  <2>4. Length(s, i, j) \in Int
    <3>1. 2 * (j - i) \in Int
      BY <2>3
    <3> QED
      BY <2>1, <2>2, <3>1
  <2>5. Length(s, i, j) = Length(s, i, j - 1) + 2 + s[j]
    <3>1. 2 * ((j - 1) - i) = 2 * (j - i) - 2 /\ 2 * (j - i) \in Int
      BY <2>3
    <3>2. PICK a \in Int, b \in Int, c \in Int, d \in Int, e \in Int :
            a = P[j] /\ b = P[i-1] /\ c = P[j-1] /\ d = 2 * (j - i) /\ e = s[j]
      BY <2>2, <2>3, <3>1
    <3>3. Length(s, i, j) = a - b + d /\ Length(s, i, j - 1) = c - b + (d - 2) /\ a = c + e
      BY <2>1, <2>3, <3>1, <3>2
    <3>4. a - b + d = (c - b + (d - 2)) + 2 + e
      BY <3>3
    <3> QED
      BY <3>2, <3>3, <3>4, Zenon
  <2> QED
    BY <2>4, <2>5
<1> QED
  BY <1>6, <1>7

LEMMA LengthIsNat ==
  ASSUME NEW s \in Seq(Nat), NEW i \in 1..Len(s), NEW j \in i..Len(s)
  PROVE  Length(s, i, j) \in Nat
<1> DEFINE R == {n \in Nat : i + n <= Len(s) => Length(s, i, i + n) \in Nat}
<1>1. Len(s) \in Nat /\ i \in Nat /\ \A k \in 1..Len(s) : s[k] \in Nat
  OBVIOUS
<1>2. 0 \in R
  <2>1. i + 0 = i /\ s[i] \in Nat
    BY <1>1
  <2>2. Length(s, i, i) = s[i]
    BY LengthFacts
  <2> QED
    BY <2>1, <2>2
<1>3. ASSUME NEW n \in R PROVE n + 1 \in R
  <2> SUFFICES ASSUME i + (n + 1) <= Len(s) PROVE Length(s, i, i + (n + 1)) \in Nat
    OBVIOUS
  <2>1. PICK k \in 1..Len(s) : k = i + (n + 1) /\ k > 1 /\ k - 1 = i + n
    BY <1>1
  <2>2. Length(s, i, k) = Length(s, i, k - 1) + 2 + s[k]
    BY <2>1, LengthFacts
  <2>3. Length(s, i, k - 1) \in Nat /\ s[k] \in Nat
    BY <1>1, <2>1
  <2> QED
    BY <2>1, <2>2, <2>3
<1>4. R = Nat
  <2>1. R \in SUBSET Nat
    OBVIOUS
  <2> HIDE DEF R
  <2> QED
    BY <1>2, <1>3, <2>1, NumberInduction
<1>5. j - i \in Nat /\ i + (j - i) = j /\ j <= Len(s)
  BY <1>1
<1>6. j - i \in R
  BY <1>4, <1>5
<1> QED
  BY <1>5, <1>6

(* The overlap: it starts in the chunk, and it fits unless it is one atom. *)
LEMMA TailFits ==
  ASSUME first \in Nat, next \in Nat, first < next
  PROVE  /\ TailFirst \in first..next - 1
         /\ TailFirst = next - 1 \/ Length(atoms, TailFirst, next - 1) <= Overlap
<1> DEFINE Small == {k \in Nat : k \in first..next - 1 /\ Length(atoms, k, next - 1) <= Overlap}
           Good(k) == /\ k = next - 1 \/ Length(atoms, k, next - 1) <= Overlap
                      /\ \A i \in first..next - 1 : Length(atoms, i, next - 1) <= Overlap => k <= i
<1>1. \E k \in first..next - 1 : Good(k)
  <2>1. next - 1 \in first..next - 1
    OBVIOUS
  <2>2. CASE Small = {}
    <3>1. Good(next - 1)
      BY <2>2
    <3> QED
      BY <2>1, <3>1
  <2>3. CASE Small # {}
    <3>1. IsWellFoundedOn(OpToRel(<, Nat), Nat) /\ Small \in SUBSET Nat
      BY NatLessThanWellFounded
    <3>2. PICK k \in Small : \A m \in Small : <<m, k>> \notin OpToRel(<, Nat)
      <4> HIDE DEF Small
      <4> QED
        BY <2>3, <3>1, WFMin
    <3>3. \A m \in Small : ~(m < k)
      BY <3>1, <3>2 DEF OpToRel
    <3>4. k \in first..next - 1 /\ Length(atoms, k, next - 1) <= Overlap
      BY <3>2
    <3>5. ASSUME NEW i \in first..next - 1, Length(atoms, i, next - 1) <= Overlap
          PROVE  k <= i
      <4>1. i \in Small /\ i \in Nat /\ k \in Nat
        BY <3>4, <3>5
      <4> QED
        BY <3>3, <4>1
    <3> QED
      BY <3>4, <3>5
  <2> QED
    BY <2>2, <2>3
<1>2. TailFirst = CHOOSE k \in first..next - 1 : Good(k)
  BY JoinedIsLength, Zenon DEF TailFirst
<1>3. TailFirst \in first..next - 1 /\ Good(TailFirst)
  <2> HIDE DEF Good
  <2> QED
    BY <1>1, <1>2, Zenon
<1> QED
  BY <1>3

-------------------------------------------------------------------------------
(* The inductive invariant: the chunk being built continues the last one   *)
(* as the finished ones continue each other, and its length is bounded.    *)

Most(a, b) == IF a > b THEN a ELSE b

Bound == Most(Target, Most(MaxSize, Overlap) + 2 + MaxSize)

(* A range of atoms starts inside the range before it and ends after it. *)
Follows(b, a) == a.first <= b.first /\ b.first <= a.last /\ a.last < b.last

Chained ==
  \A i \in 1..Len(chunks) :
    /\ chunks[i].first <= chunks[i].last
    /\ i = 1 => chunks[i].first = 1
    /\ i > 1 => Follows(chunks[i], chunks[i-1])

(* The chunk being built, before, while and after the loop runs. *)
Building ==
  LET n == Len(chunks)
      open == [first |-> first, last |-> next - 1]
  IN \/ /\ next = 1 /\ first = 1 /\ len = 0 /\ n = 0
     \/ /\ first < next /\ next <= Len(atoms) + 1
        /\ len = Length(atoms, first, next - 1) /\ len <= Bound
        /\ n = 0 => first = 1
        /\ n > 0 => Follows(open, chunks[n])
     \/ /\ next = Len(atoms) + 2 /\ first = next
        /\ n > 0 /\ chunks[n].last = Len(atoms)

Bounded ==
  \A i \in 1..Len(chunks) : Length(atoms, chunks[i].first, chunks[i].last) <= Bound

ChunkInv == ChunkTypeOK /\ Chained /\ Building /\ Bounded

LEMMA BoundFacts ==
  /\ Bound \in Nat /\ Target <= Bound /\ MaxSize <= Bound
  /\ MaxSize + 2 + MaxSize <= Bound /\ Overlap + 2 + MaxSize <= Bound
BY ChunkerAssumption DEF Bound, Most

LEMMA Elements ==
  ASSUME NEW S, NEW s \in Seq(S)
  PROVE  Len(s) \in Nat /\ \A i \in 1..Len(s) : s[i] \in S
OBVIOUS

LEMMA WiderSeq ==
  ASSUME NEW S, NEW T, S \subseteq T, NEW s \in Seq(S)
  PROVE  s \in Seq(T)
OBVIOUS

LEMMA FunctionIsSeq ==
  ASSUME NEW S, NEW n \in Nat, NEW s \in [1..n -> S]
  PROVE  s \in Seq(S)
OBVIOUS

LEMMA ChunkTypeFacts ==
  ASSUME ChunkTypeOK
  PROVE  /\ atoms \in Seq(Nat) /\ Len(atoms) \in Nat /\ next \in Nat /\ first \in Nat
         /\ Len(chunks) \in Nat
         /\ \A i \in 1..Len(atoms) : atoms[i] \in 1..MaxSize
         /\ \A i \in 1..Len(chunks) :
              chunks[i].first \in 1..Len(atoms) /\ chunks[i].last \in 1..Len(atoms)
<1>1. /\ atoms \in Seq(1..MaxSize) /\ 1..MaxSize \subseteq Nat
      /\ chunks \in Seq([first : 1..Len(atoms), last : 1..Len(atoms)])
  BY ChunkerAssumption DEF ChunkTypeOK
<1>2. atoms \in Seq(Nat) /\ Len(atoms) \in Nat /\ \A i \in 1..Len(atoms) : atoms[i] \in 1..MaxSize
  BY <1>1, Elements, WiderSeq
<1>3. Len(chunks) \in Nat /\ \A i \in 1..Len(chunks) :
        chunks[i] \in [first : 1..Len(atoms), last : 1..Len(atoms)]
  <2> DEFINE R == [first : 1..Len(atoms), last : 1..Len(atoms)]
  <2>1. chunks \in Seq(R)
    BY <1>1
  <2> HIDE DEF R
  <2>2. Len(chunks) \in Nat /\ \A i \in 1..Len(chunks) : chunks[i] \in R
    BY <2>1, Elements
  <2> QED
    BY <2>2 DEF R
<1>4. next \in Nat /\ first \in Nat
  BY <1>2 DEF ChunkTypeOK
<1> QED
  BY <1>2, <1>3, <1>4

(* Closing a chunk, in the loop or after it. *)
LEMMA CloseChunk ==
  ASSUME ChunkInv, first < next, UNCHANGED atoms,
         chunks' = Append(chunks, [first |-> first, last |-> next - 1])
  PROVE  /\ chunks' \in Seq([first : 1..Len(atoms), last : 1..Len(atoms)])
         /\ Len(chunks') = Len(chunks) + 1
         /\ chunks'[Len(chunks) + 1] = [first |-> first, last |-> next - 1]
         /\ Chained' /\ Bounded'
<1> DEFINE n == Len(chunks)
           open == [first |-> first, last |-> next - 1]
<1>1. /\ ChunkTypeOK /\ Chained /\ n \in Nat /\ Len(atoms) \in Nat
      /\ next \in Nat /\ first \in Nat /\ 1 <= first
  BY ChunkTypeFacts DEF ChunkInv, ChunkTypeOK
<1>2. /\ next <= Len(atoms) + 1 /\ len = Length(atoms, first, next - 1) /\ len <= Bound
      /\ n = 0 => first = 1
      /\ n > 0 => Follows(open, chunks[n])
  BY <1>1 DEF ChunkInv, Building
<1>3. open \in [first : 1..Len(atoms), last : 1..Len(atoms)]
  BY <1>1, <1>2
<1>4. /\ chunks' \in Seq([first : 1..Len(atoms), last : 1..Len(atoms)])
      /\ Len(chunks') = n + 1 /\ chunks'[n + 1] = open
      /\ \A i \in 1..n : chunks'[i] = chunks[i]
  <2>1. chunks \in Seq([first : 1..Len(atoms), last : 1..Len(atoms)])
    BY <1>1 DEF ChunkTypeOK
  <2> HIDE DEF open
  <2> QED
    BY <1>3, <2>1 DEF open
<1>5. open.first = first /\ open.last = next - 1
  OBVIOUS
<1> HIDE DEF open, n
<1>0. \A i \in 1..n + 1 : i = n + 1 \/ i \in 1..n
  BY <1>1
<1>6. Chained'
  <2> SUFFICES ASSUME NEW i \in 1..n + 1
               PROVE  /\ chunks'[i].first <= chunks'[i].last
                      /\ i = 1 => chunks'[i].first = 1
                      /\ i > 1 => Follows(chunks'[i], chunks'[i-1])
    BY <1>4 DEF Chained
  <2>1. CASE i = n + 1
    <3>1. chunks'[i] = open /\ open.first <= open.last
      BY <1>1, <1>4, <1>5, <2>1
    <3>2. i = 1 => open.first = 1
      BY <1>1, <1>2, <1>5, <2>1
    <3>3. i > 1 => chunks'[i-1] = chunks[n] /\ n > 0
      BY <1>1, <1>4, <2>1
    <3> QED
      BY <1>2, <3>1, <3>2, <3>3
  <2>2. CASE i \in 1..n
    <3>1. chunks'[i] = chunks[i] /\ (i > 1 => chunks'[i-1] = chunks[i-1])
      <4>1. i > 1 => i - 1 \in 1..n
        BY <1>1, <2>2
      <4> QED
        BY <1>4, <2>2, <4>1
    <3>2. /\ chunks[i].first <= chunks[i].last
          /\ i = 1 => chunks[i].first = 1
          /\ i > 1 => Follows(chunks[i], chunks[i-1])
      BY <1>1, <2>2 DEF Chained, n
    <3> QED
      BY <3>1, <3>2, Zenon
  <2> QED
    BY <1>0, <2>1, <2>2, Zenon
<1>7. Bounded'
  <2>1. ASSUME NEW i \in 1..n + 1
        PROVE  Length(atoms', chunks'[i].first, chunks'[i].last) <= Bound
    <3>1. CASE i = n + 1
      BY <1>2, <1>4, <1>5, <3>1
    <3>2. CASE i \in 1..n
      <4>1. chunks'[i] = chunks[i]
        BY <1>4, <3>2
      <4> QED
        BY <3>2, <4>1 DEF ChunkInv, Bounded, n
    <3> QED
      BY <1>0, <3>1, <3>2, Zenon
  <2> QED
    BY <1>4, <2>1 DEF Bounded
<1> QED
  BY <1>4, <1>6, <1>7 DEF n, open

LEMMA InitChunkInv ==
  ASSUME ChunkInit
  PROVE  ChunkInv
<1>1. PICK n \in 0..MaxAtoms : atoms \in [1..n -> 1..MaxSize]
  BY DEF ChunkInit, Atomized
<1>2. n \in Nat
  BY <1>1, ChunkerAssumption
<1>3. atoms \in Seq(1..MaxSize)
  BY <1>1, <1>2, FunctionIsSeq
<1>4. /\ next = 1 /\ first = 1 /\ len = 0 /\ chunks = << >>
      /\ chunks \in Seq([first : 1..Len(atoms), last : 1..Len(atoms)])
      /\ Len(chunks) = 0 /\ Len(atoms) \in Nat
  BY <1>3 DEF ChunkInit
<1>5. ChunkTypeOK
  BY <1>3, <1>4 DEF ChunkTypeOK
<1>6. Chained /\ Building
  BY <1>4 DEF Chained, Building
<1>7. Bounded
  BY <1>4 DEF Bounded
<1> QED
  BY <1>5, <1>6, <1>7 DEF ChunkInv

LEMMA ExtendStep ==
  ASSUME ChunkInv, Extend
  PROVE  ChunkInv'
<1>1. /\ ChunkTypeOK /\ atoms \in Seq(Nat) /\ Len(atoms) \in Nat /\ next \in Nat /\ first \in Nat
      /\ \A i \in 1..Len(atoms) : atoms[i] \in 1..MaxSize
      /\ Bound \in Nat /\ Target <= Bound /\ MaxSize <= Bound /\ Len(chunks) \in Nat
      /\ MaxSize \in Nat /\ Target \in Nat /\ 1 <= first /\ 1 <= next
  <2>1. ChunkTypeOK
    BY DEF ChunkInv
  <2>2. /\ atoms \in Seq(Nat) /\ Len(atoms) \in Nat /\ next \in Nat /\ first \in Nat
        /\ \A i \in 1..Len(atoms) : atoms[i] \in 1..MaxSize
        /\ Len(chunks) \in Nat
    BY <2>1, ChunkTypeFacts
  <2>3. 1 <= first /\ 1 <= next
    BY <2>1, <2>2 DEF ChunkTypeOK
  <2> QED
    BY <2>1, <2>2, <2>3, BoundFacts, ChunkerAssumption
<1>2. /\ next <= Len(atoms) /\ ~Overfull
      /\ len' = len + JoinCost + atoms[next] /\ next' = next + 1
      /\ atoms' = atoms /\ first' = first /\ chunks' = chunks
  BY DEF Extend
<1>3. next \in 1..Len(atoms) /\ atoms[next] \in 1..MaxSize
  <2>1. next \in Nat /\ Len(atoms) \in Nat /\ 1 <= next /\ next <= Len(atoms)
    BY <1>1, <1>2, Zenon
  <2>2. next \in 1..Len(atoms)
    BY <2>1
  <2> QED
    BY <1>1, <2>2, Zenon
<1>4. Chained' /\ Bounded'
  BY <1>2 DEF ChunkInv, Chained, Bounded
<1>5. first <= next /\ next' - 1 = next
  BY <1>1, <1>2 DEF ChunkInv, Building
<1>6. CASE first < next
  <2>1. JoinCost = 2 /\ len + 2 + atoms[next] <= Target
    <3>1. JoinCost = 2
      BY <1>6 DEF JoinCost, Current, Sep
    <3>2. len \in Int /\ atoms[next] \in Int
      BY <1>1, <1>3 DEF ChunkTypeOK
    <3> QED
      BY <1>1, <1>2, <1>6, <3>1, <3>2 DEF Overfull, Current
  <2>2. /\ len = Length(atoms, first, next - 1)
        /\ Len(chunks) = 0 => first = 1
        /\ Len(chunks) > 0 => Follows([first |-> first, last |-> next - 1], chunks[Len(chunks)])
    BY <1>1, <1>2, <1>6 DEF ChunkInv, Building
  <2>3. first \in 1..Len(atoms) /\ next > 1
    BY <1>1, <1>2, <1>6
  <2>4. Length(atoms, first, next) = Length(atoms, first, next - 1) + 2 + atoms[next]
    BY <1>1, <1>3, <2>3, LengthFacts
  <2>5. len' = Length(atoms, first, next) /\ len' <= Bound /\ len' \in Nat
    <3>1. len \in Nat /\ atoms[next] \in Nat
      BY <1>1, <1>3 DEF ChunkTypeOK
    <3>2. len' = len + 2 + atoms[next]
      BY <1>2, <2>1
    <3>3. len' \in Nat /\ len' <= Target
      BY <2>1, <3>1, <3>2
    <3> QED
      BY <1>1, <2>2, <2>4, <3>2, <3>3
  <2>6. Len(chunks) > 0 => Follows([first |-> first, last |-> next], chunks[Len(chunks)])
    <3> SUFFICES ASSUME Len(chunks) > 0
                 PROVE  Follows([first |-> first, last |-> next], chunks[Len(chunks)])
      OBVIOUS
    <3>1. chunks[Len(chunks)].last \in Int
      BY <1>1, ChunkTypeFacts
    <3> QED
      BY <1>1, <2>2, <3>1 DEF Follows
  <2>7. Building'
    BY <1>1, <1>2, <1>5, <1>6, <2>2, <2>5, <2>6 DEF Building
  <2>8. ChunkTypeOK'
    BY <1>1, <1>2, <1>5, <2>5 DEF ChunkTypeOK
  <2> QED
    BY <1>4, <2>7, <2>8 DEF ChunkInv
<1>7. CASE ~(first < next)
  <2>1. next = 1 /\ first = 1 /\ len = 0 /\ Len(chunks) = 0
    BY <1>1, <1>2, <1>7 DEF ChunkInv, Building
  <2>2. JoinCost = 0
    BY <1>7 DEF JoinCost, Current
  <2>3. Length(atoms, first, next) = atoms[next]
    BY <1>1, <1>3, <2>1, LengthFacts
  <2>4. len' = Length(atoms, first, next) /\ len' <= Bound /\ len' \in Nat
    BY <1>1, <1>2, <1>3, <2>1, <2>2, <2>3
  <2>5. Building'
    BY <1>1, <1>2, <1>5, <2>1, <2>4 DEF Building
  <2>6. ChunkTypeOK'
    BY <1>1, <1>2, <1>5, <2>4 DEF ChunkTypeOK
  <2> QED
    BY <1>4, <2>5, <2>6 DEF ChunkInv
<1> QED
  BY <1>6, <1>7

LEMMA CloseStep ==
  ASSUME ChunkInv, Close
  PROVE  ChunkInv'
<1>1. /\ ChunkTypeOK /\ atoms \in Seq(Nat) /\ Len(atoms) \in Nat /\ next \in Nat /\ first \in Nat
      /\ \A i \in 1..Len(atoms) : atoms[i] \in 1..MaxSize
      /\ Bound \in Nat /\ Overlap + 2 + MaxSize <= Bound /\ MaxSize + 2 + MaxSize <= Bound
      /\ Len(chunks) \in Nat
      /\ MaxSize \in Nat /\ Overlap \in Nat /\ 1 <= first /\ 1 <= next
  <2>1. ChunkTypeOK
    BY DEF ChunkInv
  <2>2. /\ atoms \in Seq(Nat) /\ Len(atoms) \in Nat /\ next \in Nat /\ first \in Nat
        /\ \A i \in 1..Len(atoms) : atoms[i] \in 1..MaxSize
        /\ Len(chunks) \in Nat
    BY <2>1, ChunkTypeFacts
  <2>3. 1 <= first /\ 1 <= next
    BY <2>1, <2>2 DEF ChunkTypeOK
  <2> QED
    BY <2>1, <2>2, <2>3, BoundFacts, ChunkerAssumption
<1>2. /\ next <= Len(atoms) /\ first < next
      /\ chunks' = Append(chunks, [first |-> first, last |-> next - 1])
      /\ first' = TailFirst /\ len' = Length(atoms, TailFirst, next)
      /\ next' = next + 1 /\ atoms' = atoms
  BY JoinedIsLength DEF Close, Overfull, Current
<1>3. /\ first' \in first..next - 1
      /\ first' = next - 1 \/ Length(atoms, first', next - 1) <= Overlap
      /\ len' = Length(atoms, first', next)
  BY <1>1, <1>2, TailFits
<1>4. /\ first' \in 1..Len(atoms) /\ next \in 1..Len(atoms) /\ next - 1 \in 1..Len(atoms)
      /\ next > 1 /\ atoms[next] \in 1..MaxSize /\ atoms[next - 1] \in 1..MaxSize
  BY <1>1, <1>2, <1>3
<1>5. Length(atoms, first', next - 1) <= Most(MaxSize, Overlap)
      /\ Length(atoms, first', next - 1) \in Int
  <2>1. Length(atoms, next - 1, next - 1) = atoms[next - 1]
    BY <1>1, <1>4, LengthFacts
  <2>2. Length(atoms, first', next - 1) \in Int
    BY <1>1, <1>4, LengthFacts
  <2> QED
    BY <1>1, <1>3, <1>4, <2>1, <2>2 DEF Most
<1>6. Length(atoms, first', next) = Length(atoms, first', next - 1) + 2 + atoms[next]
  BY <1>1, <1>4, LengthFacts
<1>7. len' <= Bound /\ len' \in Nat
  <2>1. Most(MaxSize, Overlap) \in Int /\ Most(MaxSize, Overlap) + 2 + MaxSize <= Bound
    BY <1>1 DEF Most
  <2>2. len' = Length(atoms, first', next - 1) + 2 + atoms[next]
    BY <1>3, <1>6
  <2>3. atoms[next] \in Int /\ atoms[next] <= MaxSize
    BY <1>1, <1>4
  <2>4. PICK a \in Int, b \in Int, c \in Int :
          /\ a = Length(atoms, first', next - 1) /\ b = atoms[next]
          /\ c = Most(MaxSize, Overlap)
    BY <1>5, <2>1, <2>3
  <2>5. len' = a + 2 + b /\ a <= c /\ b <= MaxSize /\ c + 2 + MaxSize <= Bound
    BY <1>5, <2>1, <2>2, <2>3, <2>4
  <2>6. MaxSize \in Int /\ Bound \in Int
    BY <1>1
  <2>7. len' <= Bound
    BY <2>5, <2>6
  <2>8. len' \in Nat
    <3>1. first' \in 1..Len(atoms) /\ next \in first'..Len(atoms)
      BY <1>1, <1>2, <1>3, <1>4
    <3> QED
      BY <1>1, <1>3, <3>1, LengthIsNat
  <2> QED
    BY <2>7, <2>8
<1>8. /\ chunks' \in Seq([first : 1..Len(atoms), last : 1..Len(atoms)])
      /\ Len(chunks') = Len(chunks) + 1
      /\ chunks'[Len(chunks')] = [first |-> first, last |-> next - 1]
      /\ Chained' /\ Bounded'
  BY <1>2, CloseChunk
<1>9. Building'
  <2>1. next' - 1 = next /\ first' < next' /\ next' <= Len(atoms') + 1 /\ Len(chunks') > 0
    <3>1. next' = next + 1 /\ first' \in first..next - 1 /\ atoms' = atoms
      BY <1>2, <1>3
    <3>2. Len(chunks') > 0
      BY <1>1, <1>8
    <3> QED
      BY <1>1, <1>2, <3>1, <3>2
  <2>2. Follows([first |-> first', last |-> next], [first |-> first, last |-> next - 1])
    BY <1>1, <1>3 DEF Follows
  <2> QED
    BY <1>2, <1>3, <1>7, <1>8, <2>1, <2>2 DEF Building
<1>10. ChunkTypeOK'
  <2>1. next' \in 1..Len(atoms) + 2 /\ first' \in 1..Len(atoms) + 2
    BY <1>1, <1>2, <1>4
  <2> QED
    BY <1>1, <1>2, <1>7, <1>8, <2>1 DEF ChunkTypeOK
<1> QED
  BY <1>8, <1>9, <1>10 DEF ChunkInv

LEMMA FlushStep ==
  ASSUME ChunkInv, Flush
  PROVE  ChunkInv'
<1>1. /\ ChunkTypeOK /\ Len(atoms) \in Nat /\ next \in Nat /\ first \in Nat /\ Len(chunks) \in Nat
  BY ChunkTypeFacts DEF ChunkInv
<1>2. /\ next = Len(atoms) + 1 /\ first < next
      /\ chunks' = Append(chunks, [first |-> first, last |-> next - 1])
      /\ first' = next + 1 /\ next' = next + 1
      /\ atoms' = atoms /\ len' = len
  BY DEF Flush, Current
<1>3. /\ chunks' \in Seq([first : 1..Len(atoms), last : 1..Len(atoms)])
      /\ Len(chunks') = Len(chunks) + 1
      /\ chunks'[Len(chunks')] = [first |-> first, last |-> next - 1]
      /\ Chained' /\ Bounded'
  BY <1>2, CloseChunk
<1>4. Building'
  BY <1>1, <1>2, <1>3 DEF Building
<1>5. ChunkTypeOK'
  BY <1>1, <1>2, <1>3 DEF ChunkTypeOK
<1> QED
  BY <1>3, <1>4, <1>5 DEF ChunkInv

LEMMA ChunkInvariance == ChunkSpec => []ChunkInv
<1>1. ChunkInit => ChunkInv
  BY InitChunkInv
<1>2. ASSUME ChunkInv, [ChunkNext]_chunkVars PROVE ChunkInv'
  <2>1. CASE UNCHANGED chunkVars
    BY <1>2, <2>1 DEF chunkVars, ChunkInv, ChunkTypeOK, Chained, Building, Bounded
  <2> QED
    BY <1>2, <2>1, ExtendStep, CloseStep, FlushStep DEF ChunkNext
<1> QED
  BY <1>1, <1>2, PTL DEF ChunkSpec

(* The loop and its lists of ranges stay in their types: no range is out of *)
(* the text, and the running length is never negative.                     *)
THEOREM ChunkTypeCorrect == ChunkSpec => []ChunkTypeOK
<1>1. ChunkInv => ChunkTypeOK
  BY DEF ChunkInv
<1> QED
  BY <1>1, ChunkInvariance, PTL

(* The running length on which the packing loop decides is the length of   *)
(* what it will join.                                                      *)
THEOREM ChunkLength == ChunkSpec => []LengthIsExact
<1>1. ChunkInv => LengthIsExact
  BY JoinedIsLength, ChunkTypeFacts DEF ChunkInv, Building, LengthIsExact, Current
<1> QED
  BY <1>1, ChunkInvariance, PTL

(* Every atom is in a chunk, chunks are in order and overlap.              *)
THEOREM ChunksKeepText == ChunkSpec => []NothingIsLost
<1>1. ASSUME ChunkInv PROVE NothingIsLost
  <2> DEFINE n == Len(chunks)
  <2>1. /\ ChunkTypeOK /\ Len(atoms) \in Nat /\ n \in Nat /\ next \in Nat
        /\ \A i \in 1..n : chunks[i].first \in 1..Len(atoms) /\ chunks[i].last \in 1..Len(atoms)
    BY <1>1, ChunkTypeFacts DEF ChunkInv
  <2>2. atoms = << >> => Len(atoms) = 0
    OBVIOUS
  <2>3. Len(atoms) = 0 => atoms = << >>
    BY <2>1, WiderSeq DEF ChunkTypeOK
  <2>4. n > 0 => n \in 1..n /\ Len(atoms) # 0
    BY <2>1
  <2>5. \A i \in 1..n :
          /\ chunks[i].first <= chunks[i].last
          /\ i = 1 => chunks[i].first = 1
          /\ i > 1 => /\ chunks[i-1].first <= chunks[i].first
                      /\ chunks[i].first <= chunks[i-1].last
                      /\ chunks[i-1].last < chunks[i].last
    BY <1>1, Zenon DEF ChunkInv, Chained, Follows
  <2>6. Done => atoms = << >> \/ (n > 0 /\ chunks[n].last = Len(atoms))
    BY <1>1, <2>1 DEF ChunkInv, Building, Done
  <2>7. Done /\ n > 0 => chunks[n].last = Len(atoms)
    BY <2>2, <2>4, <2>6
  <2>8. Done /\ atoms # << >> => n > 0
    BY <2>6
  <2> QED
    BY <2>5, <2>7, <2>8, Zenon DEF NothingIsLost
<1> QED
  BY <1>1, ChunkInvariance, PTL

(* No chunk is longer than the target, or a tail with one atom on top.     *)
THEOREM ChunksBounded == ChunkSpec => []ChunkIsBounded
<1>1. ChunkInv => ChunkIsBounded
  BY JoinedIsLength, Zenon DEF ChunkInv, Bounded, Bound, Most, ChunkIsBounded, Sep
<1> QED
  BY <1>1, ChunkInvariance, PTL
===============================================================================
