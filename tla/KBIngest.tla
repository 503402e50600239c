-------------------------------- MODULE KBIngest --------------------------------
(***************************************************************************)
(* The life of one knowledge base and its documents                        *)
(* (src/backend/src/kb/ingest.py and the lifecycle routes of kb/routes.py).*)
(*                                                                         *)
(* State lives in three stores without a common transaction: the rows of   *)
(* PostgreSQL, the vector collection, and the upload directory.  A request *)
(* runs step by step, and the ingest tasks it scheduled run after its      *)
(* response, one after the other, in the same process.  An actor is a      *)
(* request followed by its tasks.  Sessions are SQLAlchemy's: what is read *)
(* stays a snapshot until the commit, the commit writes only the columns   *)
(* that changed since, and an UPDATE that finds no row rolls back.         *)
(***************************************************************************)
EXTENDS Integers, FiniteSets, FiniteSetsExt

CONSTANTS
  Docs,        \* document ids; an id is never reused
  UrlDocs,     \* those fetched from a URL: no file, contents may change
  Actors,      \* slots for requests: at most |Actors| in flight
  MaxChunks,   \* bound: chunks of a document
  OwnCfg,      \* the knowledge base has an embedding configuration of its own
  SameDim,     \* its vectors are as long as those of the owner's configuration
  MaxRebuilds, \* bound: rebuild requests
  MaxFaults    \* bound: crashes and failures of the vector store

ASSUME KBAssumption ==
  /\ IsFiniteSet(Docs) /\ UrlDocs \subseteq Docs /\ "none" \notin Docs
  /\ Actors # {}
  /\ MaxChunks \in Nat \ {0} /\ MaxFaults \in Nat /\ MaxRebuilds \in Nat
  /\ OwnCfg \in BOOLEAN /\ SameDim \in BOOLEAN

VARIABLES
  kb,       \* the KB row: st ("none", "live", "gone") and chunks_count
  docs,     \* the Document rows: st and chunks_count
  coll,     \* the vector collection exists
  vec,      \* its points: chunk index |-> embedding space, or "none"
  files,    \* uploads on disk
  actors,   \* requests and their background tasks
  faults,   \* crashes and store failures so far
  rebuilds  \* rebuild requests so far

vars == <<kb, docs, coll, vec, files, actors, faults, rebuilds>>

LiveStatus == {"pending", "ingesting", "done", "failed"}
Row == [st : {"none", "gone"} \cup LiveStatus, n : Nat]
Spaces == {"kb", "user"}
NoPoints == [i \in 1..MaxChunks |-> "none"]

Live(d) == docs[d].st \in LiveStatus
KBLive == kb.st = "live"

Idle == [pc |-> "idle", doc |-> "none", queue |-> {}, cfg |-> "none", new |-> 0,
         prev |-> 0, docs |-> [d \in Docs |-> [st |-> "none", n |-> 0]], count |-> 0]

At(a, pc) == actors[a].pc = pc
Goto(a, pc) == actors' = [actors EXCEPT ![a].pc = pc]
End(a) == actors' = [actors EXCEPT ![a] = Idle]

(* Run a step of actor a that reads the rows into its session. *)
Load(a, rec) ==
  actors' = [actors EXCEPT ![a] = [rec EXCEPT !.docs = docs, !.count = kb.count]]

Fails == faults < MaxFaults /\ faults' = faults + 1
Works == UNCHANGED faults

-------------------------------------------------------------------------------
(* The ORM session of actor a *)

(* A column assigned `new' is written only if it differs from what was read. *)
Written(read, new, current) == IF new = read THEN current ELSE new

WrittenRow(a, d, row) ==
  [st |-> Written(actors[a].docs[d].st, row.st, docs[d].st),
   n  |-> Written(actors[a].docs[d].n, row.n, docs[d].n)]

(* The commit would UPDATE a row that is no longer there. *)
StaleDoc(a, d, row) == row # actors[a].docs[d] /\ ~Live(d)
StaleKB(a, count) == count # actors[a].count /\ ~KBLive

SetCount(a, count) ==
  kb' = [kb EXCEPT !.count = Written(actors[a].count, count, @)]

(* DELETE of the KB row, with the cascade to its documents. *)
RemoveKB ==
  /\ kb' = [kb EXCEPT !.st = "gone"]
  /\ docs' = [d \in Docs |-> IF Live(d) THEN [st |-> "gone", n |-> 0] ELSE docs[d]]

-------------------------------------------------------------------------------
(* POST /api/kbs: commit the row, then create the collection or undo.  A   *)
(* creation that fails may have made the collection, but not its index.    *)

CreateKB(a) ==
  /\ At(a, "idle") /\ kb.st = "none"
  /\ kb' = [st |-> "live", count |-> 0]
  /\ Goto(a, "mkcoll")
  /\ UNCHANGED <<docs, coll, vec, files, faults>>

CreateCollection(a) ==
  /\ At(a, "mkcoll")
  /\ \/ Works /\ coll' = TRUE /\ End(a)
     \/ Fails /\ coll' \in {coll, TRUE} /\ Goto(a, "undo")
  /\ UNCHANGED <<kb, docs, vec, files>>

UndoCreate(a) ==
  /\ At(a, "undo")
  /\ RemoveKB
  /\ End(a)
  /\ UNCHANGED <<coll, vec, files, faults>>

(* POST /documents: read and save the file, commit the row, schedule the   *)
(* ingest.                                                                 *)

Fresh(d) == /\ docs[d].st = "none" /\ d \notin files
            /\ \A b \in Actors : actors[b].doc # d

Upload(a, d) ==
  /\ At(a, "idle") /\ KBLive /\ Fresh(d)
  /\ actors' = [actors EXCEPT ![a] = [Idle EXCEPT !.doc = d,
                    !.pc = IF d \in UrlDocs THEN "insert" ELSE "save"]]
  /\ UNCHANGED <<kb, docs, coll, vec, files, faults>>

SaveUpload(a) ==
  /\ At(a, "save")
  /\ files' = files \cup {actors[a].doc}
  /\ Goto(a, "insert")
  /\ UNCHANGED <<kb, docs, coll, vec, faults>>

(* The foreign key refuses the row of a purged KB.  Without any embedding  *)
(* configuration the route answers 422 after the commit.                   *)
InsertDoc(a) ==
  LET d == actors[a].doc
      schedule(cfg) == actors' = [actors EXCEPT ![a] = [Idle EXCEPT !.pc = "queue",
                                                  !.queue = {d}, !.cfg = cfg]]
  IN /\ At(a, "insert")
     /\ \/ ~KBLive /\ End(a) /\ UNCHANGED docs
        \/ /\ KBLive
           /\ docs' = [docs EXCEPT ![d] = [st |-> "pending", n |-> 0]]
           /\ IF OwnCfg THEN schedule("kb") ELSE schedule("user") \/ End(a)
     /\ UNCHANGED <<kb, coll, vec, files, faults>>

(* DELETE /documents/{id}: chunks, then the row and the count, then the file. *)

DeleteDoc(a, d) ==
  /\ At(a, "idle") /\ KBLive /\ Live(d)
  /\ Load(a, [Idle EXCEPT !.pc = "dropChunks", !.doc = d])
  /\ UNCHANGED <<kb, docs, coll, vec, files, faults>>

(* Mutant: the upload is removed before the row is. *)
DropChunksAndFile(a) ==
  /\ At(a, "dropChunks")
  /\ Works /\ vec' = [vec EXCEPT ![actors[a].doc] = NoPoints]
  /\ files' = files \ {actors[a].doc}
  /\ Goto(a, "deleteRow")
  /\ UNCHANGED <<kb, docs, coll>>

(* Mutant: the chunks stay in the collection. *)
DropNoChunks(a) ==
  /\ At(a, "dropChunks")
  /\ Goto(a, "deleteRow")
  /\ UNCHANGED <<kb, docs, coll, vec, files, faults>>

(* delete_document_chunks swallows whatever the store raises. *)
DropChunks(a) ==
  /\ At(a, "dropChunks")
  /\ \/ Works /\ vec' = [vec EXCEPT ![actors[a].doc] = NoPoints]
     \/ Fails /\ UNCHANGED vec
  /\ Goto(a, "deleteRow")
  /\ UNCHANGED <<kb, docs, coll, files>>

(* Mutant: the count of the KB is not adjusted. *)
DeleteRowOnly(a) ==
  /\ At(a, "deleteRow")
  /\ docs' = [docs EXCEPT ![actors[a].doc] = [st |-> "gone", n |-> 0]]
  /\ Goto(a, "unlink")
  /\ UNCHANGED <<kb, coll, vec, files, faults>>

DeleteRow(a) ==
  LET d == actors[a].doc
      n == actors[a].docs[d].n
      count == IF n = 0 THEN actors[a].count
               ELSE IF actors[a].count > n THEN actors[a].count - n ELSE 0
  IN /\ At(a, "deleteRow")
     /\ IF StaleKB(a, count)
          THEN End(a) /\ UNCHANGED <<kb, docs>>
          ELSE /\ docs' = [docs EXCEPT ![d] = [st |-> "gone", n |-> 0]]
               /\ SetCount(a, count)
               /\ Goto(a, "unlink")
     /\ UNCHANGED <<coll, vec, files, faults>>

Unlink(a) ==
  /\ At(a, "unlink")
  /\ files' = files \ {actors[a].doc}
  /\ End(a)
  /\ UNCHANGED <<kb, docs, coll, vec, faults>>

(* POST /rebuild: reset the rows, drop and create the collection, ingest   *)
(* every document again, with the owner's configuration when there is one. *)

Rebuild(a) ==
  /\ At(a, "idle") /\ KBLive
  /\ rebuilds < MaxRebuilds /\ rebuilds' = rebuilds + 1
  /\ Load(a, [Idle EXCEPT !.pc = "reset"])
  /\ UNCHANGED <<kb, docs, coll, vec, files, faults>>

Reset(a) ==
  LET zero == [st |-> "pending", n |-> 0]
      mine == {d \in Docs : actors[a].docs[d].st \in LiveStatus}
  IN /\ At(a, "reset")
     /\ IF StaleKB(a, 0) \/ \E d \in mine : StaleDoc(a, d, zero)
          THEN End(a) /\ UNCHANGED <<kb, docs>>
          ELSE /\ docs' = [d \in Docs |-> IF d \in mine /\ Live(d)
                                          THEN WrittenRow(a, d, zero) ELSE docs[d]]
               /\ SetCount(a, 0)
               /\ \E cfg \in {"user", "none"} :
                    actors' = [actors EXCEPT ![a] = [Idle EXCEPT !.pc = "dropColl",
                                                      !.queue = mine, !.cfg = cfg]]
     /\ UNCHANGED <<coll, vec, files, faults>>

DropCollection(a) ==
  /\ At(a, "dropColl")
  /\ \/ /\ Works /\ coll' = FALSE /\ vec' = [d \in Docs |-> NoPoints]
        /\ Goto(a, "makeColl")
     \/ Fails /\ UNCHANGED <<coll, vec>> /\ End(a)
  /\ UNCHANGED <<kb, docs, files>>

RecreateCollection(a) ==
  /\ At(a, "makeColl")
  /\ \/ Works /\ coll' = TRUE /\ Goto(a, "queue")
     \/ Fails /\ coll' \in {coll, TRUE} /\ End(a)
  /\ UNCHANGED <<kb, docs, vec, files>>

(* purge_kb: the collection, then the rows, then the upload directory. *)

PurgeCollection(a) ==
  /\ At(a, "idle") /\ KBLive
  /\ coll' = FALSE /\ vec' = [d \in Docs |-> NoPoints]
  /\ Goto(a, "purgeRow")
  /\ UNCHANGED <<kb, docs, files, faults>>

PurgeRow(a) ==
  /\ At(a, "purgeRow")
  /\ RemoveKB
  /\ Goto(a, "purgeFiles")
  /\ UNCHANGED <<coll, vec, files, faults>>

PurgeFiles(a) ==
  /\ At(a, "purgeFiles")
  /\ files' = {}
  /\ End(a)
  /\ UNCHANGED <<kb, docs, coll, vec, faults>>

-------------------------------------------------------------------------------
(* ingest_document, once for each queued document *)

(* Between two tasks: what is left to ingest, and with what. *)
Without(a, d) ==
  actors' = [actors EXCEPT ![a] = [Idle EXCEPT !.pc = "queue", !.cfg = actors[a].cfg,
                                               !.queue = actors[a].queue \ {d}]]

NextDoc(a) ==
  /\ At(a, "queue")
  /\ \/ actors[a].queue = {} /\ End(a)
     \/ \E d \in actors[a].queue :
          IF Live(d) THEN Load(a, [actors[a] EXCEPT !.doc = d, !.pc = "claim"])
                     ELSE Without(a, d)
  /\ UNCHANGED <<kb, docs, coll, vec, files, faults>>

(* A commit that fails raises out of the task and ends the whole queue. *)
Claim(a) ==
  LET d == actors[a].doc
      row == [actors[a].docs[d] EXCEPT !.st = "ingesting"]
  IN /\ At(a, "claim")
     /\ IF StaleDoc(a, d, row)
          THEN End(a) /\ UNCHANGED docs
          ELSE /\ docs' = IF Live(d) THEN [docs EXCEPT ![d] = WrittenRow(a, d, row)]
                                     ELSE docs
               /\ actors' = [actors EXCEPT ![a] = [@ EXCEPT !.pc = "parse", !.prev = row.n,
                                                    !.docs = Idle.docs, !.count = 0]]
     /\ UNCHANGED <<kb, coll, vec, files, faults>>

(* Chunks a document may be cut into: a file always gives the same. *)
Yields(d) == IF d \in UrlDocs THEN 1..MaxChunks ELSE {MaxChunks}

(* Mutant: the task returns when parsing fails, and marks nothing. *)
ParseOrReturn(a) ==
  LET d == actors[a].doc
  IN /\ At(a, "parse")
     /\ \/ /\ d \in UrlDocs \/ d \in files
           /\ \E n \in Yields(d) :
                actors' = [actors EXCEPT ![a].pc = "upsert", ![a].new = n]
        \/ Without(a, d)
     /\ UNCHANGED <<kb, docs, coll, vec, files, faults>>

(* Fetch or read, parse, chunk, embed: any of them may fail. *)
Parse(a) ==
  LET d == actors[a].doc
  IN /\ At(a, "parse")
     /\ \/ /\ d \in UrlDocs \/ d \in files
           /\ \E n \in Yields(d) :
                actors' = [actors EXCEPT ![a].pc = "upsert", ![a].new = n]
        \/ actors' = [actors EXCEPT ![a].pc = "finish", ![a].new = 0]
     /\ UNCHANGED <<kb, docs, coll, vec, files, faults>>

(* The configuration handed over, else the KB's, else the owner's. *)
SpaceOf(cfg) == IF cfg = "user" \/ ~OwnCfg THEN "user" ELSE "kb"

(* Chunk ids depend on the document and the index: points are overwritten. *)
Upsert(a) ==
  LET d == actors[a].doc
      space == SpaceOf(actors[a].cfg)
      fits == coll /\ (SameDim \/ space = SpaceOf("none"))
      failed == actors' = [actors EXCEPT ![a].pc = "finish", ![a].new = 0]
  IN /\ At(a, "upsert")
     /\ \/ /\ fits /\ Works
           /\ vec' = [vec EXCEPT ![d] = [i \in 1..MaxChunks |->
                                          IF i <= actors[a].new THEN space ELSE @[i]]]
           /\ Goto(a, "finish")
        \/ ~fits /\ Works /\ failed /\ UNCHANGED vec
        \/ fits /\ Fails /\ failed /\ UNCHANGED vec
     /\ UNCHANGED <<kb, docs, coll, files>>

FinishRead(a) ==
  LET d == actors[a].doc
  IN /\ At(a, "finish")
     /\ IF Live(d)
          THEN Load(a, [actors[a] EXCEPT !.pc = "finalize"])
          ELSE Without(a, d)
     /\ UNCHANGED <<kb, docs, coll, vec, files, faults>>

(* Mutant: the row is merged, inserted again when it is missing. *)
FinalizeByMerge(a) ==
  /\ At(a, "finalize")
  /\ docs' = [docs EXCEPT ![actors[a].doc] = [st |-> "done", n |-> actors[a].new]]
  /\ Without(a, actors[a].doc)
  /\ UNCHANGED <<kb, coll, vec, files, faults>>

Finalize(a) ==
  LET d == actors[a].doc
      new == actors[a].new
      row == [st |-> IF new > 0 THEN "done" ELSE "failed", n |-> new]
      count == IF new > 0 THEN actors[a].count - actors[a].prev + new
               ELSE actors[a].count
  IN /\ At(a, "finalize")
     /\ IF StaleDoc(a, d, row) \/ StaleKB(a, count)
          THEN End(a) /\ UNCHANGED <<kb, docs>>
          ELSE /\ docs' = IF Live(d) THEN [docs EXCEPT ![d] = WrittenRow(a, d, row)]
                                     ELSE docs
               /\ SetCount(a, count)
               /\ Without(a, d)
     /\ UNCHANGED <<coll, vec, files, faults>>

-------------------------------------------------------------------------------

(* The process dies; nothing resumes its requests at startup. *)
Crash(a) ==
  /\ ~At(a, "idle")
  /\ Fails
  /\ End(a)
  /\ UNCHANGED <<kb, docs, coll, vec, files>>

Init ==
  /\ kb = [st |-> "none", count |-> 0]
  /\ docs = [d \in Docs |-> [st |-> "none", n |-> 0]]
  /\ coll = FALSE
  /\ vec = [d \in Docs |-> NoPoints]
  /\ files = {}
  /\ actors = [a \in Actors |-> Idle]
  /\ faults = 0
  /\ rebuilds = 0

Request(a) ==
  \/ CreateKB(a) \/ PurgeCollection(a)
  \/ \E d \in Docs : Upload(a, d) \/ DeleteDoc(a, d)

Work(a) ==
  \/ CreateCollection(a) \/ UndoCreate(a)
  \/ SaveUpload(a) \/ InsertDoc(a)
  \/ DropChunks(a) \/ DeleteRow(a) \/ Unlink(a)
  \/ Reset(a) \/ DropCollection(a) \/ RecreateCollection(a)
  \/ PurgeRow(a) \/ PurgeFiles(a)
  \/ NextDoc(a) \/ Claim(a) \/ Parse(a) \/ Upsert(a) \/ FinishRead(a) \/ Finalize(a)

Next ==
  \E a \in Actors :
    \/ Rebuild(a)
    \/ (Request(a) \/ Work(a) \/ Crash(a)) /\ UNCHANGED rebuilds

Spec == Init /\ [][Next]_vars

(* The event loop runs whatever was started; clients owe nothing. *)
FairSpec == Spec /\ \A a \in Actors : WF_vars(Work(a) /\ UNCHANGED rebuilds)

-------------------------------------------------------------------------------
(* Properties *)

TypeOK ==
  /\ kb \in [st : {"none", "live", "gone"}, count : Int]
  /\ docs \in [Docs -> Row]
  /\ coll \in BOOLEAN
  /\ vec \in [Docs -> [1..MaxChunks -> {"none"} \cup Spaces]]
  /\ files \subseteq Docs \ UrlDocs
  /\ faults \in 0..MaxFaults /\ rebuilds \in 0..MaxRebuilds
  /\ \A a \in Actors :
       /\ actors[a].doc \in Docs \cup {"none"}
       /\ actors[a].queue \subseteq Docs
       /\ actors[a].cfg \in {"none"} \cup Spaces
       /\ actors[a].docs \in [Docs -> Row]
       /\ actors[a].new \in 0..MaxChunks /\ actors[a].prev \in Nat
       /\ actors[a].count \in Int

AllIdle == \A a \in Actors : At(a, "idle")

Points(d) == {i \in 1..MaxChunks : vec[d][i] # "none"}

(* A document row has its knowledge base, and its upload when it came from *)
(* a file, whatever runs or crashes: the upload writes the file before the *)
(* row, deletions remove it after (rebuild_kb reads it again), and no      *)
(* upload that races a purge leaves a row.                                 *)
DocHasKBAndFile ==
  \A d \in Docs : Live(d) => KBLive /\ d \in files \cup UrlDocs

(* An ingest or a reset that outlives a deletion never brings a row back.   *)
DeletedStaysDeleted ==
  [][/\ kb.st = "gone" => kb'.st = "gone"
     /\ \A d \in Docs : docs[d].st = "gone" => docs'[d].st = "gone"]_vars

===============================================================================
