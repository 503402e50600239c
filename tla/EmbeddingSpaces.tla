---------------------------- MODULE EmbeddingSpaces ----------------------------
(***************************************************************************)
(* Which embedding model a knowledge base lives in (src/backend/src:       *)
(* settings_user/routes.py, models.py, kb_resolvers.py, gate.py;           *)
(* kb/routes.py create_kb, upload_document, rebuild; kb/ingest.py;         *)
(* infra/embedding.py, infra/vector_store.py).                             *)
(*                                                                         *)
(* A space is an embedding model at an endpoint; it has a dimension.  The  *)
(* KB's own space wins over its user's, which wins over the environment's. *)
(* Requests of several users interleave between their awaits, and the      *)
(* server may be killed.  Keys, names and texts are left out, and a        *)
(* document is only whether a KB has any; how documents are processed and  *)
(* deleted is in KBIngest.                                                 *)
(***************************************************************************)
EXTENDS Integers, FiniteSets

CONSTANTS
  Users,        \* all of them may edit every KB
  KBs,          \* ids of knowledge bases to come
  Spaces,       \* embedding models
  Wide,         \* those of dimension 2; the others have dimension 1
  EnvSpace,     \* the model of the environment
  ByokRequired, \* settings.byok_required
  Requests,     \* slots for requests in flight
  None          \* absent value

(* A row of kbs, and a collection of the vector store. *)
Row == [owner : Users, size : {1, 2}, own : Spaces \cup {None}, docs : BOOLEAN]

Collection == [dim : {1, 2}, spaces : SUBSET Spaces]

ASSUME EmbeddingSpacesAssumption ==
  /\ Wide \subseteq Spaces /\ EnvSpace \in Spaces
  /\ ByokRequired \in BOOLEAN
  /\ None \notin Spaces \cup Users \cup KBs
  /\ None \notin Row \cup Collection

VARIABLES
  envKnown,    \* the dimension of the environment's model is in settings or table
  cfg,         \* users: the model of their saved embedding settings
  declared,    \* users: embedding_dim, what the client that saved them said, 0 for none
  kbs,         \* kbs rows: owner, vector_size, own settings, whether it has documents
  collections, \* vector collections: dimension, spaces of the vectors in it
  probed,      \* _probed_dims, of the process
  requests,
  rebuilt,     \* history: KBs that have been rebuilt
  cut          \* history: KBs whose creation a crash, or rebuild the store, cut off

vars == <<envKnown, cfg, declared, kbs, collections, probed, requests, rebuilt, cut>>

Dim(e) == IF e \in Wide THEN 2 ELSE 1

Idle == [phase |-> "idle", user |-> None, kb |-> None, space |-> None, own |-> None, size |-> 0]

Init ==
  /\ envKnown \in BOOLEAN
  /\ cfg = [u \in Users |-> None]
  /\ declared = [u \in Users |-> 0]
  /\ kbs = [k \in KBs |-> None]
  /\ collections = [k \in KBs |-> None]
  /\ probed = None
  /\ requests = [r \in Requests |-> Idle]
  /\ rebuilt = {}
  /\ cut = {}

Rows == {k \in KBs : kbs[k] # None}

Become(r, q) == requests' = [requests EXCEPT ![r] = q]

Finish(r) == Become(r, Idle)

-------------------------------------------------------------------------------
(* Resolution *)

(* Mutant of Resolved: the caller's settings win over the KB's. *)
ResolvedByUser(own, u) == IF cfg[u] # None THEN cfg[u] ELSE own

(* resolve_kb_embedding: None falls back to the environment, or is refused. *)
Resolved(own, u) == IF own # None THEN own ELSE cfg[u]

(* What embeds when nothing is configured. *)
Embedder(space) == IF space = None THEN EnvSpace ELSE space

(* require_user_embedding lets through whose model is configured, or all.  *)
Gate(u) == ByokRequired => cfg[u] # None

(* get_vector_size() for the environment, 0 when it raises: the last probe *)
(* stands in for a model it does not know - whatever model that probed.    *)
EnvSize == IF envKnown THEN Dim(EnvSpace) ELSE IF probed # None THEN probed ELSE 0

(* The user's KBs that embed by the user's settings. *)
Dependent(u) == {k \in Rows : kbs[k].owner = u /\ kbs[k].own = None}

-------------------------------------------------------------------------------
(* Settings *)

(* Mutant of Conflict: settings are saved unseen. *)
ConflictIgnored(u, size) == FALSE

(* A KB of the user would change its dimension. *)
Conflict(u, size) == \E k \in Dependent(u) : kbs[k].size # size

(* PUT /embedding with a model and the dimension the client declares for   *)
(* it, which nothing probes: 409 on a conflict, else on to the commit.     *)
SaveEmbedding(r, u, e, size) ==
  /\ requests[r] = Idle
  /\ ~Conflict(u, size)
  /\ Become(r, [Idle EXCEPT !.phase = "commit", !.user = u, !.space = e, !.size = size])
  /\ UNCHANGED <<envKnown, cfg, declared, kbs, collections, probed, rebuilt, cut>>

(* DELETE /embedding: the same check against the environment, left out     *)
(* when its dimension is not known.                                        *)
ClearEmbedding(r, u) ==
  /\ requests[r] = Idle
  /\ EnvSize = 0 \/ ~Conflict(u, EnvSize)
  /\ Become(r, [Idle EXCEPT !.phase = "commit", !.user = u])
  /\ UNCHANGED <<envKnown, cfg, declared, kbs, collections, probed, rebuilt, cut>>

CommitSettings(r) ==
  /\ requests[r].phase = "commit"
  /\ LET q == requests[r]
     IN  /\ cfg' = [cfg EXCEPT ![q.user] = q.space]
         /\ declared' = [declared EXCEPT ![q.user] = q.size]
  /\ Finish(r)
  /\ UNCHANGED <<envKnown, kbs, collections, probed, rebuilt, cut>>

-------------------------------------------------------------------------------
(* Creating a knowledge base *)

(* POST /api/kbs with or without settings of its own.  What is configured  *)
(* is probed; the environment is only when its size cannot be told.        *)
CreateKB(r, u, k, own) ==
  /\ requests[r] = Idle
  /\ kbs[k] = None /\ collections[k] = None /\ k \notin rebuilt
  /\ \A q \in Requests : requests[q].kb # k
  /\ own # None \/ Gate(u)
  /\ LET space == Resolved(own, u)
         known == space = None /\ EnvSize # 0
     IN  Become(r, [phase |-> IF known THEN "insert" ELSE "probe", user |-> u, kb |-> k,
                    space |-> space, own |-> own, size |-> IF known THEN EnvSize ELSE 0])
  /\ UNCHANGED <<envKnown, cfg, declared, kbs, collections, probed, rebuilt, cut>>

(* probe_vector_size: the answer is kept for the whole process. *)
Probe(r) ==
  /\ requests[r].phase = "probe"
  /\ LET size == Dim(Embedder(requests[r].space))
     IN  /\ probed' = size
         /\ Become(r, [requests[r] EXCEPT !.phase = "insert", !.size = size])
  /\ UNCHANGED <<envKnown, cfg, declared, kbs, collections, rebuilt, cut>>

(* 502 *)
ProbeFails(r) ==
  /\ requests[r].phase = "probe"
  /\ Finish(r)
  /\ UNCHANGED <<envKnown, cfg, declared, kbs, collections, probed, rebuilt, cut>>

InsertRow(r) ==
  /\ requests[r].phase = "insert"
  /\ LET q == requests[r]
     IN  kbs' = [kbs EXCEPT ![q.kb] = [owner |-> q.user, size |-> q.size, own |-> q.own,
                                       docs |-> FALSE]]
  /\ Become(r, [requests[r] EXCEPT !.phase = "collection"])
  /\ UNCHANGED <<envKnown, cfg, declared, collections, probed, rebuilt, cut>>

Empty(size) == [dim |-> size, spaces |-> {}]

(* A collection that is there already is left as it is. *)
Made(r) ==
  [collections EXCEPT ![requests[r].kb] = IF @ = None THEN Empty(requests[r].size) ELSE @]

CreateCollection(r) ==
  /\ requests[r].phase = "collection"
  /\ collections' = Made(r)
  /\ Finish(r)
  /\ UNCHANGED <<envKnown, cfg, declared, kbs, probed, rebuilt, cut>>

(* Mutant of RollBack: the row stays. *)
RollBackNothing(k) == UNCHANGED kbs

RollBack(k) == kbs' = [kbs EXCEPT ![k] = None]

(* "So the user doesn't get a half-broken record".  When it is the payload *)
(* index that fails, the collection has been made and stays.               *)
CreateCollectionFails(r) ==
  /\ requests[r].phase = "collection"
  /\ collections' \in {collections, Made(r)}
  /\ RollBack(requests[r].kb)
  /\ Finish(r)
  /\ UNCHANGED <<envKnown, cfg, declared, probed, rebuilt, cut>>

-------------------------------------------------------------------------------
(* Filling a knowledge base *)

(* POST /{kb}/documents by owner or editor, with the caller's settings if  *)
(* the KB has none.  The row of the document is committed before a missing *)
(* configuration is refused.                                               *)
Upload(r, u, k) ==
  /\ requests[r] = Idle
  /\ k \in Rows
  /\ kbs[k].own # None \/ Gate(u)
  /\ kbs' = [kbs EXCEPT ![k].docs = TRUE]
  /\ LET space == Resolved(kbs[k].own, u)
     IN  IF space = None THEN UNCHANGED requests
         ELSE Become(r, [Idle EXCEPT !.phase = "ingest", !.user = u, !.kb = k, !.space = space])
  /\ UNCHANGED <<envKnown, cfg, declared, collections, probed, rebuilt, cut>>

(* POST /{kb}/rebuild by the owner: the collection is dropped ...          *)
Rebuild(r, k) ==
  /\ requests[r] = Idle
  /\ k \in Rows
  /\ collections' = [collections EXCEPT ![k] = None]
  /\ rebuilt' = rebuilt \cup {k}
  /\ LET row == kbs[k]
     IN  Become(r, [Idle EXCEPT !.phase = IF row.docs THEN "refill" ELSE "remake",
                                !.user = row.owner, !.kb = k, !.space = cfg[row.owner],
                                !.size = row.size])
  /\ UNCHANGED <<envKnown, cfg, declared, kbs, probed, cut>>

(* ... and made anew in the size of the row, and all documents go through  *)
(* ingest with the settings of the owner, even when the KB has its own.    *)
Remake(r) ==
  /\ requests[r].phase \in {"remake", "refill"}
  /\ collections' = Made(r)
  /\ IF requests[r].phase = "refill"
     THEN Become(r, [requests[r] EXCEPT !.phase = "claim"]) ELSE Finish(r)
  /\ UNCHANGED <<envKnown, cfg, declared, kbs, probed, rebuilt, cut>>

(* The store fails to make it, or its index; the documents stay as they    *)
(* are.                                                                    *)
RemakeFails(r) ==
  /\ requests[r].phase \in {"remake", "refill"}
  /\ collections' \in {collections, Made(r)}
  /\ cut' = cut \cup {requests[r].kb}
  /\ Finish(r)
  /\ UNCHANGED <<envKnown, cfg, declared, kbs, probed, rebuilt>>

(* ingest_document resolves what its caller did not: the KB's settings,    *)
(* then its owner's.  A KB that is gone took its documents with it.        *)
Claim(r) ==
  /\ requests[r].phase = "claim"
  /\ requests[r].kb \in Rows
  /\ LET q == requests[r]
     IN  Become(r, [q EXCEPT !.phase = "ingest",
                             !.space = IF q.space = None THEN Resolved(kbs[q.kb].own, q.user)
                                       ELSE q.space])
  /\ UNCHANGED <<envKnown, cfg, declared, kbs, collections, probed, rebuilt, cut>>

Orphaned(r) ==
  /\ requests[r].phase = "claim"
  /\ requests[r].kb \notin Rows
  /\ Finish(r)
  /\ UNCHANGED <<envKnown, cfg, declared, kbs, collections, probed, rebuilt, cut>>

(* The vectors go in if the store has the collection in their dimension;   *)
(* the document fails otherwise.                                           *)
Ingest(r) ==
  /\ requests[r].phase = "ingest"
  /\ LET k == requests[r].kb
         e == Embedder(requests[r].space)
     IN  IF collections[k] # None /\ collections[k].dim = Dim(e)
         THEN collections' = [collections EXCEPT ![k].spaces = @ \cup {e}]
         ELSE UNCHANGED collections
  /\ Finish(r)
  /\ UNCHANGED <<envKnown, cfg, declared, kbs, probed, rebuilt, cut>>

-------------------------------------------------------------------------------
(* Specification *)

(* A request is about to make the collection. *)
Making(k) == \E r \in Requests : /\ requests[r].phase \in {"collection", "remake", "refill"}
                                 /\ requests[r].kb = k

(* The server is killed: requests and ingests in flight are lost, and with *)
(* the process its last probe.                                             *)
Crash ==
  /\ requests' = [r \in Requests |-> Idle]
  /\ probed' = None
  /\ cut' = cut \cup {k \in KBs : Making(k)}
  /\ UNCHANGED <<envKnown, cfg, declared, kbs, collections, rebuilt>>

Settings(r) ==
  \/ \E u \in Users : ClearEmbedding(r, u)
  \/ \E u \in Users, e \in Spaces, size \in {1, 2} : SaveEmbedding(r, u, e, size)
  \/ CommitSettings(r)

Create(r) ==
  \/ \E u \in Users, k \in KBs, own \in Spaces \cup {None} : CreateKB(r, u, k, own)
  \/ Probe(r) \/ ProbeFails(r) \/ InsertRow(r)
  \/ CreateCollection(r) \/ CreateCollectionFails(r)

Fill(r) ==
  \/ \E u \in Users, k \in KBs : Upload(r, u, k)
  \/ \E k \in KBs : Rebuild(r, k)
  \/ Remake(r) \/ RemakeFails(r)
  \/ Claim(r) \/ Orphaned(r) \/ Ingest(r)

Next ==
  \/ \E r \in Requests : Settings(r) \/ Create(r) \/ Fill(r)
  \/ Crash

Spec == Init /\ [][Next]_vars

-------------------------------------------------------------------------------
(* Properties *)

TypeOK ==
  /\ envKnown \in BOOLEAN
  /\ cfg \in [Users -> Spaces \cup {None}]
  /\ declared \in [Users -> 0..2]
  /\ \A k \in Rows : kbs[k] \in Row
  /\ \A k \in KBs : collections[k] # None => collections[k] \in Collection
  /\ probed \in {None, 1, 2}
  /\ rebuilt \subseteq KBs /\ cut \subseteq KBs
  /\ \A r \in Requests :
       /\ requests[r].phase \in {"idle", "commit", "probe", "insert", "collection",
                                "remake", "refill", "claim", "ingest"}
       /\ requests[r].user \in Users \cup {None} /\ requests[r].kb \in KBs \cup {None}
       /\ {requests[r].space, requests[r].own} \subseteq Spaces \cup {None}
       /\ requests[r].size \in 0..2

(* "KB-level cfg wins over user-level cfg", whoever uploads and whatever   *)
(* settings are saved meanwhile: a KB with settings of its own has their   *)
(* dimension, and until it is rebuilt only vectors of their model, the one *)
(* its queries are embedded by (resolve_kb_embedding, create_kb,           *)
(* upload_document, ingest_document).                                      *)
OwnSpaceOnly ==
  \A k \in Rows : kbs[k].own # None =>
    /\ kbs[k].size = Dim(kbs[k].own)
    /\ collections[k] # None /\ k \notin rebuilt => collections[k].spaces \subseteq {kbs[k].own}

(* "So the user doesn't get a half-broken record": a row has a collection, *)
(* of the row's vector size, whenever no request is about to make it,      *)
(* whichever of the store's steps fail and whatever else is in flight -    *)
(* unless the server died before it was made or the store failed a rebuild *)
(* (create_kb, rebuild_kb).                                                *)
RowHasCollection ==
  \A k \in Rows \ cut :
    \/ Making(k)
    \/ collections[k] # None /\ collections[k].dim = kbs[k].size

(* "1) KB has full embedding cfg -> use KB cfg", at ingest and search: the *)
(* same of rebuilt KBs too.  rebuild_kb does not hold it.                  *)
OwnSpaceAlways ==
  \A k \in Rows : kbs[k].own # None /\ collections[k] # None =>
    collections[k].spaces \subseteq {kbs[k].own}
===============================================================================
