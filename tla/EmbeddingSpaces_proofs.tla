------------------------ MODULE EmbeddingSpaces_proofs ------------------------
(***************************************************************************)
(* EmbeddingSpaces for all numbers of users, knowledge bases, models and   *)
(* requests in flight.                                                     *)
(***************************************************************************)
EXTENDS MCEmbeddingSpaces, FiniteSetTheorems, TLAPS

Phases == {"idle", "commit", "probe", "insert", "collection", "remake", "refill", "claim",
           "ingest"}

MakingPhases == {"collection", "remake", "refill"}

Request == [phase : Phases, user : Users \cup {None}, kb : KBs \cup {None},
            space : Spaces \cup {None}, own : Spaces \cup {None}, size : 0 .. 2]

(* A request that creates has a user and an id, one that fills an id. *)
Filled(q) ==
  /\ q.phase \in {"commit", "probe", "insert", "remake", "refill", "claim"} => q.user \in Users
  /\ q.phase \in MakingPhases \cup {"probe", "insert", "claim", "ingest"} => q.kb \in KBs
  /\ q.phase \in MakingPhases \cup {"insert"} => q.size \in {1, 2}

Types ==
  /\ envKnown \in BOOLEAN
  /\ cfg \in [Users -> Spaces \cup {None}]
  /\ declared \in [Users -> 0 .. 2]
  /\ kbs \in [KBs -> Row \cup {None}]
  /\ collections \in [KBs -> Collection \cup {None}]
  /\ probed \in {None, 1, 2}
  /\ rebuilt \in SUBSET KBs
  /\ cut \in SUBSET KBs
  /\ requests \in [Requests -> Request]
  /\ \A r \in Requests : Filled(requests[r])

(* Until its row is inserted a KB is known to the request that makes it    *)
(* alone.                                                                  *)
Alone(r) ==
  requests[r].phase \in {"probe", "insert"} =>
    /\ kbs[requests[r].kb] = None /\ collections[requests[r].kb] = None
    /\ \A s \in Requests : s # r => requests[s].kb # requests[r].kb

(* It is probed with the settings it will have. *)
ProbesOwn(r) ==
  requests[r].own # None =>
    /\ requests[r].phase = "probe" => requests[r].space = requests[r].own
    /\ requests[r].phase = "insert" => requests[r].size = Dim(requests[r].own)

(* Only a rebuild leaves the resolution to ingest; what else is on its way *)
(* to a KB is in the KB's space.                                           *)
CarriesOwn(r) ==
  LET k == requests[r].kb
  IN  /\ requests[r].phase \in {"remake", "refill", "claim"} => k \in rebuilt
      /\ requests[r].phase = "ingest" /\ k \in Rows /\ kbs[k].own # None /\ k \notin rebuilt
           => requests[r].space = kbs[k].own

IInv ==
  /\ Types
  /\ \A r \in Requests : Alone(r) /\ ProbesOwn(r) /\ CarriesOwn(r)
  /\ OwnSpaceOnly

-------------------------------------------------------------------------------

LEMMA DimType == \A e : Dim(e) \in {1, 2}
BY DEF Dim

LEMMA IdleType == Idle \in Request /\ Filled(Idle) /\ Idle.phase = "idle"
                  /\ Idle.own = None /\ Idle.kb = None
BY DEF Idle, Request, Phases, Filled, MakingPhases

LEMMA ResolvedType ==
  ASSUME Types, NEW own \in Spaces \cup {None}, NEW u \in Users
  PROVE  Resolved(own, u) \in Spaces \cup {None} /\ (own # None => Resolved(own, u) = own)
BY DEF Types, Resolved

(* What becomes of one request leaves the others as they are. *)
LEMMA BecomeOthers ==
  ASSUME Types, NEW r \in Requests, NEW q \in Request, Filled(q), Become(r, q)
  PROVE  /\ requests' \in [Requests -> Request]
         /\ \A s \in Requests : Filled(requests'[s])
         /\ requests'[r] = q
         /\ \A s \in Requests : s # r => requests'[s] = requests[s]
BY DEF Types, Become

(* A step that changes no row, no collection and no history holds the      *)
(* invariant if the request it moves does.                                 *)
LEMMA RequestStep ==
  ASSUME IInv, NEW r \in Requests, NEW q \in Request, Filled(q), Become(r, q),
         UNCHANGED <<envKnown, kbs, collections, rebuilt, cut>>,
         cfg' \in [Users -> Spaces \cup {None}], declared' \in [Users -> 0 .. 2],
         probed' \in {None, 1, 2},
         q.kb = None \/ q.kb = requests[r].kb
           \/ \A s \in Requests : requests[s].phase \in {"probe", "insert"} =>
                                   requests[s].kb # q.kb,
         Alone(r)', ProbesOwn(r)', CarriesOwn(r)'
  PROVE  IInv'
<1>1. /\ requests' \in [Requests -> Request]
      /\ \A s \in Requests : Filled(requests'[s])
      /\ requests'[r] = q
      /\ \A s \in Requests : s # r => requests'[s] = requests[s]
  BY BecomeOthers DEF IInv
<1>2. Types'
  BY <1>1, Zenon DEF IInv, Types, Filled, MakingPhases
<1>3. ASSUME NEW s \in Requests, s # r PROVE Alone(s)'
  <2>1. requests[s].phase \in {"probe", "insert"} => requests[s].kb \in KBs
    BY DEF IInv, Types, Filled, MakingPhases
  <2> QED
    BY <1>1, <1>3, <2>1, EmbeddingSpacesAssumption DEF IInv, Alone
<1>4. ASSUME NEW s \in Requests, s # r PROVE ProbesOwn(s)' /\ CarriesOwn(s)'
  BY <1>1, <1>4 DEF IInv, ProbesOwn, CarriesOwn, Rows
<1>5. OwnSpaceOnly'
  BY DEF IInv, OwnSpaceOnly, Rows
<1> QED
  BY <1>2, <1>3, <1>4, <1>5, Zenon DEF IInv

(* A request that has ended, or has only settings to commit, claims nothing. *)
LEMMA Harmless ==
  ASSUME NEW r \in Requests, requests'[r].phase \in {"idle", "commit", "collection"},
         requests'[r].own = None \/ requests'[r].phase = "collection"
  PROVE  Alone(r)' /\ ProbesOwn(r)' /\ CarriesOwn(r)'
BY DEF Alone, ProbesOwn, CarriesOwn

(* A request that ends without a trace. *)
LEMMA FinishStep ==
  ASSUME IInv, NEW r \in Requests, Finish(r),
         UNCHANGED <<envKnown, kbs, collections, rebuilt, probed, cut>>,
         cfg' \in [Users -> Spaces \cup {None}], declared' \in [Users -> 0 .. 2]
  PROVE  IInv'
<1>1. Become(r, Idle) /\ requests'[r] = Idle
  BY BecomeOthers, IdleType DEF Finish, IInv
<1>2. Alone(r)' /\ ProbesOwn(r)' /\ CarriesOwn(r)'
  BY <1>1, IdleType, Harmless
<1>3. probed' \in {None, 1, 2}
  BY DEF IInv, Types
<1> QED
  BY <1>1, <1>2, <1>3, IdleType, RequestStep

LEMMA SettingsIInv == ASSUME IInv, NEW r \in Requests, Settings(r) PROVE IInv'
<1> USE EmbeddingSpacesAssumption
<1>1. ASSUME NEW q \in Request, NEW u \in Users, Become(r, q),
             q.phase = "commit", q.user = u, q.own = None, q.kb = None,
             UNCHANGED <<envKnown, cfg, declared, kbs, collections, probed, rebuilt, cut>>
      PROVE  IInv'
  <2>1. Filled(q)
    BY <1>1 DEF Filled, MakingPhases
  <2>2. requests'[r] = q
    BY <1>1, <2>1, BecomeOthers DEF IInv
  <2>3. Alone(r)' /\ ProbesOwn(r)' /\ CarriesOwn(r)'
    BY <1>1, <2>2, Harmless
  <2>4. /\ cfg' \in [Users -> Spaces \cup {None}] /\ declared' \in [Users -> 0 .. 2]
        /\ probed' \in {None, 1, 2}
    BY <1>1 DEF IInv, Types
  <2> QED
    BY <1>1, <2>1, <2>3, <2>4, RequestStep
<1>2. ASSUME NEW u \in Users, ClearEmbedding(r, u) PROVE IInv'
  <2> DEFINE q == [Idle EXCEPT !.phase = "commit", !.user = u]
  <2>1. q \in Request
    BY IdleType DEF Request, Phases
  <2>2. q.phase = "commit" /\ q.user = u /\ q.own = None /\ q.kb = None
    BY DEF Idle
  <2>3. /\ Become(r, q)
        /\ UNCHANGED <<envKnown, cfg, declared, kbs, collections, probed, rebuilt, cut>>
    BY <1>2 DEF ClearEmbedding
  <2> HIDE DEF q
  <2> QED
    BY <1>1, <2>1, <2>2, <2>3
<1>3. ASSUME NEW u \in Users, NEW e \in Spaces, NEW size \in {1, 2},
             SaveEmbedding(r, u, e, size)
      PROVE  IInv'
  <2> DEFINE q == [Idle EXCEPT !.phase = "commit", !.user = u, !.space = e, !.size = size]
  <2>1. q \in Request
    <3>1. size \in 0 .. 2
      OBVIOUS
    <3> QED
      BY <3>1, IdleType DEF Request, Phases
  <2>2. q.phase = "commit" /\ q.user = u /\ q.own = None /\ q.kb = None
    BY DEF Idle
  <2>3. /\ Become(r, q)
        /\ UNCHANGED <<envKnown, cfg, declared, kbs, collections, probed, rebuilt, cut>>
    BY <1>3 DEF SaveEmbedding
  <2> HIDE DEF q
  <2> QED
    BY <1>1, <2>1, <2>2, <2>3
<1>4. ASSUME CommitSettings(r) PROVE IInv'
  <2>1. requests[r] \in Request
    BY DEF IInv, Types
  <2>2. cfg' \in [Users -> Spaces \cup {None}]
    BY <1>4, <2>1 DEF CommitSettings, IInv, Types, Request
  <2>3. declared' \in [Users -> 0 .. 2]
    BY <1>4, <2>1 DEF CommitSettings, IInv, Types, Request
  <2> QED
    BY <1>4, <2>2, <2>3, FinishStep DEF CommitSettings
<1> QED
  BY <1>2, <1>3, <1>4 DEF Settings

LEMMA CreateKBIInv ==
  ASSUME IInv, NEW r \in Requests, NEW u \in Users, NEW k \in KBs,
         NEW own \in Spaces \cup {None}, CreateKB(r, u, k, own)
  PROVE  IInv'
<1> DEFINE space == Resolved(own, u)
           known == space = None /\ EnvSize # 0
           q == [phase |-> IF known THEN "insert" ELSE "probe", user |-> u, kb |-> k,
                 space |-> space, own |-> own, size |-> IF known THEN EnvSize ELSE 0]
<1>1. /\ Become(r, q)
      /\ kbs[k] = None /\ collections[k] = None /\ \A s \in Requests : requests[s].kb # k
      /\ UNCHANGED <<envKnown, cfg, declared, kbs, collections, probed, rebuilt, cut>>
  BY DEF CreateKB
<1>2. space \in Spaces \cup {None} /\ (own # None => space = own)
  BY ResolvedType DEF IInv
<1>3. EnvSize \in 0 .. 2
  BY DimType DEF EnvSize, IInv, Types
<1>4. q \in Request
  <2> HIDE DEF space
  <2> QED
    BY <1>2, <1>3 DEF Request, Phases
<1>5. Filled(q) /\ q.phase \in {"insert", "probe"} /\ q.kb = k /\ q.own = own
      /\ (own # None => q.phase = "probe" /\ q.space = own)
  <2> HIDE DEF space
  <2> QED
    BY <1>2, <1>3 DEF Filled, MakingPhases
<1> HIDE DEF q
<1>6. requests'[r] = q /\ \A s \in Requests : s # r => requests'[s] = requests[s]
  BY <1>1, <1>4, <1>5, BecomeOthers DEF IInv
<1>7. Alone(r)' /\ ProbesOwn(r)' /\ CarriesOwn(r)'
  BY <1>1, <1>5, <1>6 DEF Alone, ProbesOwn, CarriesOwn
<1>8. /\ cfg' \in [Users -> Spaces \cup {None}] /\ declared' \in [Users -> 0 .. 2]
      /\ probed' \in {None, 1, 2}
  BY <1>1 DEF IInv, Types
<1> QED
  BY <1>1, <1>4, <1>5, <1>7, <1>8, RequestStep

LEMMA ProbeIInv == ASSUME IInv, NEW r \in Requests, Probe(r) PROVE IInv'
<1> DEFINE p == requests[r]
           size == Dim(Embedder(p.space))
           q == [p EXCEPT !.phase = "insert", !.size = size]
<1>1. /\ p.phase = "probe" /\ Become(r, q) /\ probed' = size
      /\ UNCHANGED <<envKnown, cfg, declared, kbs, collections, rebuilt, cut>>
  BY DEF Probe
<1>2. p \in Request /\ Filled(p) /\ size \in {1, 2}
  BY DimType DEF IInv, Types
<1>3. p.own # None => size = Dim(p.own)
  BY <1>1, EmbeddingSpacesAssumption DEF IInv, ProbesOwn, Embedder
<1> HIDE DEF size
<1>4. q \in Request /\ Filled(q) /\ q.phase = "insert" /\ q.kb = p.kb /\ q.own = p.own
      /\ q.size = size
  <2>1. size \in 0 .. 2
    BY <1>2
  <2>2. q \in Request
    BY <1>2, <2>1 DEF Request, Phases
  <2>3. q.phase = "insert" /\ q.kb = p.kb /\ q.own = p.own /\ q.user = p.user /\ q.size = size
    BY <1>2 DEF Request
  <2> HIDE DEF q
  <2> QED
    BY <1>1, <1>2, <2>2, <2>3 DEF Filled, MakingPhases
<1> HIDE DEF q
<1>5. requests'[r] = q /\ \A s \in Requests : s # r => requests'[s] = requests[s]
  BY <1>1, <1>4, BecomeOthers DEF IInv
<1>6. Alone(r)'
  BY <1>1, <1>4, <1>5 DEF IInv, Alone
<1>7. ProbesOwn(r)' /\ CarriesOwn(r)'
  BY <1>3, <1>4, <1>5 DEF ProbesOwn, CarriesOwn
<1>8. /\ cfg' \in [Users -> Spaces \cup {None}] /\ declared' \in [Users -> 0 .. 2]
      /\ probed' \in {None, 1, 2}
  BY <1>1, <1>2 DEF IInv, Types
<1> QED
  BY <1>1, <1>4, <1>6, <1>7, <1>8, RequestStep

LEMMA InsertRowIInv == ASSUME IInv, NEW r \in Requests, InsertRow(r) PROVE IInv'
<1> DEFINE p == requests[r]
           k == p.kb
           row == [owner |-> p.user, size |-> p.size, own |-> p.own, docs |-> FALSE]
           q == [p EXCEPT !.phase = "collection"]
<1>1. /\ p.phase = "insert" /\ Become(r, q) /\ kbs' = [kbs EXCEPT ![k] = row]
      /\ UNCHANGED <<envKnown, cfg, declared, collections, probed, rebuilt, cut>>
  BY DEF InsertRow
<1>2. p \in Request /\ Filled(p) /\ k \in KBs /\ p.user \in Users /\ p.size \in {1, 2}
  BY <1>1 DEF IInv, Types, Filled, MakingPhases
<1>3. /\ collections[k] = None /\ (p.own # None => p.size = Dim(p.own))
      /\ \A s \in Requests : s # r => requests[s].kb # k
  BY <1>1 DEF IInv, Alone, ProbesOwn
<1>4. row \in Row
  BY <1>2 DEF Row, Request
<1>5. q \in Request /\ Filled(q) /\ q.phase = "collection"
  BY <1>2 DEF Request, Phases, Filled, MakingPhases
<1>6. row.own = p.own /\ row.size = p.size
  OBVIOUS
<1> HIDE DEF q, row
<1>7. /\ requests' \in [Requests -> Request]
      /\ \A s \in Requests : Filled(requests'[s])
      /\ requests'[r] = q
      /\ \A s \in Requests : s # r => requests'[s] = requests[s]
  BY <1>1, <1>5, BecomeOthers DEF IInv
<1>8. /\ kbs' \in [KBs -> Row \cup {None}] /\ kbs'[k] = row
      /\ \A j \in KBs : j # k => kbs'[j] = kbs[j]
  BY <1>1, <1>2, <1>4 DEF IInv, Types
<1>9. Types'
  BY <1>1, <1>7, <1>8, Zenon DEF IInv, Types, Filled, MakingPhases
<1>10. ASSUME NEW s \in Requests, s # r PROVE Alone(s)' /\ ProbesOwn(s)' /\ CarriesOwn(s)'
  <2>1. requests[s].phase \in {"probe", "insert", "claim", "ingest"} => requests[s].kb \in KBs
    BY DEF IInv, Types, Filled, MakingPhases
  <2>2. Alone(s)'
    <3>1. SUFFICES ASSUME requests[s].phase \in {"probe", "insert"}
                   PROVE  Alone(s)'
      BY <1>7, <1>10 DEF Alone
    <3>2. q.kb = k
      BY DEF q
    <3> QED
      BY <1>1, <1>3, <1>7, <1>8, <1>10, <2>1, <3>1, <3>2 DEF IInv, Alone
  <2>3. ProbesOwn(s)'
    BY <1>7, <1>10 DEF IInv, ProbesOwn
  <2>4. CarriesOwn(s)'
    BY <1>1, <1>3, <1>7, <1>8, <1>10, <2>1 DEF IInv, CarriesOwn, Rows
  <2> QED
    BY <2>2, <2>3, <2>4
<1>11. Alone(r)' /\ ProbesOwn(r)' /\ CarriesOwn(r)'
  BY <1>5, <1>7, Harmless
<1>12. OwnSpaceOnly'
  BY <1>1, <1>2, <1>3, <1>6, <1>8 DEF IInv, OwnSpaceOnly, Rows
<1> QED
  BY <1>9, <1>10, <1>11, <1>12, Zenon DEF IInv

(* Ends and makes, or unmakes, the row's collection. *)
LEMMA CollectionIInv ==
  ASSUME IInv, NEW r \in Requests, CreateCollection(r) \/ CreateCollectionFails(r) PROVE IInv'
<1> DEFINE k == requests[r].kb
<1>1. /\ requests[r].phase = "collection" /\ Become(r, Idle)
      /\ UNCHANGED <<envKnown, cfg, declared, probed, rebuilt, cut>>
  BY DEF CreateCollection, CreateCollectionFails, Finish
<1>2. k \in KBs /\ requests[r].size \in {1, 2}
  BY <1>1 DEF IInv, Types, Filled, MakingPhases
<1>3. /\ requests' \in [Requests -> Request]
      /\ \A s \in Requests : Filled(requests'[s])
      /\ requests'[r] = Idle
      /\ \A s \in Requests : s # r => requests'[s] = requests[s]
  BY <1>1, IdleType, BecomeOthers DEF IInv
<1>4. Empty(requests[r].size) \in Collection /\ Empty(requests[r].size).spaces = {}
  BY <1>2 DEF Empty, Collection
<1>5. /\ kbs' \in [KBs -> Row \cup {None}]
      /\ collections' \in [KBs -> Collection \cup {None}]
      /\ \A j \in KBs : kbs'[j] \in {kbs[j], None}
      /\ \A j \in KBs : collections'[j] = collections[j]
                         \/ (j = k /\ collections'[j].spaces = {})
      /\ \A j \in KBs : j # k => collections'[j] = collections[j]
  <2>1. CASE CreateCollection(r)
    BY <1>2, <1>4, <2>1 DEF CreateCollection, Made, IInv, Types
  <2>2. CASE CreateCollectionFails(r)
    BY <1>2, <1>4, <2>2 DEF CreateCollectionFails, Made, RollBack, IInv, Types
  <2> QED
    BY <2>1, <2>2
<1>6. Types'
  BY <1>1, <1>3, <1>5, Zenon DEF IInv, Types, Filled, MakingPhases
<1>7. ASSUME NEW s \in Requests, s # r PROVE Alone(s)' /\ ProbesOwn(s)' /\ CarriesOwn(s)'
  <2>1. requests[s].phase \in {"probe", "insert", "claim", "ingest"} => requests[s].kb \in KBs
    BY DEF IInv, Types, Filled, MakingPhases
  <2>2. Alone(s)'
    <3>1. SUFFICES ASSUME requests[s].phase \in {"probe", "insert"}
                   PROVE  Alone(s)'
      BY <1>3, <1>7 DEF Alone
    <3>2. requests[s].kb # k /\ kbs[requests[s].kb] = None /\ collections[requests[s].kb] = None
          /\ \A t \in Requests : t # s => requests[t].kb # requests[s].kb
      BY <1>7, <3>1 DEF IInv, Alone
    <3>3. \A t \in Requests : t # s => requests'[t].kb # requests[s].kb
      BY <1>3, <2>1, <3>1, <3>2, IdleType, EmbeddingSpacesAssumption
    <3> QED
      BY <1>3, <1>5, <1>7, <2>1, <3>1, <3>2, <3>3 DEF Alone
  <2>3. ProbesOwn(s)'
    BY <1>3, <1>7 DEF IInv, ProbesOwn
  <2>4. CarriesOwn(s)'
    BY <1>1, <1>3, <1>5, <1>7, <2>1 DEF IInv, CarriesOwn, Rows
  <2> QED
    BY <2>2, <2>3, <2>4
<1>8. Alone(r)' /\ ProbesOwn(r)' /\ CarriesOwn(r)'
  BY <1>3, IdleType, Harmless
<1>9. OwnSpaceOnly'
  BY <1>1, <1>5 DEF IInv, OwnSpaceOnly, Rows
<1> QED
  BY <1>6, <1>7, <1>8, <1>9, Zenon DEF IInv

(* The two requests that fill a KB whose row they found: no request of     *)
(* another that creates is concerned.                                      *)
LEMMA NotNew ==
  ASSUME IInv, NEW k \in Rows
  PROVE  \A s \in Requests : requests[s].phase \in {"probe", "insert"} => requests[s].kb # k
BY DEF IInv, Alone, Rows

LEMMA UploadIInv ==
  ASSUME IInv, NEW r \in Requests, NEW u \in Users, NEW k \in KBs, Upload(r, u, k) PROVE IInv'
<1> DEFINE space == Resolved(kbs[k].own, u)
           q == [Idle EXCEPT !.phase = "ingest", !.user = u, !.kb = k, !.space = space]
<1>1. /\ k \in Rows /\ requests[r] = Idle
      /\ kbs' = [kbs EXCEPT ![k].docs = TRUE]
      /\ UNCHANGED <<envKnown, cfg, declared, collections, probed, rebuilt, cut>>
      /\ IF space = None THEN UNCHANGED requests ELSE Become(r, q)
  BY DEF Upload
<1>2. kbs[k] \in Row
  BY <1>1 DEF IInv, Types, Rows
<1>3. kbs[k].own \in Spaces \cup {None}
  BY <1>2 DEF Row
<1>4. space \in Spaces \cup {None} /\ (kbs[k].own # None => space = kbs[k].own)
  BY <1>3, ResolvedType DEF IInv
<1> HIDE DEF space
<1>5. q \in Request
  BY <1>4, IdleType DEF Request, Phases
<1>6. q.phase = "ingest" /\ q.kb = k /\ q.space = space /\ q.own = None
  BY DEF Idle
<1>7. Filled(q)
  BY <1>6 DEF Filled, MakingPhases
<1> HIDE DEF q
<1>8. /\ requests' \in [Requests -> Request]
      /\ \A s \in Requests : Filled(requests'[s])
      /\ requests'[r] \in {Idle, q}
      /\ \A s \in Requests : s # r => requests'[s] = requests[s]
  <2>1. CASE space = None
    BY <1>1, <2>1 DEF IInv, Types
  <2>2. CASE Become(r, q)
    BY <1>5, <1>7, <2>2, BecomeOthers DEF IInv
  <2> QED
    BY <1>1, <2>1, <2>2
<1>9. /\ kbs' \in [KBs -> Row \cup {None}]
      /\ \A j \in KBs : j # k => kbs'[j] = kbs[j]
      /\ kbs'[k].own = kbs[k].own /\ kbs'[k].size = kbs[k].size
  BY <1>1, <1>2 DEF IInv, Types, Row
<1>10. Types'
  BY <1>1, <1>8, <1>9, Zenon DEF IInv, Types, Filled, MakingPhases
<1>11. ASSUME NEW s \in Requests, s # r PROVE Alone(s)' /\ ProbesOwn(s)' /\ CarriesOwn(s)'
  <2>1. requests[s].phase \in {"probe", "insert", "claim", "ingest"} => requests[s].kb \in KBs
    BY DEF IInv, Types, Filled, MakingPhases
  <2>2. Alone(s)'
    <3>1. SUFFICES ASSUME requests[s].phase \in {"probe", "insert"}
                   PROVE  Alone(s)'
      BY <1>8, <1>11 DEF Alone
    <3>2. requests[s].kb # k
      BY <1>1, <3>1, NotNew
    <3>3. \A t \in Requests : t # s => requests'[t].kb # requests[s].kb
      <4>1. requests'[r].kb # requests[s].kb
        BY <1>6, <1>8, <2>1, <3>1, <3>2, IdleType, EmbeddingSpacesAssumption
      <4> QED
        BY <1>8, <3>1, <4>1 DEF IInv, Alone
    <3> QED
      BY <1>1, <1>8, <1>9, <1>11, <2>1, <3>1, <3>2, <3>3 DEF IInv, Alone
  <2>3. ProbesOwn(s)'
    BY <1>8, <1>11 DEF IInv, ProbesOwn
  <2>4. CarriesOwn(s)'
    BY <1>1, <1>8, <1>9, <1>11, <2>1 DEF IInv, CarriesOwn, Rows
  <2> QED
    BY <2>2, <2>3, <2>4
<1>12. Alone(r)' /\ ProbesOwn(r)' /\ CarriesOwn(r)'
  <2>1. CASE requests'[r] = Idle
    BY <2>1, IdleType, Harmless
  <2>2. CASE requests'[r] = q
    BY <1>1, <1>4, <1>6, <1>9, <2>2 DEF Alone, ProbesOwn, CarriesOwn
  <2> QED
    BY <1>8, <2>1, <2>2
<1>13. OwnSpaceOnly'
  BY <1>1, <1>9 DEF IInv, OwnSpaceOnly, Rows
<1> QED
  BY <1>10, <1>11, <1>12, <1>13, Zenon DEF IInv

LEMMA RebuildIInv ==
  ASSUME IInv, NEW r \in Requests, NEW k \in KBs, Rebuild(r, k) PROVE IInv'
<1> DEFINE u == kbs[k].owner
           phase == IF kbs[k].docs THEN "refill" ELSE "remake"
           q == [Idle EXCEPT !.phase = phase, !.user = u, !.kb = k, !.space = cfg[u],
                             !.size = kbs[k].size]
<1>1. /\ k \in Rows /\ requests[r] = Idle
      /\ collections' = [collections EXCEPT ![k] = None]
      /\ rebuilt' = rebuilt \cup {k}
      /\ UNCHANGED <<envKnown, cfg, declared, kbs, probed, cut>>
      /\ Become(r, q)
  BY DEF Rebuild
<1>2. kbs[k] \in Row
  BY <1>1 DEF IInv, Types, Rows
<1>3. u \in Users /\ kbs[k].size \in {1, 2}
  BY <1>2 DEF Row
<1>4. cfg[u] \in Spaces \cup {None}
  BY <1>3 DEF IInv, Types
<1>5. phase \in {"refill", "remake"}
  OBVIOUS
<1> HIDE DEF u, phase
<1>6. /\ q \in Request
      /\ q.phase = phase /\ q.kb = k /\ q.user = u /\ q.own = None /\ q.size = kbs[k].size
  <2>1. kbs[k].size \in 0 .. 2
    BY <1>3
  <2> QED
    BY <1>3, <1>4, <1>5, <2>1, IdleType DEF Request, Phases, Idle
<1>7. Filled(q)
  BY <1>3, <1>5, <1>6 DEF Filled, MakingPhases
<1> HIDE DEF q
<1>8. /\ requests' \in [Requests -> Request]
      /\ \A s \in Requests : Filled(requests'[s])
      /\ requests'[r] = q
      /\ \A s \in Requests : s # r => requests'[s] = requests[s]
  BY <1>1, <1>6, <1>7, BecomeOthers DEF IInv
<1>10. /\ collections' \in [KBs -> Collection \cup {None}]
       /\ collections'[k] = None
       /\ \A j \in KBs : j # k => collections'[j] = collections[j]
       /\ rebuilt' \in SUBSET KBs
  BY <1>1 DEF IInv, Types
<1>11. Types'
  BY <1>1, <1>8, <1>10, Zenon DEF IInv, Types, Filled, MakingPhases
<1>12. ASSUME NEW s \in Requests, s # r PROVE Alone(s)' /\ ProbesOwn(s)' /\ CarriesOwn(s)'
  <2>1. requests[s].phase \in {"probe", "insert", "claim", "ingest"} => requests[s].kb \in KBs
    BY DEF IInv, Types, Filled, MakingPhases
  <2>2. Alone(s)'
    <3>1. SUFFICES ASSUME requests[s].phase \in {"probe", "insert"}
                   PROVE  Alone(s)'
      BY <1>8, <1>12 DEF Alone
    <3>2. requests[s].kb # k
      BY <1>1, <3>1, NotNew
    <3>3. \A t \in Requests : t # s => requests'[t].kb # requests[s].kb
      <4>1. requests'[r].kb # requests[s].kb
        BY <1>6, <1>8, <3>2
      <4> QED
        BY <1>8, <3>1, <4>1 DEF IInv, Alone
    <3> QED
      BY <1>1, <1>8, <1>10, <1>12, <2>1, <3>1, <3>2, <3>3 DEF IInv, Alone
  <2>3. ProbesOwn(s)'
    BY <1>8, <1>12 DEF IInv, ProbesOwn
  <2>4. CarriesOwn(s)'
    BY <1>1, <1>8, <1>12 DEF IInv, CarriesOwn, Rows
  <2> QED
    BY <2>2, <2>3, <2>4
<1>13. Alone(r)' /\ ProbesOwn(r)' /\ CarriesOwn(r)'
  BY <1>1, <1>5, <1>6, <1>8 DEF Alone, ProbesOwn, CarriesOwn
<1>14. OwnSpaceOnly'
  BY <1>1, <1>10 DEF IInv, OwnSpaceOnly, Rows
<1> QED
  BY <1>11, <1>12, <1>13, <1>14, Zenon DEF IInv

(* The collection is there again, or the rebuild is cut off.               *)
LEMMA RemakeIInv ==
  ASSUME IInv, NEW r \in Requests, Remake(r) \/ RemakeFails(r) PROVE IInv'
<1> DEFINE p == requests[r]
           k == p.kb
           q == [p EXCEPT !.phase = "claim"]
<1>1. /\ p.phase \in {"remake", "refill"} /\ (Become(r, Idle) \/ Become(r, q))
      /\ UNCHANGED <<envKnown, cfg, declared, kbs, probed, rebuilt>>
      /\ cut' = cut \/ cut' = cut \cup {k}
      /\ collections' = collections \/ collections' = Made(r)
  BY DEF Remake, RemakeFails, Finish
<1>2. p \in Request /\ k \in KBs /\ p.user \in Users /\ p.size \in {1, 2} /\ k \in rebuilt
  BY <1>1 DEF IInv, Types, Filled, MakingPhases, CarriesOwn
<1>3. q \in Request /\ q.phase = "claim" /\ q.kb = k /\ q.user = p.user
  BY <1>2 DEF Request, Phases
<1>4. Filled(q)
  BY <1>2, <1>3 DEF Filled, MakingPhases
<1> HIDE DEF q
<1>5. /\ requests' \in [Requests -> Request]
      /\ \A s \in Requests : Filled(requests'[s])
      /\ requests'[r] \in {Idle, q}
      /\ \A s \in Requests : s # r => requests'[s] = requests[s]
  <2>1. ASSUME NEW x \in {Idle, q}, Become(r, x)
        PROVE  /\ requests' \in [Requests -> Request]
               /\ \A s \in Requests : Filled(requests'[s])
               /\ requests'[r] \in {Idle, q}
               /\ \A s \in Requests : s # r => requests'[s] = requests[s]
    BY <1>3, <1>4, <2>1, IdleType, BecomeOthers DEF IInv
  <2> QED
    BY <1>1, <2>1
<1>6. Empty(p.size) \in Collection /\ Empty(p.size).spaces = {}
  BY <1>2 DEF Empty, Collection
<1>7. /\ collections' \in [KBs -> Collection \cup {None}]
      /\ \A j \in KBs : j # k => collections'[j] = collections[j]
      /\ cut' \in SUBSET KBs
  BY <1>1, <1>2, <1>6 DEF Made, IInv, Types
<1>8. Types'
  BY <1>1, <1>5, <1>7, Zenon DEF IInv, Types, Filled
<1>9. ASSUME NEW s \in Requests, s # r PROVE Alone(s)' /\ ProbesOwn(s)' /\ CarriesOwn(s)'
  <2>1. requests[s].phase \in {"probe", "insert"} => requests[s].kb \in KBs
    BY DEF IInv, Types, Filled, MakingPhases
  <2>2. Alone(s)'
    <3>1. SUFFICES ASSUME requests[s].phase \in {"probe", "insert"}
                   PROVE  Alone(s)'
      BY <1>5, <1>9 DEF Alone
    <3>2. requests[s].kb # k
      BY <1>9, <3>1 DEF IInv, Alone
    <3>3. requests'[r].kb # requests[s].kb
      BY <1>3, <1>5, <2>1, <3>1, <3>2, IdleType, EmbeddingSpacesAssumption
    <3> QED
      BY <1>1, <1>5, <1>7, <1>9, <2>1, <3>1, <3>2, <3>3 DEF IInv, Alone
  <2>3. ProbesOwn(s)' /\ CarriesOwn(s)'
    BY <1>1, <1>5, <1>9 DEF IInv, ProbesOwn, CarriesOwn, Rows
  <2> QED
    BY <2>2, <2>3
<1>10. Alone(r)' /\ ProbesOwn(r)' /\ CarriesOwn(r)'
  <2>1. CASE requests'[r] = Idle
    BY <2>1, IdleType, Harmless
  <2>2. CASE requests'[r] = q
    BY <1>1, <1>2, <1>3, <2>2 DEF Alone, ProbesOwn, CarriesOwn
  <2> QED
    BY <1>5, <2>1, <2>2
<1>11. OwnSpaceOnly'
  BY <1>1, <1>2, <1>7 DEF IInv, OwnSpaceOnly, Rows
<1> QED
  BY <1>8, <1>9, <1>10, <1>11, Zenon DEF IInv

LEMMA ClaimIInv == ASSUME IInv, NEW r \in Requests, Claim(r) PROVE IInv'
<1> DEFINE p == requests[r]
           space == IF p.space = None THEN Resolved(kbs[p.kb].own, p.user) ELSE p.space
           q == [p EXCEPT !.phase = "ingest", !.space = space]
<1>1. /\ p.phase = "claim" /\ p.kb \in Rows /\ Become(r, q)
      /\ UNCHANGED <<envKnown, cfg, declared, kbs, collections, probed, rebuilt, cut>>
  BY DEF Claim
<1>2. p \in Request /\ Filled(p) /\ p.kb \in KBs /\ p.user \in Users
  BY <1>1 DEF IInv, Types, Filled, MakingPhases
<1>3. kbs[p.kb].own \in Spaces \cup {None}
  BY <1>1 DEF IInv, Types, Rows, Row
<1>4. space \in Spaces \cup {None}
  BY <1>2, <1>3, ResolvedType DEF IInv, Request
<1>5. p.kb \in rebuilt
  BY <1>1 DEF IInv, CarriesOwn
<1> HIDE DEF space
<1>6. q \in Request
  BY <1>2, <1>4 DEF Request, Phases
<1>7. q.phase = "ingest" /\ q.kb = p.kb
  BY <1>2 DEF Request
<1>8. Filled(q)
  BY <1>2, <1>7 DEF Filled, MakingPhases
<1> HIDE DEF q
<1>9. requests'[r] = q
  BY <1>1, <1>6, <1>8, BecomeOthers DEF IInv
<1>10. Alone(r)' /\ ProbesOwn(r)' /\ CarriesOwn(r)'
  BY <1>1, <1>5, <1>7, <1>9 DEF Alone, ProbesOwn, CarriesOwn
<1>11. /\ cfg' \in [Users -> Spaces \cup {None}] /\ declared' \in [Users -> 0 .. 2]
       /\ probed' \in {None, 1, 2}
  BY <1>1 DEF IInv, Types
<1> QED
  BY <1>1, <1>6, <1>7, <1>8, <1>10, <1>11, RequestStep

(* The vectors of an ingest are in the space its request carries. *)
LEMMA IngestIInv == ASSUME IInv, NEW r \in Requests, Ingest(r) PROVE IInv'
<1> DEFINE k == requests[r].kb
           e == Embedder(requests[r].space)
<1>1. /\ requests[r].phase = "ingest" /\ Become(r, Idle)
      /\ UNCHANGED <<envKnown, cfg, declared, kbs, probed, rebuilt, cut>>
      /\ \/ UNCHANGED collections
         \/ collections[k] # None
            /\ collections' = [collections EXCEPT ![k].spaces = @ \cup {e}]
  BY DEF Ingest, Finish
<1>2. k \in KBs /\ e \in Spaces
  BY <1>1, EmbeddingSpacesAssumption DEF IInv, Types, Filled, MakingPhases, Request, Embedder
<1>3. k \in Rows /\ kbs[k].own # None /\ k \notin rebuilt => e = kbs[k].own
  BY <1>1 DEF IInv, CarriesOwn, Embedder
<1> HIDE DEF e
<1>4. /\ requests' \in [Requests -> Request]
      /\ \A s \in Requests : Filled(requests'[s])
      /\ requests'[r] = Idle
      /\ \A s \in Requests : s # r => requests'[s] = requests[s]
  BY <1>1, IdleType, BecomeOthers DEF IInv
<1>5. /\ collections' \in [KBs -> Collection \cup {None}]
      /\ \A j \in KBs : collections[j] = None \/ j # k => collections'[j] = collections[j]
      /\ collections[k] # None => collections'[k].spaces \subseteq collections[k].spaces \cup {e}
  <2>1. CASE UNCHANGED collections
    BY <2>1 DEF IInv, Types
  <2>2. CASE /\ collections[k] # None
             /\ collections' = [collections EXCEPT ![k].spaces = @ \cup {e}]
    <3>1. collections[k] \in Collection
      BY <1>2, <2>2 DEF IInv, Types
    <3>2. [collections[k] EXCEPT !.spaces = @ \cup {e}] \in Collection
      BY <1>2, <3>1 DEF Collection
    <3>3. [collections[k] EXCEPT !.spaces = @ \cup {e}].spaces = collections[k].spaces \cup {e}
      BY <3>1 DEF Collection
    <3>4. collections' = [collections EXCEPT ![k] = [collections[k] EXCEPT !.spaces = @ \cup {e}]]
      BY <2>2
    <3> QED
      BY <1>2, <2>2, <3>2, <3>3, <3>4 DEF IInv, Types
  <2> QED
    BY <1>1, <2>1, <2>2
<1>6. Types'
  BY <1>1, <1>4, <1>5, Zenon DEF IInv, Types, Filled, MakingPhases
<1>7. ASSUME NEW s \in Requests, s # r PROVE Alone(s)' /\ ProbesOwn(s)' /\ CarriesOwn(s)'
  <2>1. requests[s].phase \in {"probe", "insert"} => requests[s].kb \in KBs
    BY DEF IInv, Types, Filled, MakingPhases
  <2>2. Alone(s)'
    BY <1>1, <1>4, <1>5, <1>7, <2>1, IdleType, EmbeddingSpacesAssumption DEF IInv, Alone
  <2>3. ProbesOwn(s)' /\ CarriesOwn(s)'
    BY <1>1, <1>4, <1>7 DEF IInv, ProbesOwn, CarriesOwn, Rows
  <2> QED
    BY <2>2, <2>3
<1>8. Alone(r)' /\ ProbesOwn(r)' /\ CarriesOwn(r)'
  BY <1>4, IdleType, Harmless
<1>9. OwnSpaceOnly'
  <2> SUFFICES ASSUME NEW j \in Rows, kbs[j].own # None
               PROVE  /\ kbs[j].size = Dim(kbs[j].own)
                      /\ collections'[j] # None /\ j \notin rebuilt
                           => collections'[j].spaces \subseteq {kbs[j].own}
    BY <1>1 DEF OwnSpaceOnly, Rows
  <2>1. kbs[j].size = Dim(kbs[j].own) /\ j \in KBs
    BY DEF IInv, OwnSpaceOnly, Rows
  <2>2. collections[j] # None /\ j \notin rebuilt => collections[j].spaces \subseteq {kbs[j].own}
    BY DEF IInv, OwnSpaceOnly
  <2> QED
    BY <1>3, <1>5, <2>1, <2>2
<1> QED
  BY <1>6, <1>7, <1>8, <1>9, Zenon DEF IInv

(* After a crash no request promises anything. *)
LEMMA CrashIInv == ASSUME IInv, Crash PROVE IInv'
<1>1. /\ \A r \in Requests : requests'[r] = Idle
      /\ UNCHANGED <<envKnown, cfg, declared, kbs, collections, rebuilt>>
  BY DEF Crash
<1>2. Types'
  <2>1. requests' \in [Requests -> Request] /\ \A r \in Requests : Filled(requests'[r])
    BY <1>1, IdleType DEF Crash
  <2>2. cut' \in SUBSET KBs /\ probed' \in {None, 1, 2}
    BY DEF Crash, IInv, Types
  <2> QED
    BY <1>1, <2>1, <2>2, Zenon DEF IInv, Types, Filled, MakingPhases
<1>3. \A r \in Requests : Alone(r)' /\ ProbesOwn(r)' /\ CarriesOwn(r)'
  BY <1>1, IdleType, Harmless
<1>4. OwnSpaceOnly'
  BY <1>1 DEF IInv, OwnSpaceOnly, Rows
<1> QED
  BY <1>2, <1>3, <1>4, Zenon DEF IInv

-------------------------------------------------------------------------------

LEMMA InitIInv == Init => IInv
<1> SUFFICES ASSUME Init PROVE IInv
  OBVIOUS
<1>1. Types
  <2>1. requests \in [Requests -> Request] /\ \A r \in Requests : Filled(requests[r])
    BY IdleType DEF Init
  <2>2. /\ envKnown \in BOOLEAN /\ probed \in {None, 1, 2}
        /\ rebuilt \in SUBSET KBs /\ cut \in SUBSET KBs
    BY Zenon DEF Init
  <2>3. /\ cfg \in [Users -> Spaces \cup {None}]
        /\ declared \in [Users -> 0 .. 2]
        /\ kbs \in [KBs -> Row \cup {None}] /\ collections \in [KBs -> Collection \cup {None}]
    BY DEF Init
  <2> QED
    BY <2>1, <2>2, <2>3, Zenon DEF Types
<1>2. \A r \in Requests : Alone(r) /\ ProbesOwn(r) /\ CarriesOwn(r)
  BY IdleType DEF Init, Alone, ProbesOwn, CarriesOwn
<1>3. OwnSpaceOnly
  BY DEF Init, OwnSpaceOnly, Rows
<1> QED
  BY <1>1, <1>2, <1>3 DEF IInv

LEMMA NextIInv == IInv /\ [Next]_vars => IInv'
<1> SUFFICES ASSUME IInv, [Next]_vars PROVE IInv'
  OBVIOUS
<1>1. ASSUME NEW r \in Requests, Create(r) PROVE IInv'
  <2>1. CASE ProbeFails(r)
    BY <2>1, FinishStep DEF ProbeFails, IInv, Types
  <2> QED
    BY <1>1, <2>1, CreateKBIInv, ProbeIInv, InsertRowIInv, CollectionIInv DEF Create
<1>2. ASSUME NEW r \in Requests, Fill(r) PROVE IInv'
  <2>1. CASE Orphaned(r)
    BY <2>1, FinishStep DEF Orphaned, IInv, Types
  <2> QED
    BY <1>2, <2>1, UploadIInv, RebuildIInv, RemakeIInv, ClaimIInv, IngestIInv DEF Fill
<1>3. CASE UNCHANGED vars
  BY <1>3 DEF vars, IInv, Types, Filled, MakingPhases, Alone, ProbesOwn, CarriesOwn,
     OwnSpaceOnly, Rows
<1> QED
  BY <1>1, <1>2, <1>3, SettingsIInv, CrashIInv DEF Next

(* What the settings, the knowledge bases and the requests in flight say    *)
(* of the vector spaces they use holds throughout.                          *)
THEOREM Invariance == Spec => []IInv
BY InitIInv, NextIInv, PTL DEF Spec

(* Every reachable state of the settings, knowledge bases and requests is  *)
(* well typed.                                                             *)
THEOREM TypeCorrect == Spec => []TypeOK
<1>1. IInv => TypeOK
  BY DEF IInv, Types, TypeOK, Row, Rows, Collection, Request, Phases
<1> QED
  BY <1>1, Invariance, PTL

(* For any number of users, models and requests in flight, and whatever    *)
(* fails: uploads into a KB with settings of its own embed by them and its *)
(* collection has their dimension (create_kb, upload_document, ingest).    *)
THEOREM OwnSpace == Spec => []OwnSpaceOnly
<1>1. IInv => OwnSpaceOnly
  BY DEF IInv
<1> QED
  BY <1>1, Invariance, PTL

-------------------------------------------------------------------------------
(* Rows and their collections. *)

Step(r) == Settings(r) \/ Create(r) \/ Fill(r)

LEMMA OneRequest ==
  ASSUME IInv, NEW r \in Requests, Step(r)
  PROVE  \A s \in Requests : s # r => requests'[s] = requests[s]
<1>1. ASSUME NEW q, Become(r, q) PROVE \A s \in Requests : s # r => requests'[s] = requests[s]
  BY <1>1 DEF Become, IInv, Types
<1>2. ASSUME Settings(r) PROVE \E q : Become(r, q)
  BY <1>2 DEF Settings, ClearEmbedding, SaveEmbedding, CommitSettings, Finish
<1>3. ASSUME Create(r) PROVE \E q : Become(r, q)
  BY <1>3, Zenon DEF Create, CreateKB, Probe, ProbeFails, InsertRow, CreateCollection,
     CreateCollectionFails, Finish
<1>4. ASSUME Fill(r) PROVE requests' = requests \/ \E q : Become(r, q)
  BY <1>4, Zenon DEF Fill, Upload, Rebuild, Remake, RemakeFails, Claim, Orphaned, Ingest, Finish
<1> QED
  BY <1>1, <1>2, <1>3, <1>4 DEF Step

(* An upload leaves its slot free or with the document to process. *)
LEMMA UploadSlot ==
  ASSUME IInv, NEW r \in Requests, NEW u \in Users, NEW k \in KBs, Upload(r, u, k)
  PROVE  requests[r].phase = "idle" /\ requests'[r].phase \in {"idle", "ingest"}
<1> DEFINE q == [Idle EXCEPT !.phase = "ingest", !.user = u, !.kb = k,
                             !.space = Resolved(kbs[k].own, u)]
<1>1. requests[r] = Idle /\ (requests' = requests \/ Become(r, q))
  BY DEF Upload
<1>2. q.phase = "ingest"
  BY DEF Idle
<1> HIDE DEF q
<1> QED
  BY <1>1, <1>2, IdleType DEF Become, IInv, Types

(* A rebuild goes on to make the collection in the size of the row. *)
LEMMA RebuildSlot ==
  ASSUME IInv, NEW r \in Requests, NEW k \in KBs, Rebuild(r, k)
  PROVE  /\ requests[r].phase = "idle" /\ requests'[r].phase \in {"remake", "refill"}
         /\ requests'[r].kb = k /\ requests'[r].size = kbs[k].size
<1> DEFINE row == kbs[k]
           phase == IF row.docs THEN "refill" ELSE "remake"
           q == [Idle EXCEPT !.phase = phase, !.user = row.owner, !.kb = k,
                             !.space = cfg[row.owner], !.size = row.size]
<1>1. requests[r] = Idle /\ Become(r, q)
  BY DEF Rebuild
<1>2. phase \in {"remake", "refill"}
  OBVIOUS
<1> HIDE DEF phase
<1>3. q.phase = phase /\ q.kb = k /\ q.size = row.size
  BY DEF Idle
<1> HIDE DEF q
<1> QED
  BY <1>1, <1>2, <1>3, IdleType DEF Become, IInv, Types

HasItsSize(k) == collections[k] # None => collections[k].dim = kbs[k].size

(* The collection that is being made for a row will have its size. *)
MakesItsSize(r) ==
  requests[r].phase \in MakingPhases /\ requests[r].kb \in Rows =>
    kbs[requests[r].kb].size = requests[r].size

CInv ==
  /\ RowHasCollection
  /\ \A k \in Rows : HasItsSize(k)
  /\ \A r \in Requests : MakesItsSize(r)

(* A step that makes and takes neither row nor collection, of a request    *)
(* that is not about to.                                                   *)
LEMMA SteadyStep ==
  ASSUME CInv, NEW r \in Requests,
         \A s \in Requests : s # r => requests'[s] = requests[s],
         requests[r].phase \notin MakingPhases, requests'[r].phase \notin MakingPhases,
         Rows' = Rows, cut' = cut, \A k \in Rows : kbs'[k].size = kbs[k].size,
         \A k \in Rows : collections[k] = None => collections'[k] = None,
         \A k \in Rows : collections[k] # None =>
           collections'[k] # None /\ collections'[k].dim = collections[k].dim
  PROVE  CInv'
<1>1. \A k \in Rows : Making(k) => Making(k)'
  BY DEF Making, MakingPhases
<1>2. RowHasCollection'
  BY <1>1 DEF CInv, RowHasCollection
<1>3. \A k \in Rows : HasItsSize(k)'
  BY DEF CInv, HasItsSize
<1>4. ASSUME NEW s \in Requests PROVE MakesItsSize(s)'
  BY DEF CInv, MakesItsSize
<1> QED
  BY <1>2, <1>3, <1>4 DEF CInv

(* Requests for settings, and all but the last two steps of a creation. *)
LEMMA QuietCInv ==
  ASSUME IInv, CInv, NEW r \in Requests, Step(r), requests[r].phase \notin MakingPhases,
         requests'[r].phase \notin MakingPhases, UNCHANGED <<kbs, collections, cut>>
  PROVE  CInv'
<1>1. \A s \in Requests : s # r => requests'[s] = requests[s]
  BY OneRequest
<1>2. Rows' = Rows
  BY DEF Rows
<1> QED
  BY <1>1, <1>2, SteadyStep

(* Vectors that go in leave the collection its size. *)
LEMMA IngestCInv == ASSUME IInv, CInv, NEW r \in Requests, Ingest(r) PROVE CInv'
<1> DEFINE k == requests[r].kb
           e == Embedder(requests[r].space)
           more == [collections[k] EXCEPT !.spaces = @ \cup {e}]
<1>1. /\ requests[r].phase = "ingest" /\ Become(r, Idle) /\ kbs' = kbs /\ cut' = cut
      /\ \/ UNCHANGED collections
         \/ collections[k] # None /\ collections' = [collections EXCEPT ![k] = more]
  BY DEF Ingest, Finish
<1>2. requests'[r] = Idle /\ k \in KBs
  BY <1>1 DEF Become, IInv, Types, Filled, MakingPhases
<1>3. e \in Spaces
  BY EmbeddingSpacesAssumption DEF Embedder, IInv, Types, Request
<1>4. collections[k] # None => more \in Collection /\ more.dim = collections[k].dim
  BY <1>2, <1>3 DEF IInv, Types, Collection
<1> HIDE DEF more, k, e
<1>5. \A j \in KBs : \/ collections'[j] = collections[j]
                     \/ /\ collections[j] # None /\ collections'[j] # None
                        /\ collections'[j].dim = collections[j].dim
  BY <1>1, <1>2, <1>4, EmbeddingSpacesAssumption DEF IInv, Types
<1>6. Rows' = Rows /\ Rows \subseteq KBs
  BY <1>1 DEF Rows
<1>7. \A s \in Requests : s # r => requests'[s] = requests[s]
  BY OneRequest DEF Step, Fill
<1> QED
  BY <1>1, <1>2, <1>5, <1>6, <1>7, IdleType, SteadyStep DEF MakingPhases

(* An upload changes whether the KB has documents. *)
LEMMA UploadCInv ==
  ASSUME IInv, CInv, NEW r \in Requests, NEW u \in Users, NEW k \in KBs, Upload(r, u, k)
  PROVE  CInv'
<1> DEFINE q == [Idle EXCEPT !.phase = "ingest", !.user = u, !.kb = k,
                             !.space = Resolved(kbs[k].own, u)]
<1>1. /\ k \in Rows /\ requests[r] = Idle
      /\ kbs' = [kbs EXCEPT ![k].docs = TRUE]
      /\ collections' = collections /\ cut' = cut
      /\ UNCHANGED requests \/ Become(r, q)
  BY DEF Upload
<1>2. kbs[k] \in Row
  BY <1>1 DEF Rows, IInv, Types
<1>3. [kbs[k] EXCEPT !.docs = TRUE] \in Row
  BY <1>2 DEF Row
<1>4. /\ kbs'[k] # None /\ kbs'[k].size = kbs[k].size
      /\ \A j \in KBs : j # k => kbs'[j] = kbs[j]
  BY <1>1, <1>2, <1>3, EmbeddingSpacesAssumption DEF IInv, Types, Row
<1>5. Rows' = Rows /\ \A j \in Rows : kbs'[j].size = kbs[j].size
  BY <1>1, <1>4 DEF Rows
<1>6. requests[r].phase \notin MakingPhases /\ requests'[r].phase \notin MakingPhases
  BY <1>1, IdleType DEF Become, IInv, Types, Idle, MakingPhases
<1>7. \A s \in Requests : s # r => requests'[s] = requests[s]
  BY OneRequest DEF Step, Fill
<1> QED
  BY <1>1, <1>5, <1>6, <1>7, SteadyStep

(* A new row is one whose collection is being made. *)
LEMMA InsertRowCInv == ASSUME IInv, CInv, NEW r \in Requests, InsertRow(r) PROVE CInv'
<1> DEFINE p == requests[r]
           k == p.kb
           row == [owner |-> p.user, size |-> p.size, own |-> p.own, docs |-> FALSE]
<1>1. /\ p.phase = "insert"
      /\ requests' = [requests EXCEPT ![r] = [p EXCEPT !.phase = "collection"]]
      /\ kbs' = [kbs EXCEPT ![k] = row] /\ collections' = collections /\ cut' = cut
  BY DEF InsertRow, Become
<1>2. /\ p \in Request /\ k \in KBs /\ collections[k] = None
      /\ \A s \in Requests : s # r => requests[s].kb # k
  BY <1>1 DEF IInv, Types, Filled, MakingPhases, Alone
<1>3. /\ requests'[r].phase = "collection" /\ requests'[r].kb = k /\ requests'[r].size = p.size
      /\ \A s \in Requests : s # r => requests'[s] = requests[s]
  BY <1>1, <1>2 DEF IInv, Types, Request
<1>4. row.size = p.size
  OBVIOUS
<1> HIDE DEF row, p, k
<1>5. kbs'[k].size = p.size /\ \A j \in KBs : j # k => kbs'[j] = kbs[j]
  BY <1>1, <1>2, <1>4 DEF IInv, Types
<1>6. \A j \in Rows' : j # k => j \in Rows
  BY <1>5 DEF Rows
<1>7. ASSUME NEW j \in Rows' \ cut', ~Making(j)'
      PROVE  collections'[j] # None /\ collections'[j].dim = kbs'[j].size
  <2>1. j # k
    BY <1>3, <1>7 DEF Making, MakingPhases
  <2>2. ~Making(j)
    BY <1>1, <1>3, <1>7 DEF Making, MakingPhases, p
  <2> QED
    BY <1>1, <1>5, <1>6, <2>1, <2>2, <1>7 DEF CInv, RowHasCollection, Rows
<1>8. \A j \in Rows' : HasItsSize(j)'
  BY <1>1, <1>2, <1>5, <1>6 DEF CInv, HasItsSize, Rows
<1>9. ASSUME NEW s \in Requests PROVE MakesItsSize(s)'
  <2>1. CASE s = r
    BY <1>3, <1>5, <2>1 DEF MakesItsSize
  <2>2. CASE s # r
    BY <1>2, <1>3, <1>5, <1>6, <2>2 DEF CInv, MakesItsSize, Rows
  <2> QED
    BY <2>1, <2>2
<1> QED
  BY <1>7, <1>8, <1>9 DEF CInv, RowHasCollection

(* The collection is made, or the row is taken back. *)
LEMMA CollectionCInv ==
  ASSUME IInv, CInv, NEW r \in Requests, CreateCollection(r) \/ CreateCollectionFails(r)
  PROVE  CInv'
<1> DEFINE p == requests[r]
           k == p.kb
<1>1. p.phase = "collection" /\ Become(r, Idle) /\ cut' = cut
  BY DEF CreateCollection, CreateCollectionFails, Finish
<1>2. k \in KBs /\ p.size \in {1, 2}
  BY <1>1 DEF IInv, Types, Filled, MakingPhases
<1>3. requests'[r] = Idle /\ \A s \in Requests : s # r => requests'[s] = requests[s]
  BY <1>1, IdleType, BecomeOthers DEF IInv
<1>4. Empty(p.size) \in Collection /\ Empty(p.size).dim = p.size
  BY <1>2 DEF Empty, Collection
<1>5. \A j \in KBs : j # k => collections'[j] = collections[j] /\ kbs'[j] = kbs[j]
  BY <1>2 DEF CreateCollection, CreateCollectionFails, Made, RollBack, IInv, Types
<1>6. k \in Rows' => /\ k \in Rows /\ kbs'[k] = kbs[k] /\ collections'[k] # None
                     /\ collections'[k] = collections[k] \/ collections'[k].dim = p.size
  <2>1. CASE CreateCollection(r)
    <3>1. kbs' = kbs /\ collections'[k] = IF collections[k] = None THEN Empty(p.size)
                                           ELSE collections[k]
      BY <1>2, <2>1 DEF CreateCollection, Made, IInv, Types
    <3> QED
      BY <1>4, <3>1, EmbeddingSpacesAssumption DEF Rows
  <2>2. CASE CreateCollectionFails(r)
    BY <1>2, <2>2 DEF CreateCollectionFails, RollBack, IInv, Types, Rows
  <2> QED
    BY <2>1, <2>2
<1>7. \A j \in Rows' : j \in Rows /\ j \in KBs /\ kbs'[j] = kbs[j]
  BY <1>5, <1>6 DEF Rows
<1>8. k \in Rows' => collections'[k].dim = kbs'[k].size
  BY <1>1, <1>6 DEF CInv, HasItsSize, MakesItsSize, MakingPhases
<1>9. ASSUME NEW j \in Rows' \ cut', ~Making(j)'
      PROVE  collections'[j] # None /\ collections'[j].dim = kbs'[j].size
  <2>1. CASE j = k
    BY <1>6, <1>8, <1>9, <2>1
  <2>2. CASE j # k
    <3>1. ~Making(j)
      BY <1>3, <1>9, <2>2 DEF Making, MakingPhases
    <3> QED
      BY <1>1, <1>5, <1>7, <1>9, <2>2, <3>1 DEF CInv, RowHasCollection
  <2> QED
    BY <2>1, <2>2
<1>10. \A j \in Rows' : HasItsSize(j)'
  BY <1>5, <1>7, <1>8 DEF CInv, HasItsSize
<1>11. \A s \in Requests : MakesItsSize(s)'
  BY <1>3, <1>7, IdleType DEF CInv, MakesItsSize, MakingPhases
<1> QED
  BY <1>9, <1>10, <1>11 DEF CInv, RowHasCollection

(* A rebuild drops the collection and is then the one that makes it.       *)
LEMMA RebuildCInv ==
  ASSUME IInv, CInv, NEW r \in Requests, NEW k \in KBs, Rebuild(r, k)
  PROVE  CInv'
<1>1. kbs' = kbs /\ cut' = cut /\ Rows' = Rows /\ Rows \subseteq KBs
  BY DEF Rebuild, Rows
<1>2. collections'[k] = None /\ \A j \in KBs : j # k => collections'[j] = collections[j]
  BY DEF Rebuild, IInv, Types
<1>3. /\ requests[r].phase \notin MakingPhases /\ requests'[r].phase \in MakingPhases
      /\ requests'[r].kb = k /\ requests'[r].size = kbs[k].size
      /\ \A s \in Requests : s # r => requests'[s] = requests[s]
  BY RebuildSlot, OneRequest DEF Step, Fill, MakingPhases
<1>4. Making(k)' /\ \A j \in KBs : Making(j) => Making(j)'
  BY <1>3 DEF Making, MakingPhases
<1>5. RowHasCollection'
  BY <1>1, <1>2, <1>4 DEF CInv, RowHasCollection
<1>6. \A j \in Rows : HasItsSize(j)'
  BY <1>1, <1>2 DEF CInv, HasItsSize
<1>7. \A s \in Requests : MakesItsSize(s)'
  BY <1>1, <1>3 DEF CInv, MakesItsSize
<1> QED
  BY <1>1, <1>5, <1>6, <1>7 DEF CInv

(* The collection is made in the size of the row, or the KB is cut off. *)
LEMMA RemakeCInv ==
  ASSUME IInv, CInv, NEW r \in Requests, Remake(r) \/ RemakeFails(r)
  PROVE  CInv'
<1> DEFINE p == requests[r]
           k == p.kb
           made == IF collections[k] = None THEN Empty(p.size) ELSE collections[k]
<1>1. /\ p.phase \in {"remake", "refill"} /\ kbs' = kbs
      /\ \/ cut' = cut /\ collections' = Made(r)
         \/ cut' = cut \cup {k} /\ (collections' = collections \/ collections' = Made(r))
  BY DEF Remake, RemakeFails
<1>2. p \in Request /\ k \in KBs /\ p.size \in {1, 2}
  BY <1>1 DEF IInv, Types, Filled, MakingPhases
<1>3. /\ requests'[r].phase \notin MakingPhases
      /\ \A s \in Requests : s # r => requests'[s] = requests[s]
  <2>1. requests'[r].phase \in {"idle", "claim"}
    BY <1>2, IdleType DEF Remake, RemakeFails, Finish, Become, IInv, Types, Request
  <2>2. \A s \in Requests : s # r => requests'[s] = requests[s]
    BY OneRequest DEF Step, Fill
  <2> QED
    BY <2>1, <2>2 DEF MakingPhases
<1>4. Empty(p.size) \in Collection /\ Empty(p.size).dim = p.size
  BY <1>2 DEF Empty, Collection
<1>5. Made(r) = [collections EXCEPT ![k] = made]
  BY DEF Made
<1> HIDE DEF p, k
<1>6. made # None /\ (k \in Rows => made.dim = kbs[k].size)
  <2>1. k \in Rows => kbs[k].size = p.size
    BY <1>1 DEF CInv, MakesItsSize, MakingPhases, p, k
  <2> QED
    BY <1>4, <2>1, EmbeddingSpacesAssumption DEF CInv, HasItsSize
<1> HIDE DEF made
<1>7. /\ \A j \in KBs : j # k => collections'[j] = collections[j]
      /\ collections'[k] \in {collections[k], made}
      /\ k \in cut' \/ collections'[k] = made
      /\ cut' = cut \/ cut' = cut \cup {k}
  <2>1. Made(r)[k] = made /\ \A j \in KBs : j # k => Made(r)[j] = collections[j]
    BY <1>2, <1>5 DEF IInv, Types
  <2> QED
    BY <1>1, <2>1
<1>8. Rows' = Rows /\ Rows \subseteq KBs
  BY <1>1 DEF Rows
<1>9. ASSUME NEW j \in Rows' \ cut', ~Making(j)'
      PROVE  collections'[j] # None /\ collections'[j].dim = kbs'[j].size
  <2>1. CASE j = k
    BY <1>1, <1>6, <1>7, <1>8, <1>9, <2>1
  <2>2. CASE j # k
    <3>1. ~Making(j)
      BY <1>3, <1>9, <2>2 DEF Making, p, k
    <3>2. j \in Rows \ cut
      BY <1>7, <1>8, <1>9
    <3> QED
      BY <1>1, <1>7, <1>8, <2>2, <3>1, <3>2 DEF CInv, RowHasCollection
  <2> QED
    BY <2>1, <2>2
<1>10. \A j \in Rows : HasItsSize(j)'
  BY <1>1, <1>6, <1>7, <1>8 DEF CInv, HasItsSize
<1>11. \A s \in Requests : MakesItsSize(s)'
  BY <1>1, <1>3, <1>8 DEF CInv, MakesItsSize
<1> QED
  BY <1>8, <1>9, <1>10, <1>11 DEF CInv, RowHasCollection

LEMMA CrashCInv == ASSUME IInv, CInv, Crash PROVE CInv'
<1>1. /\ \A r \in Requests : requests'[r] = Idle
      /\ cut' = cut \cup {k \in KBs : Making(k)} /\ UNCHANGED <<kbs, collections>>
  BY DEF Crash
<1>2. Rows' = Rows /\ Rows \subseteq KBs
  BY <1>1 DEF Rows
<1>3. RowHasCollection'
  BY <1>1, <1>2 DEF CInv, RowHasCollection
<1>4. \A k \in Rows : HasItsSize(k)'
  BY <1>1 DEF CInv, HasItsSize
<1>5. \A r \in Requests : MakesItsSize(r)'
  BY <1>1, IdleType DEF MakesItsSize, MakingPhases
<1> QED
  BY <1>2, <1>3, <1>4, <1>5 DEF CInv

LEMMA Becomes == ASSUME Types, NEW r \in Requests, NEW q, Become(r, q) PROVE requests'[r] = q
BY DEF Types, Become

LEMMA FinishIsIdle ==
  ASSUME Types, NEW r \in Requests, Finish(r) PROVE requests'[r].phase \notin MakingPhases
BY Becomes, IdleType DEF Finish, MakingPhases

LEMMA NextCInv == IInv /\ CInv /\ [Next]_vars => CInv'
<1> SUFFICES ASSUME IInv, CInv, [Next]_vars PROVE CInv'
  OBVIOUS
<1>0. \A r \in Requests : requests[r] \in Request
  BY DEF IInv, Types
<1>1. ASSUME NEW r \in Requests, Settings(r) PROVE CInv'
  <2>1. requests[r].phase \notin MakingPhases /\ requests'[r].phase \notin MakingPhases
    BY <1>0, <1>1, IdleType DEF Settings, ClearEmbedding, SaveEmbedding, CommitSettings, Finish,
       Become, IInv, Types, Idle, MakingPhases
  <2>2. UNCHANGED <<kbs, collections, cut>>
    BY <1>1 DEF Settings, ClearEmbedding, SaveEmbedding, CommitSettings
  <2> QED
    BY <1>1, <2>1, <2>2, QuietCInv DEF Step
<1>2. ASSUME NEW r \in Requests, Create(r) PROVE CInv'
  <2>1. ASSUME (\E u \in Users, k \in KBs, own \in Spaces \cup {None} : CreateKB(r, u, k, own))
                \/ Probe(r) \/ ProbeFails(r)
        PROVE  CInv'
    <3>1. UNCHANGED <<kbs, collections, cut>>
      BY <2>1 DEF CreateKB, Probe, ProbeFails
    <3>2. requests[r].phase \notin MakingPhases
      BY <2>1, IdleType DEF CreateKB, Probe, ProbeFails, MakingPhases
    <3>3. requests'[r].phase \notin MakingPhases
      <4>1. CASE Probe(r)
        <5>1. requests'[r].phase = "insert"
          BY <1>0, <4>1, Becomes DEF Probe, IInv, Request
        <5> QED
          BY <5>1 DEF MakingPhases
      <4>2. CASE ProbeFails(r)
        BY <4>2, FinishIsIdle DEF ProbeFails, IInv
      <4>3. ASSUME NEW u \in Users, NEW k \in KBs, NEW own \in Spaces \cup {None},
                   CreateKB(r, u, k, own)
            PROVE  requests'[r].phase \notin MakingPhases
        BY <4>3 DEF CreateKB, Become, IInv, Types, MakingPhases
      <4> QED
        BY <2>1, <4>1, <4>2, <4>3
    <3> QED
      BY <1>2, <3>1, <3>2, <3>3, QuietCInv DEF Step
  <2> QED
    BY <1>2, <2>1, InsertRowCInv, CollectionCInv DEF Create
<1>3. ASSUME NEW r \in Requests, Fill(r) PROVE CInv'
  <2>1. ASSUME Claim(r) \/ Orphaned(r) PROVE CInv'
    <3>1. UNCHANGED <<kbs, collections, cut>> /\ requests[r].phase \notin MakingPhases
      BY <2>1 DEF Claim, Orphaned, MakingPhases
    <3>2. requests'[r].phase \notin MakingPhases
      <4>1. CASE Claim(r)
        <5>1. requests'[r].phase = "ingest"
          BY <1>0, <4>1, Becomes DEF Claim, IInv, Request
        <5> QED
          BY <5>1 DEF MakingPhases
      <4>2. CASE Orphaned(r)
        BY <4>2, FinishIsIdle DEF Orphaned, IInv
      <4> QED
        BY <2>1, <4>1, <4>2
    <3> QED
      BY <1>3, <3>1, <3>2, QuietCInv DEF Step
  <2> QED
    BY <1>3, <2>1, UploadCInv, RebuildCInv, RemakeCInv, IngestCInv DEF Fill
<1>4. CASE UNCHANGED vars
  BY <1>4 DEF vars, CInv, RowHasCollection, HasItsSize, MakesItsSize, Rows, Making
<1> QED
  BY <1>1, <1>2, <1>3, <1>4, CrashCInv DEF Next

(* Whatever requests are in flight and whichever of the store's steps      *)
(* fail, a row whose creation no crash and whose rebuild no failure of the *)
(* store cut off has a collection of its size (create_kb, rebuild_kb).     *)
THEOREM CollectionOfRow == Spec => []RowHasCollection
<1>1. Init => CInv
  BY IdleType DEF Init, CInv, RowHasCollection, MakesItsSize, Rows
<1>2. CInv => RowHasCollection
  BY DEF CInv
<1> QED
  BY <1>1, <1>2, Invariance, NextCInv, PTL DEF Spec

-------------------------------------------------------------------------------
(* Requests that take turns. *)

AtMostOne == \A r, s \in InFlight : r = s

Fits ==
  \A u \in Users : cfg[u] = None \/ declared[u] = Dim(cfg[u]) =>
    \A k \in Dependent(u) : kbs[k].size = Dim(Embedder(cfg[u]))

(* What a request alone in flight has checked still holds: of what will be *)
(* saved, the dimension declared for it.                                   *)
Ready(q) ==
  /\ q.phase = "commit" =>
       \A k \in Dependent(q.user) :
         kbs[k].size = IF q.space = None THEN Dim(EnvSpace) ELSE q.size
  /\ q.phase = "probe" /\ q.own = None => q.space = cfg[q.user]
  /\ q.phase = "insert" /\ q.own = None => q.size = Dim(Embedder(cfg[q.user]))

TurnIInv ==
  /\ IsFiniteSet(InFlight)
  /\ envKnown /\ ~raced => AtMostOne /\ Fits /\ \A r \in InFlight : Ready(requests[r])

LEMMA AtMostOneOf ==
  ASSUME NEW S, IsFiniteSet(S), ~(Cardinality(S) > 1)
  PROVE  \A x, y \in S : x = y
<1>1. Cardinality(S) \in Nat
  BY FS_CardinalityType
<1>2. Cardinality(S) = 0 \/ Cardinality(S) = 1
  BY <1>1
<1>3. S = {} \/ \E x : S = {x}
  BY <1>2, FS_EmptySet, FS_Singleton
<1> QED
  BY <1>3

LEMMA FlightFinite ==
  ASSUME IInv, NEW r \in Requests, Step(r), IsFiniteSet(InFlight)
  PROVE  IsFiniteSet(InFlight')
<1>1. InFlight' \subseteq InFlight \cup {r}
  BY OneRequest DEF InFlight, Idle
<1>2. IsFiniteSet(InFlight \cup {r})
  BY FS_AddElement
<1> QED
  BY <1>1, <1>2, FS_Subset

(* In a step of a request that takes its turn, no other is in flight. *)
Only(r) == \A s \in Requests : s # r => requests[s] = Idle /\ requests'[s] = Idle

LEMMA OnlyOne ==
  ASSUME IInv, NEW r \in Requests, Step(r), AtMostOne, AtMostOne',
         InFlight = {} \/ requests' # requests
  PROVE  Only(r)
<1> SUFFICES ASSUME NEW s \in Requests, s # r, requests[s] # Idle PROVE FALSE
  BY OneRequest DEF Only
<1>1. s \in InFlight /\ s \in InFlight'
  BY OneRequest DEF InFlight, Idle
<1>2. requests[r] = Idle /\ requests'[r] = Idle
  BY <1>1 DEF InFlight, AtMostOne, Idle
<1>3. requests \in [Requests -> Request] /\ requests' \in [Requests -> Request]
  <2>1. requests \in [Requests -> Request] /\ IInv'
    BY NextIInv DEF IInv, Types, Next, Step
  <2> QED
    BY <2>1 DEF IInv, Types
<1>4. requests' = requests
  BY <1>2, <1>3, OneRequest
<1> QED
  BY <1>1, <1>4

Turn(r) == envKnown /\ Fits /\ (requests[r] # Idle => Ready(requests[r]))

LEMMA IdleReady == Ready(Idle)
BY DEF Ready, Idle

(* A request moves, the settings and rows stay. *)
LEMMA MoveTurn ==
  ASSUME IInv, NEW r \in Requests, Turn(r), NEW q, Become(r, q), Ready(q),
         UNCHANGED <<envKnown, cfg, declared, kbs>>
  PROVE  Turn(r)'
<1>1. requests'[r] = q
  BY DEF Become, IInv, Types
<1>2. Fits'
  BY DEF Turn, Fits, Dependent, Rows
<1>3. Ready(requests[r])'
  BY <1>1 DEF Ready, Dependent, Rows
<1> QED
  BY <1>2, <1>3 DEF Turn

LEMMA SettingsTurn ==
  ASSUME IInv, NEW r \in Requests, Turn(r), Settings(r)
  PROVE  Turn(r)'
<1> USE EmbeddingSpacesAssumption
<1>1. ASSUME NEW u \in Users, ClearEmbedding(r, u) PROVE Turn(r)'
  <2> DEFINE q == [Idle EXCEPT !.phase = "commit", !.user = u]
  <2>1. q.phase = "commit" /\ q.user = u /\ q.space = None
    BY DEF Idle
  <2>2. /\ Become(r, q) /\ UNCHANGED <<envKnown, cfg, declared, kbs>>
        /\ EnvSize = 0 \/ ~Conflict(u, EnvSize)
    BY <1>1 DEF ClearEmbedding
  <2>3. EnvSize = Dim(EnvSpace) /\ EnvSize # 0
    BY DimType DEF Turn, EnvSize
  <2>4. \A k \in Dependent(u) : kbs[k].size = Dim(EnvSpace)
    BY <2>2, <2>3 DEF Conflict
  <2> HIDE DEF q
  <2>5. Ready(q)
    BY <2>1, <2>4 DEF Ready
  <2> QED
    BY <2>2, <2>5, MoveTurn
<1>2. ASSUME NEW u \in Users, NEW e \in Spaces, NEW size \in {1, 2},
             SaveEmbedding(r, u, e, size)
      PROVE  Turn(r)'
  <2> DEFINE q == [Idle EXCEPT !.phase = "commit", !.user = u, !.space = e, !.size = size]
  <2>1. q.phase = "commit" /\ q.user = u /\ q.space = e /\ q.size = size
    BY DEF Idle
  <2>2. /\ Become(r, q) /\ UNCHANGED <<envKnown, cfg, declared, kbs>>
        /\ ~Conflict(u, size)
    BY <1>2 DEF SaveEmbedding
  <2>3. \A k \in Dependent(u) : kbs[k].size = size
    BY <2>2 DEF Conflict
  <2> HIDE DEF q
  <2>4. Ready(q)
    BY <2>1, <2>3 DEF Ready
  <2> QED
    BY <2>2, <2>4, MoveTurn
<1>3. CASE CommitSettings(r)
  <2> DEFINE p == requests[r]
  <2>1. /\ p.phase = "commit" /\ cfg' = [cfg EXCEPT ![p.user] = p.space]
        /\ declared' = [declared EXCEPT ![p.user] = p.size]
        /\ Become(r, Idle) /\ UNCHANGED <<envKnown, kbs>>
    BY <1>3 DEF CommitSettings, Finish
  <2>2. Ready(p)
    BY <2>1, IdleType DEF Turn
  <2>3. requests'[r] = Idle
    BY <2>1 DEF Become, IInv, Types
  <2>4. \A u \in Users : Dependent(u)' = Dependent(u)
    BY <2>1 DEF Dependent, Rows
  <2>5. ASSUME NEW u \in Users, cfg'[u] = None \/ declared'[u] = Dim(cfg'[u]),
               NEW k \in Dependent(u)
        PROVE  kbs[k].size = Dim(Embedder(cfg'[u]))
    <3>1. CASE u = p.user
      <4>1. cfg'[u] = p.space /\ declared'[u] = p.size
        BY <2>1, <3>1 DEF IInv, Types
      <4>2. kbs[k].size = IF p.space = None THEN Dim(EnvSpace) ELSE p.size
        BY <2>1, <2>2, <2>5, <3>1 DEF Ready
      <4> QED
        BY <2>5, <4>1, <4>2 DEF Embedder
    <3>2. CASE u # p.user
      BY <2>1, <2>5, <3>2 DEF Turn, Fits, IInv, Types
    <3> QED
      BY <3>1, <3>2
  <2>6. Fits'
    BY <2>1, <2>4, <2>5 DEF Fits
  <2> QED
    BY <2>1, <2>3, <2>6 DEF Turn
<1> QED
  BY <1>1, <1>2, <1>3 DEF Settings

LEMMA CreateKBTurn ==
  ASSUME IInv, NEW r \in Requests, Turn(r), NEW u \in Users, NEW k \in KBs,
         NEW own \in Spaces \cup {None}, CreateKB(r, u, k, own)
  PROVE  Turn(r)'
<1> DEFINE space == Resolved(own, u)
           known == space = None /\ EnvSize # 0
           q == [phase |-> IF known THEN "insert" ELSE "probe", user |-> u, kb |-> k,
                 space |-> space, own |-> own, size |-> IF known THEN EnvSize ELSE 0]
<1>1. Become(r, q) /\ UNCHANGED <<envKnown, cfg, declared, kbs>>
  BY DEF CreateKB
<1>2. own = None => space = cfg[u]
  BY DEF Resolved
<1>3. EnvSize = Dim(EnvSpace)
  BY DEF Turn, EnvSize
<1>4. known /\ own = None => EnvSize = Dim(Embedder(cfg[u]))
  BY <1>2, <1>3 DEF Embedder
<1>5. Ready(q)
  BY <1>2, <1>4 DEF Ready
<1> HIDE DEF q
<1> QED
  BY <1>1, <1>5, MoveTurn

LEMMA ProbeTurn ==
  ASSUME IInv, NEW r \in Requests, Turn(r), Probe(r) \/ ProbeFails(r)
  PROVE  Turn(r)'
<1> DEFINE p == requests[r]
           size == Dim(Embedder(p.space))
           q == [p EXCEPT !.phase = "insert", !.size = size]
<1>1. /\ p.phase = "probe" /\ (Become(r, q) \/ Become(r, Idle))
      /\ UNCHANGED <<envKnown, cfg, declared, kbs>>
  BY DEF Probe, ProbeFails, Finish
<1>2. Ready(p)
  BY <1>1, IdleType DEF Turn
<1>3. p \in Request
  BY DEF IInv, Types
<1>4. q.phase = "insert" /\ q.own = p.own /\ q.user = p.user /\ q.size = size
  BY <1>3 DEF Request
<1>5. Ready(q)
  BY <1>1, <1>2, <1>4 DEF Ready
<1> HIDE DEF q
<1> QED
  BY <1>1, <1>5, IdleReady, MoveTurn

LEMMA InsertRowTurn ==
  ASSUME IInv, NEW r \in Requests, Turn(r), InsertRow(r)
  PROVE  Turn(r)'
<1> DEFINE p == requests[r]
           k == p.kb
           row == [owner |-> p.user, size |-> p.size, own |-> p.own, docs |-> FALSE]
           q == [p EXCEPT !.phase = "collection"]
<1>1. /\ p.phase = "insert" /\ Become(r, q) /\ kbs' = [kbs EXCEPT ![k] = row]
      /\ UNCHANGED <<envKnown, cfg, declared>>
  BY DEF InsertRow
<1>2. Ready(p) /\ p \in Request /\ k \in KBs
  BY <1>1, IdleType DEF Turn, IInv, Types, Filled, MakingPhases
<1>3. q.phase = "collection"
  BY <1>2 DEF Request
<1>4. requests'[r] = q
  BY <1>1 DEF Become, IInv, Types
<1>5. row.size = p.size /\ row.own = p.own /\ row.owner = p.user
  OBVIOUS
<1> HIDE DEF row, q
<1>6. kbs'[k] = row /\ \A j \in KBs : j # k => kbs'[j] = kbs[j]
  BY <1>1, <1>2 DEF IInv, Types
<1>7. ASSUME NEW u \in Users, cfg[u] = None \/ declared[u] = Dim(cfg[u]),
             NEW j \in Dependent(u)'
      PROVE  kbs'[j].size = Dim(Embedder(cfg[u]))
  <2>1. j \in KBs /\ kbs'[j].owner = u /\ kbs'[j].own = None /\ kbs'[j] # None
    BY DEF Dependent, Rows
  <2>2. CASE j = k
    BY <1>1, <1>2, <1>5, <1>6, <2>1, <2>2 DEF Ready
  <2>3. CASE j # k
    BY <1>6, <1>7, <2>1, <2>3 DEF Turn, Fits, Dependent, Rows
  <2> QED
    BY <2>2, <2>3
<1>8. Fits'
  BY <1>1, <1>7 DEF Fits
<1>9. Ready(requests[r])'
  BY <1>3, <1>4 DEF Ready
<1> QED
  BY <1>1, <1>8, <1>9 DEF Turn

(* A request that ends, or fills a KB, changes no size and no setting; a   *)
(* row may go.                                                             *)
LEMMA LooseTurn ==
  ASSUME IInv, NEW r \in Requests, Turn(r), UNCHANGED <<envKnown, cfg, declared>>,
         \A k \in Rows' : /\ k \in Rows /\ kbs'[k].size = kbs[k].size
                          /\ kbs'[k].own = kbs[k].own /\ kbs'[k].owner = kbs[k].owner,
         requests'[r].phase \in {"idle", "remake", "refill", "claim", "ingest"}
  PROVE  Turn(r)'
<1>1. Fits'
  BY DEF Turn, Fits, Dependent
<1>2. Ready(requests[r])'
  BY DEF Ready
<1> QED
  BY <1>1, <1>2 DEF Turn

LEMMA CollectionTurn ==
  ASSUME IInv, NEW r \in Requests, Turn(r), CreateCollection(r) \/ CreateCollectionFails(r)
  PROVE  Turn(r)'
<1>1. requests'[r] = Idle /\ UNCHANGED <<envKnown, cfg, declared>>
  BY DEF CreateCollection, CreateCollectionFails, Finish, Become, IInv, Types
<1>2. \A k \in KBs : kbs'[k] \in {kbs[k], None}
  BY DEF CreateCollection, CreateCollectionFails, RollBack, IInv, Types
<1>3. \A k \in Rows' : k \in Rows /\ kbs'[k] = kbs[k]
  BY <1>2 DEF Rows
<1> QED
  BY <1>1, <1>3, IdleType, LooseTurn

LEMMA FillTurn ==
  ASSUME IInv, NEW r \in Requests, Turn(r), Fill(r)
  PROVE  Turn(r)'
<1>0. requests[r] \in Request
  BY DEF IInv, Types
<1>1. UNCHANGED <<envKnown, cfg, declared>>
  BY DEF Fill, Upload, Rebuild, Remake, RemakeFails, Claim, Orphaned, Ingest
<1>2. ASSUME NEW u \in Users, NEW k \in KBs, Upload(r, u, k) PROVE Turn(r)'
  <2>1. kbs[k] \in Row /\ k \in Rows /\ kbs' = [kbs EXCEPT ![k].docs = TRUE]
    BY <1>2 DEF Upload, Rows, IInv, Types
  <2>2. /\ kbs'[k].size = kbs[k].size /\ kbs'[k].own = kbs[k].own /\ kbs'[k].owner = kbs[k].owner
        /\ \A j \in KBs : j # k => kbs'[j] = kbs[j]
    BY <2>1 DEF IInv, Types, Row
  <2>3. \A j \in Rows' : /\ j \in Rows /\ kbs'[j].size = kbs[j].size
                         /\ kbs'[j].own = kbs[j].own /\ kbs'[j].owner = kbs[j].owner
    BY <2>1, <2>2 DEF Rows
  <2>4. requests'[r].phase \in {"idle", "ingest"}
    BY <1>2, UploadSlot
  <2> QED
    BY <1>1, <2>3, <2>4, LooseTurn
<1>3. ASSUME (\E k \in KBs : Rebuild(r, k)) \/ Remake(r) \/ RemakeFails(r)
              \/ Claim(r) \/ Orphaned(r) \/ Ingest(r)
      PROVE  Turn(r)'
  <2>1. kbs' = kbs /\ Rows' = Rows
    BY <1>3 DEF Rebuild, Remake, RemakeFails, Claim, Orphaned, Ingest, Rows
  <2>2. requests'[r].phase \in {"idle", "remake", "refill", "claim", "ingest"}
    <3>1. CASE \E k \in KBs : Rebuild(r, k)
      BY <3>1, RebuildSlot
    <3>2. CASE Remake(r) \/ RemakeFails(r) \/ Claim(r)
      BY <1>0, <3>2, IdleType DEF Remake, RemakeFails, Claim, Finish, Become, IInv, Types, Request
    <3>3. CASE Orphaned(r) \/ Ingest(r)
      BY <3>3, IdleType DEF Orphaned, Ingest, Finish, Become, IInv, Types
    <3> QED
      BY <1>3, <3>1, <3>2, <3>3
  <2> QED
    BY <1>1, <2>1, <2>2, LooseTurn
<1> QED
  BY <1>2, <1>3 DEF Fill

LEMMA StepTurn ==
  ASSUME IInv, NEW r \in Requests, Turn(r), Step(r)
  PROVE  Turn(r)'
BY SettingsTurn, CreateKBTurn, ProbeTurn, InsertRowTurn, CollectionTurn, FillTurn
   DEF Step, Create

LEMMA NextTurn == IInv /\ TurnIInv /\ [MCNext]_mcvars => TurnIInv'
<1> SUFFICES ASSUME IInv, TurnIInv, [MCNext]_mcvars PROVE TurnIInv'
  OBVIOUS
<1>1. ASSUME MCNext, NEW r \in Requests, Step(r) PROVE TurnIInv'
  <2>1. IsFiniteSet(InFlight')
    BY <1>1, FlightFinite DEF TurnIInv
  <2>2. ASSUME envKnown', ~raced'
        PROVE  AtMostOne' /\ Fits' /\ \A s \in InFlight' : Ready(requests[s])'
    <3>1. ~raced /\ ~(Cardinality(InFlight') > 1) /\ (InFlight = {} \/ requests' # requests)
      BY <1>1, <2>2 DEF MCNext
    <3>2. AtMostOne'
      BY <2>1, <3>1, AtMostOneOf DEF AtMostOne
    <3>3. envKnown
      BY <1>1, <2>2, Zenon DEF Step, Settings, ClearEmbedding, SaveEmbedding, CommitSettings,
         Create, CreateKB, Probe, ProbeFails, InsertRow, CreateCollection,
         CreateCollectionFails, Fill, Upload, Rebuild, Remake, RemakeFails, Claim,
         Orphaned, Ingest
    <3>4. Only(r)
      BY <1>1, <3>1, <3>2, <3>3, OnlyOne DEF TurnIInv
    <3>5. Turn(r)'
      BY <1>1, <3>1, <3>3, StepTurn DEF TurnIInv, Turn, InFlight
    <3>6. InFlight' \subseteq {r}
      BY <3>4 DEF InFlight, Only, Idle
    <3>7. r \in InFlight' => Ready(requests[r])'
      BY <3>5 DEF Turn, InFlight, Idle
    <3>8. \A s \in InFlight' : Ready(requests[s])'
      BY <3>6, <3>7
    <3> QED
      BY <3>2, <3>5, <3>8 DEF Turn
  <2> QED
    BY <2>1, <2>2 DEF TurnIInv
<1>3. ASSUME MCNext, Crash PROVE TurnIInv'
  <2>1. UNCHANGED <<envKnown, cfg, declared, kbs>> /\ (~raced' => ~raced)
    BY <1>3 DEF Crash, MCNext
  <2>2. InFlight' = {}
    BY <1>3 DEF Crash, InFlight, Idle
  <2>3. Fits => Fits'
    BY <2>1 DEF Fits, Dependent, Rows
  <2> QED
    BY <2>1, <2>2, <2>3, FS_EmptySet DEF TurnIInv, AtMostOne
<1>4. CASE UNCHANGED mcvars
  <2>1. UNCHANGED <<envKnown, cfg, declared, kbs, requests, raced>>
    BY <1>4 DEF mcvars, vars
  <2>2. InFlight' = InFlight /\ (AtMostOne => AtMostOne')
    BY <2>1 DEF InFlight, AtMostOne, Idle
  <2>3. Fits => Fits'
    BY <2>1 DEF Fits, Dependent, Rows
  <2>4. \A s \in InFlight : Ready(requests[s]) => Ready(requests[s])'
    BY <2>1 DEF Ready, Dependent, Rows
  <2> QED
    BY <2>1, <2>2, <2>3, <2>4 DEF TurnIInv
<1> QED
  BY <1>1, <1>3, <1>4 DEF MCNext, Next, Step

LEMMA InitTurn == MCInit => IInv /\ TurnIInv
<1> SUFFICES ASSUME MCInit PROVE TurnIInv
  BY InitIInv DEF MCInit
<1>1. InFlight = {} /\ Rows = {}
  BY DEF MCInit, Init, InFlight, Rows
<1>2. Fits
  BY <1>1 DEF Fits, Dependent
<1> QED
  BY <1>1, <1>2, FS_EmptySet DEF TurnIInv, AtMostOne

(* The invariants of the model hold with the history variable too. *)
LEMMA TurnInvariance == MCSpec => [](IInv /\ TurnIInv)
<1>1. [MCNext]_mcvars => [Next]_vars
  BY DEF MCNext, mcvars
<1> QED
  BY <1>1, InitTurn, NextIInv, NextTurn, PTL DEF MCSpec

(* While requests take turns and the dimension of the environment's model  *)
(* is known: whatever was saved, wrong dimensions too, cleared, created or *)
(* lost in a crash, the owner of a KB without settings of its own has it   *)
(* in the dimension of the owner's embeddings, if the one saved with them  *)
(* is theirs (the dim-conflict checks of PUT and DELETE /embedding).       *)
THEOREM FallbackFits == MCSpec => []FallbackFitsInTurn
<1>1. TurnIInv => FallbackFitsInTurn
  BY DEF TurnIInv, Fits, FallbackFitsInTurn
<1> QED
  BY <1>1, TurnInvariance, PTL
===============================================================================
