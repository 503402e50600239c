------------------------------ MODULE MCKBIngest ------------------------------
(***************************************************************************)
(* KBIngest for TLC, with two history variables its properties speak of.   *)
(***************************************************************************)
EXTENDS KBIngest, TLC

VARIABLES
  overlapped,  \* two requests have been in progress at once
  lost         \* documents whose ingest was given up with its task queue

mcvars == <<vars, overlapped, lost>>

(* Slots are interchangeable. *)
Symmetry == Permutations(Actors)

Busy == {a \in Actors : ~At(a, "idle")}

(* What an actor that stops now leaves undone: the queued documents, and a *)
(* document whose row was committed but never scheduled.                   *)
Undone(a) == actors[a].queue \cup
             (IF At(a, "insert") THEN {actors[a].doc} \ {"none"} ELSE {})

MCInit == Init /\ overlapped = FALSE /\ lost = {}

MCNext ==
  /\ Next
  /\ overlapped' = (overlapped \/ Cardinality(Busy') > 1)
  /\ lost' = lost \cup UNION {Undone(a) : a \in Busy \ Busy'}

MCSpec ==
  /\ MCInit /\ [][MCNext]_mcvars
  /\ \A a \in Actors : WF_vars(Work(a) /\ UNCHANGED rebuilds)

-------------------------------------------------------------------------------

(* As long as requests do not overlap, the count of the KB is the sum over *)
(* its documents, through failures, crashes and rebuilds.                  *)
CountIsSum == ~overlapped /\ KBLive =>
                kb.count = MapThenSumSet(LAMBDA d : docs[d].n, Docs)

(* As long as requests do not overlap and nothing fails, the three stores  *)
(* agree at rest: a done document has exactly its chunks, others have none; *)
(* the collection lives as long as the KB; the files are those of the rows. *)
StoresAgree ==
  (AllIdle /\ faults = 0 /\ ~overlapped) =>
    /\ \A d \in Docs : Points(d) = IF docs[d].st = "done" THEN 1..docs[d].n ELSE {}
    /\ coll = KBLive
    /\ files = {d \in Docs \ UrlDocs : Live(d)}

(* An accepted document is ingested or marked failed in the end, unless the *)
(* queue it waits in is cut short (a crash, a store that fails in a rebuild, *)
(* a commit that raises): then nothing resumes it.                          *)
EveryDocSettles ==
  \A d \in Docs : docs[d].st \in {"pending", "ingesting"}
                  ~> docs[d].st \notin {"pending", "ingesting"} \/ d \in lost
===============================================================================
