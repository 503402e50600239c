---------------------------- MODULE ShortTermMemory ----------------------------
(***************************************************************************)
(* Batch compression of one conversation                                   *)
(* (src/backend/src/conversations/short_term_memory.py).                   *)
(*                                                                         *)
(* Every archived assistant message starts a background task on the worker *)
(* process that served the request.  The task takes the worker's           *)
(* per-conversation lock, reads a snapshot of the row, asks the LLM for    *)
(* one summary per full batch, commits by compare-and-swap on              *)
(* compressed_count and mirrors the result into Redis.  The database row   *)
(* and Redis are shared by all workers; locks and the Redis breaker belong *)
(* to one process.  The Redis message list is not modelled here.           *)
(***************************************************************************)
EXTENDS Integers, Sequences, SequencesExt, FiniteSets

CONSTANTS
  Workers,       \* worker processes
  Tasks,         \* slots for background updates: at most |Tasks| in flight
  Pieces,        \* what the LLM may answer; the empty answer is a failure
  None,          \* absent value
  WindowSize,    \* settings.memory_window_size, in rounds
  Batch,         \* settings.memory_compression_batch, in rounds
  MaxMessages,   \* bound: messages of the conversation
  MaxImported,   \* bound: messages it may be imported with
  MaxLate,       \* bound: messages that sort before some that came earlier
  MaxEvictions   \* bound: evictions of a worker's lock map

ASSUME STMAssumption ==
  /\ WindowSize \in Nat /\ Batch \in Nat
  /\ MaxMessages \in Nat /\ MaxImported \in Nat /\ MaxLate \in Nat
  /\ MaxEvictions \in Nat

VARIABLES
  messages,   \* the archived messages in created_at order, each with the
              \* number under which it arrived
  exists,     \* the conversation row exists (after a delete the values stay)
  conv,       \* the row: context_summary, compressed_count, watermark
  hot,        \* the Redis meta hash: None or [summary, count]
  tasks,      \* the background updates
  lockGen,    \* which lock object a worker's map holds for the conversation
  broken      \* a worker's Redis client tripped its breaker

vars == <<messages, exists, conv, hot, tasks, lockGen, broken>>

Roles == {"user", "assistant"}

Message == [id : Nat, role : Roles]

(* A labelled piece of context_summary: rounds lo..hi, and the LLM's text. *)
Segment == [lo : Nat, hi : Nat, piece : Pieces]

(* Number of rounds in the first n messages: a round starts at each user   *)
(* message, and at the first message whatever its role.                    *)
RoundsIn(msgs, n) == Cardinality({i \in 1..n : i = 1 \/ msgs[i].role = "user"})

Rounds(msgs) == RoundsIn(msgs, Len(msgs))

(* Index of the last message of round r: how many messages belong to       *)
(* rounds 1..r.                                                            *)
RoundEnd(msgs, r) == Cardinality({i \in 1..Len(msgs) : RoundsIn(msgs, i) <= r})

(* The rounds of a snapshot, each as the id of its last message.           *)
GroupRounds(msgs) == [r \in 1..Rounds(msgs) |-> msgs[RoundEnd(msgs, r)].id]

Late(msgs) == {i \in 1..Len(msgs) : \E j \in i+1..Len(msgs) : msgs[j].id < msgs[i].id}

(* Messages sort as they arrived: nobody imported a later created_at.      *)
InOrder(msgs) == \A i \in 1..Len(msgs) : msgs[i].id = i

Enabled == WindowSize > 0 /\ Batch > 0

TaskState ==
  [phase : {"idle", "waiting", "loop", "commit", "mirror"},
   worker : Workers \cup {None}, gen : Nat, rounds : Seq(Nat),
   summary : Seq(Segment), count : Nat, orig : Nat, watermark : Nat]

IdleTask ==
  [phase |-> "idle", worker |-> None, gen |-> 0, rounds |-> << >>,
   summary |-> << >>, count |-> 0, orig |-> 0, watermark |-> 0]

-------------------------------------------------------------------------------

Init ==
  /\ \E n \in 0..MaxImported : \E roles \in [1..n -> Roles] :
       messages = [i \in 1..n |-> [id |-> i, role |-> roles[i]]]
  /\ exists = TRUE
  /\ conv = [summary |-> << >>, count |-> 0, watermark |-> 0]
  /\ hot = None
  /\ tasks = [t \in Tasks |-> IdleTask]
  /\ lockGen = [w \in Workers |-> 0]
  /\ broken = [w \in Workers |-> FALSE]

(* A Redis operation of worker w: done when its client is usable, else a   *)
(* no-op; a failure trips the client for the life of the process.          *)
RedisDone(w) == ~broken[w] /\ UNCHANGED broken
RedisSkipped(w) == broken[w] /\ UNCHANGED broken
RedisFails(w) == ~broken[w] /\ broken' = [broken EXCEPT ![w] = TRUE]

(* A new message sorts at place k, often but not always the last: imported *)
(* messages keep their client's created_at and each worker has its clock.  *)
Lands(k, role) ==
  /\ exists
  /\ Len(messages) < MaxMessages
  /\ k <= Len(messages) => Cardinality(Late(messages)) < MaxLate
  /\ messages' = InsertAt(messages, k, [id |-> Len(messages) + 1, role |-> role])

(* POST /conversations/{id}/messages: archive the message; an assistant    *)
(* turn also schedules an update that will queue on the worker's lock.     *)
(* When the user's LLM key cannot be decrypted, the request fails between  *)
(* the two.                                                                *)
AppendUser(k) ==
  /\ Lands(k, "user")
  /\ UNCHANGED <<exists, conv, hot, tasks, lockGen, broken>>

AppendAssistant(k, t, w) ==
  /\ Lands(k, "assistant")
  /\ tasks[t].phase = "idle"
  /\ \/ tasks' = [tasks EXCEPT ![t] = [IdleTask EXCEPT !.phase = "waiting",
                                         !.worker = w, !.gen = lockGen[w]]]
     \/ UNCHANGED tasks
  /\ UNCHANGED <<exists, conv, hot, lockGen, broken>>

(* Holds the lock object: from the snapshot to the end of the update. *)
Holds(t) == tasks[t].phase \in {"loop", "commit", "mirror"}

SameLock(t, u) == /\ tasks[u].worker = tasks[t].worker
                  /\ tasks[u].gen = tasks[t].gen

(* Mutant of LockFree: updates of one worker do not exclude each other. *)
LockIgnored(t) == TRUE

LockFree(t) == \A u \in Tasks \ {t} : ~(Holds(u) /\ SameLock(t, u))

Finish(t) == tasks' = [tasks EXCEPT ![t] = IdleTask]

(* Mutant of Snapshot: a deleted conversation is read as an empty row. *)
SnapshotOfMissingRow(t) ==
  /\ tasks[t].phase = "waiting"
  /\ LockFree(t)
  /\ tasks' = [tasks EXCEPT ![t] = [@ EXCEPT
                  !.phase = "loop", !.rounds = GroupRounds(messages),
                  !.summary = IF exists THEN conv.summary ELSE None,
                  !.count = conv.count, !.orig = conv.count,
                  !.watermark = conv.watermark]]
  /\ UNCHANGED <<messages, exists, conv, hot, lockGen, broken>>

(* Phase 1 under the lock: one consistent read of the row and messages. *)
Snapshot(t) ==
  /\ tasks[t].phase = "waiting"
  /\ LockFree(t)
  /\ IF Enabled /\ exists
       THEN tasks' = [tasks EXCEPT ![t] = [@ EXCEPT
                        !.phase = "loop", !.rounds = GroupRounds(messages),
                        !.summary = conv.summary, !.count = conv.count,
                        !.orig = conv.count, !.watermark = conv.watermark]]
       ELSE Finish(t)
  /\ UNCHANGED <<messages, exists, conv, hot, lockGen, broken>>

(* Mutant of Triggered: the verbatim window is not set aside. *)
TriggeredEarly(t) == Len(tasks[t].rounds) - tasks[t].count >= Batch

(* The uncompressed rounds beyond the window fill a batch. *)
Triggered(t) ==
  (Len(tasks[t].rounds) - tasks[t].count) - WindowSize >= Batch

(* Mutants of CompressBatch: the batch starts at a round already folded;   *)
(* the watermark jumps to the newest message of the snapshot.              *)
CompressBatchOverlapping(t, p) ==
  LET hi == tasks[t].count + Batch
      seg == [lo |-> tasks[t].count, hi |-> hi, piece |-> p]
  IN /\ tasks[t].phase = "loop"
     /\ Triggered(t)
     /\ tasks' = [tasks EXCEPT ![t] = [@ EXCEPT
                    !.summary = Append(tasks[t].summary, seg), !.count = hi,
                    !.watermark = tasks[t].rounds[hi]]]
     /\ UNCHANGED <<messages, exists, conv, hot, lockGen, broken>>

CompressBatchMarksAll(t, p) ==
  LET hi == tasks[t].count + Batch
      seg == [lo |-> tasks[t].count + 1, hi |-> hi, piece |-> p]
  IN /\ tasks[t].phase = "loop"
     /\ Triggered(t)
     /\ tasks' = [tasks EXCEPT ![t] = [@ EXCEPT
                    !.summary = Append(tasks[t].summary, seg), !.count = hi,
                    !.watermark = Last(tasks[t].rounds)]]
     /\ UNCHANGED <<messages, exists, conv, hot, lockGen, broken>>

(* One LLM call that answers: fold the oldest uncompressed batch in. *)
CompressBatch(t, p) ==
  LET hi == tasks[t].count + Batch
      seg == [lo |-> tasks[t].count + 1, hi |-> hi, piece |-> p]
  IN /\ tasks[t].phase = "loop"
     /\ Triggered(t)
     /\ tasks' = [tasks EXCEPT ![t] = [@ EXCEPT
                    !.summary = Append(tasks[t].summary, seg), !.count = hi,
                    !.watermark = tasks[t].rounds[hi]]]
     /\ UNCHANGED <<messages, exists, conv, hot, lockGen, broken>>

(* The loop ends: nothing is triggered any more, or the LLM gave nothing. *)
LeaveLoop(t) ==
  /\ tasks[t].phase = "loop"
  /\ IF tasks[t].count = tasks[t].orig
       THEN Finish(t)
       ELSE tasks' = [tasks EXCEPT ![t].phase = "commit"]
  /\ UNCHANGED <<messages, exists, conv, hot, lockGen, broken>>

(* Mutant of CASMatches: UPDATE ... WHERE id, without the count. *)
CASUnchecked(t) == exists

(* Phase 2: UPDATE ... WHERE id AND compressed_count = the snapshot's. *)
CASMatches(t) == exists /\ conv.count = tasks[t].orig

CommitWins(t) ==
  /\ tasks[t].phase = "commit"
  /\ CASMatches(t)
  /\ conv' = [summary |-> tasks[t].summary, count |-> tasks[t].count,
              watermark |-> tasks[t].watermark]
  /\ tasks' = [tasks EXCEPT ![t].phase = "mirror"]
  /\ UNCHANGED <<messages, exists, hot, lockGen, broken>>

(* Mutant of CommitLoses: the update is tried again as it stands. *)
CommitLosesAndRetries(t) ==
  /\ tasks[t].phase = "commit"
  /\ ~CASMatches(t)
  /\ UNCHANGED vars

CommitLoses(t) ==
  /\ tasks[t].phase = "commit"
  /\ ~CASMatches(t)
  /\ Finish(t)
  /\ UNCHANGED <<messages, exists, conv, hot, lockGen, broken>>

(* _write_meta: best-effort HSET, then EXPIRE.  When only EXPIRE fails the *)
(* hash is written and the client is broken all the same.                  *)
Mirror(t) ==
  LET w == tasks[t].worker
      meta == [summary |-> tasks[t].summary, count |-> tasks[t].count]
  IN /\ tasks[t].phase = "mirror"
     /\ \/ RedisSkipped(w) /\ UNCHANGED hot
        \/ RedisDone(w) /\ hot' = meta
        \/ RedisFails(w) /\ hot' \in {hot, meta}
     /\ Finish(t)
     /\ UNCHANGED <<messages, exists, conv, lockGen>>

(* clear_conversation_hot_state, called by the finalize route. *)
ClearHotState(w) ==
  /\ \/ RedisSkipped(w) /\ UNCHANGED hot
     \/ RedisDone(w) /\ hot' = None
     \/ RedisFails(w) /\ UNCHANGED hot
  /\ UNCHANGED <<messages, exists, conv, tasks, lockGen>>

(* get_context_summary on worker w: HGET answers, or trips the breaker and *)
(* the row is read instead.  Either way only the breaker can change.       *)
ReadSummary(w) ==
  /\ RedisFails(w)
  /\ UNCHANGED <<messages, exists, conv, hot, tasks, lockGen>>

(* DELETE /conversations/{id}: the row goes; Redis is not touched. *)
DeleteConversation ==
  /\ exists
  /\ exists' = FALSE
  /\ UNCHANGED <<messages, conv, hot, tasks, lockGen, broken>>

(* External: the TTL, an eviction or a restart of Redis drops the hash. *)
HotExpires ==
  /\ hot # None
  /\ hot' = None
  /\ UNCHANGED <<messages, exists, conv, tasks, lockGen, broken>>

(* A crowded lock map drops the conversation's lock object between its     *)
(* release and the wake-up of a waiter: later tasks use a new one.         *)
EvictLock(w) ==
  /\ lockGen[w] < MaxEvictions
  /\ \A t \in Tasks : ~(Holds(t) /\ tasks[t].worker = w /\ tasks[t].gen = lockGen[w])
  /\ \E t \in Tasks : /\ tasks[t].phase = "waiting"
                      /\ tasks[t].worker = w /\ tasks[t].gen = lockGen[w]
  /\ lockGen' = [lockGen EXCEPT ![w] = @ + 1]
  /\ UNCHANGED <<messages, exists, conv, hot, tasks, broken>>

(* A worker dies and is restarted: its tasks are lost, its client is new. *)
Crash(w) ==
  /\ tasks' = [t \in Tasks |-> IF tasks[t].worker = w THEN IdleTask ELSE tasks[t]]
  /\ broken' = [broken EXCEPT ![w] = FALSE]
  /\ UNCHANGED <<messages, exists, conv, hot, lockGen>>

TaskStep(t) ==
  \/ Snapshot(t)
  \/ \E p \in Pieces : CompressBatch(t, p)
  \/ LeaveLoop(t)
  \/ CommitWins(t)
  \/ CommitLoses(t)
  \/ Mirror(t)

Next ==
  \/ \E k \in 1..Len(messages) + 1 :
       AppendUser(k) \/ \E t \in Tasks, w \in Workers : AppendAssistant(k, t, w)
  \/ \E t \in Tasks : TaskStep(t)
  \/ DeleteConversation
  \/ HotExpires
  \/ \E w \in Workers : ClearHotState(w) \/ ReadSummary(w) \/ EvictLock(w) \/ Crash(w)

Spec == Init /\ [][Next]_vars

(* asyncio runs every task and an asyncio.Lock wakes its waiters in order: *)
(* a task that can step again and again eventually does.                   *)
FairSpec == Spec /\ \A t \in Tasks : SF_vars(TaskStep(t))

-------------------------------------------------------------------------------
(* Properties *)

TypeOK ==
  /\ messages \in Seq(Message)
  /\ exists \in BOOLEAN
  /\ conv \in [summary : Seq(Segment), count : Nat, watermark : Nat]
  /\ hot \in {None} \cup [summary : Seq(Segment), count : Nat]
  /\ tasks \in [Tasks -> TaskState]
  /\ lockGen \in [Workers -> Nat]
  /\ broken \in [Workers -> BOOLEAN]

(* t continues s. *)
Continues(t, s) ==
  /\ Len(s) <= Len(t)
  /\ \A i \in 1..Len(s) : t[i] = s[i]

(* s is the batches of rounds 1..n, in order, each exactly once. *)
Covers(s, n) ==
  /\ \A i \in 1..Len(s) :
       /\ s[i].lo = (IF i = 1 THEN 0 ELSE s[i-1].hi) + 1
       /\ s[i].hi = s[i].lo + Batch - 1
  /\ n = IF s = << >> THEN 0 ELSE s[Len(s)].hi

(* Whatever workers race, the durable summary holds rounds 1..count in     *)
(* order and none of them twice (the compare-and-swap of maybe_compress).  *)
SummaryIsExact == Covers(conv.summary, conv.count)

(* No update ever rewrites or drops committed text, nor lowers the count:  *)
(* a stale run is discarded whole.                                         *)
SummaryOnlyGrows ==
  [][/\ Continues(conv'.summary, conv.summary)
     /\ conv'.count >= conv.count]_vars

(* A round is folded only when WindowSize newer rounds exist: the window   *)
(* of the newest rounds is never summarised, however old the snapshot.     *)
WindowStaysVerbatim ==
  conv.count > 0 => Rounds(messages) - conv.count >= WindowSize

(* While messages sort as they arrive, the watermark is the last message   *)
(* of the last summarised round, and stays so (lines 344-346).  A message  *)
(* that lands before others shifts the rounds under a committed count, and *)
(* nothing is promised of the watermark then.                              *)
WatermarkEndsRound ==
  conv.count > 0 /\ InOrder(messages) =>
    conv.watermark = GroupRounds(messages)[conv.count]

(* Redis never answers with a text the database did not commit first.      *)
HotWasCommitted ==
  hot # None => Continues(conv.summary, hot.summary) /\ Covers(hot.summary, hot.count)

(* What a task in flight carries: an exact summary of its own, no older    *)
(* count than its snapshot, and, as long as the compare-and-swap can still *)
(* match, a continuation of the durable summary.  This is what makes the   *)
(* swap safe: an equal count means an equal text.                          *)
UpdateIsSound(t) ==
  LET u == tasks[t]
  IN Holds(t) =>
       /\ Enabled
       /\ Covers(u.summary, u.count)
       /\ Len(u.rounds) <= Rounds(messages)
       /\ InOrder(messages) =>
            \A r \in 1..Len(u.rounds) - 1 : u.rounds[r] = GroupRounds(messages)[r]
       /\ u.orig <= u.count /\ u.orig <= conv.count
       /\ u.phase # "loop" => u.orig < u.count
       /\ u.orig < u.count =>
            /\ Len(u.rounds) - u.count >= WindowSize
            /\ u.watermark = u.rounds[u.count]
       /\ u.phase # "mirror" /\ u.orig = conv.count
            => Continues(u.summary, conv.summary)
       /\ u.phase = "mirror" => Continues(conv.summary, u.summary)

UpdatesAreSound == \A t \in Tasks : UpdateIsSound(t)

(* The mirrored bookkeeping never moves backwards. *)
HotNeverRegresses ==
  [][hot # None /\ hot' # None => hot'.count >= hot.count]_vars

(* Every scheduled update ends and releases the lock. *)
EveryUpdateEnds ==
  \A t \in Tasks : tasks[t].phase # "idle" ~> tasks[t].phase = "idle"

(* The abstract specification: an append-only log and a volatile replica. *)
Log == INSTANCE SummaryLog WITH
         log <- conv.summary,
         replica <- IF hot = None THEN None ELSE hot.summary,
         NoReplica <- None

RefinesSummaryLog == Log!Spec
===============================================================================
