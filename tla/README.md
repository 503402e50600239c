# AnyKB: a TLA+ model of the backend

AnyKB is a chat assistant with knowledge bases and a memory. Its backend
(`src/backend/src`, Python, FastAPI) runs as several app processes on asyncio.
The processes share PostgreSQL, a vector database and Redis; there is no common
transaction between the three. This directory models the parts of the backend
that keep state, checks them with TLC on small instances and proves theorems
about the core with TLAPS.

## 1. Inventory

| Component | State | Operations | Hard about it |
|---|---|---|---|
| Short-term memory (`conversations/short_term_memory.py`) | conversation row (`context_summary`, `compressed_count`, `compression_watermark`), Redis meta hash and message list, a lock map per process | append a message, background update (`_memory_update`, `maybe_compress`), read, clear | updates on several workers race between a snapshot and a commit minutes later; Redis may fail for one worker only |
| Conversation archive (`conversations/routes.py`) | conversations, messages, `finalized_at` | append, import, finalize, delete | a request claims a conversation against the scans of all workers |
| Session end (`long_term_memory.py`, `memory_maintenance.py`) | `finalized_at`, jobs in flight | finalize, nightly scan, extraction, keyword task | claim once, extract once, starve nobody |
| Long-term memories (`long_term_memory.py`, `memory_routes.py`, `infra/memory_vector.py`) | `user_memories` rows, their vectors, profile hash in Redis | persist, patch, delete, read profile | three stores are updated one after the other, each may fail alone |
| Maintenance (`memory_maintenance.py`) | none of its own | deduplicate, decay, evict, scan | works on snapshots next to writers and to other instances |
| Knowledge bases (`kb/routes.py`, `kb/ingest.py`) | `kbs`, `kb_documents`, vector collection, upload directory, in-memory task queues | create, upload, ingest, delete document, rebuild, purge | a crash between any two stores; ingest tasks outlive their requests; read-modify-write of a counter |
| Sharing (`kb/routes.py`, `kb/models.py`) | `kb_members`, `kb_invitations` | invite, change role, remove, link, accept, revoke | checks and commits are separate awaits |
| Accounts (`auth`, `admin/routes.py`) | `users.is_admin`, `users.is_active` | register, patch, delete, leave, seed at startup | the last-admin rule under concurrency |
| Chunker (`kb/chunker.py`) | local variables of one loop | pack atoms into chunks | a running length and a carried tail |
| Agent loop (`agent/nodes.py`, `agent/graph.py`, `app.py`) | graph state of one request, its task, the event queue, the generator that streams it | check, plan, gather tool and skill calls, report, stream, cancel | tools run on after another raised, the client leaves at any await, two limits on one loop |
| Prompt builder (`agent/context_builder.py`, `infra/llm.py`) | none | window, truncation to the budget, OpenAI form | cuts must not fall inside a tool round |
| Embedding settings (`settings_user`, `infra/embedding.py`, `kb/routes.py`) | `user_settings`, the settings and `vector_size` of a KB, dimension of its collection, the probed dimension of the process | save, clear, resolve, probe, create, upload, rebuild | four places decide which model embeds; checks read before they commit |
| Rate limiter, tools, LLM and vector clients | deques, breaker | calls that answer or fail | choices in the models that call them |
| Parsers, tokens, migrations, frontend | none that others race on | | not modelled, section 7 |

Interactions. An archived assistant message starts the compression task. The end of a
conversation (or a keyword in a message) starts an extraction, which persists memories.
A chat request builds its prompt from the messages it was sent, the summary and the
memories, and its tools search the KBs with the embedding settings that filled them.
Every write of a memory drops the profile hash. A KB request schedules ingest tasks that
run after its response in the same process. Purging a user touches accounts, KBs,
conversations and memories in one transaction.

What makes each component correct is stated as its properties below; the
hazards behind them are listed, with their lines, in `PROJECT.json`.

## 2. Modules

| Module | Models | Composes with |
|---|---|---|
| `SummaryLog` | what compression promises: an append-only log with a volatile replica that only ever holds a past value | implemented by `ShortTermMemory` |
| `ShortTermMemory` | one conversation, `Workers` processes, `Tasks` updates in flight | `Log == INSTANCE SummaryLog` is its refinement mapping |
| `KBIngest` | one KB, its documents, three stores, `Actors` requests with their ingest queues | |
| `UserMemories` | the memories of one user, index, cache, janitors | |
| `SessionEnd` | the conversations of one user and the jobs that end them | |
| `Accounts` | the two platform flags and the admin API | |
| `KBSharing` | owners, members, links and the requests on them | |
| `Chunker` | the packing loop, on the lengths of the atoms | |
| `ContextBuilder` | the prompt: window, truncation, OpenAI messages, as operators on sequences of messages | used by `AgentLoop` |
| `AgentLoop` | one chat request: its task, the calls it gathers, its event stream, its client | extends `ContextBuilder`: every prompt the loop builds is one of its operators applied to the messages the loop collected |
| `EmbeddingSpaces` | settings of the users, rows, collections and the requests that resolve a model, for several users and KBs | the document pipeline itself is in `KBIngest` |
| `MC*` | symmetry sets, and the history variables below | extend the module they are named after |
| `*_proofs` | the TLAPS proofs of the module they are named after | section 4 |

Conventions. A step boundary is an `await` that leaves the process (a query, a
commit, a store, an LLM); what happens between two awaits is one action, since
asyncio does not preempt. Every check and write a handler makes is in its
actions, in the code's order. Definitions under a comment "Mutant ..." are not
part of the model: they are changed versions of the definition after them, used
to see that the properties notice.

**SQLAlchemy.** A session keeps the row it loaded first (identity map) and its
commit writes only the columns that changed since, so a racing commit of another
column survives and a computed counter does not: `Written` in `KBIngest`,
`Patched` in `Accounts`, `Found` and `Used` in `KBSharing`. An UPDATE that finds
no row raises and rolls back; a DELETE that finds none does nothing. These and
the background tasks of Starlette, Redis expiry and process deaths are the
external definitions of the map.

**History variables.** Some promises hold only while actors take turns. The MC
modules remember whether two were ever at work at once (`overlapped`, `raced`)
and the `...InTurn` properties speak of the runs where they were not, through
faults, crashes and restarts as stated; the same run checks the other
properties under all interleavings. `lost` in `MCKBIngest` collects the
documents whose ingest was given up together with its queue.

### Correspondence in short

- `ShortTermMemory`: `messages` is the archive in the order of `created_at`, each
  message with its role (a round starts at each user message) and the number under which
  it arrived. A new one lands at any place (`Lands`): imported messages keep the
  client's timestamps, future ones too, and every worker stamps by its own clock. A task
  keeps its snapshot as the last message of each round. `conv` is the row, `hot` the
  meta hash, `lockGen` which lock object the worker's map holds (pruning makes a new
  one), `broken` the Redis breaker. A task goes waiting -> loop -> commit -> mirror:
  `Snapshot` (phase 1 under the lock), `CompressBatch` (one LLM call and one batch),
  `LeaveLoop`, `CommitWins` / `CommitLoses` (the compare-and-swap), `Mirror`
  (`_write_meta`). The summary is a sequence of segments `[lo, hi, piece]`, the labelled
  batches the code appends; the numbers are those the rounds had in the snapshot that
  was folded.
- `KBIngest`: `kb` and `docs` are rows with status and count, `vec` the embedding
  space of each stored point, `files` the uploads. An actor's `pc` is where its
  handler or ingest task awaits; `queue` is its `BackgroundTasks`. A creation or
  rebuild that fails in the store may have made the collection all the same.
- `UserMemories`: `row` (none, active, culled = soft-deleted, gone), `vec` the
  text each vector was made from, `cache` the profile. Memories with equal text
  are what the search scores above the duplicate threshold; it returns at most
  `NeighborLimit` of them (`_DEDUP_NEIGHBOR_LIMIT`), any so many.
- `SessionEnd`: a conversation `exists`, is `idle` (a day without update) or
  `final`; `jobs` are requests, scans and keyword tasks. A request that has claimed
  its conversation looks it up again and decrypts the LLM key (`Resolve`), and may
  fail at either. Of a memory that is stored only that the run goes on is kept.
- `Accounts`, `KBSharing`: a request has a phase (load, check / look, commit) and
  carries what it read.
- `AgentLoop`: `task` is where `run_agent` is in the graph (plan, tools, report,
  tokens), `consumer` where `event_gen` is, `calls` the pending tool calls and how
  far each coroutine of the gather is, `stream` everything put on the queue, with
  its sentinel. Events are emitted by the actions that emit them in the code, so a
  call that outlives the gather still writes to the stream. `prompt` is what the
  last planning step sent.
- `ContextBuilder`: a message is its kind, the ids of its calls and its size;
  `WindowMessages`, `NextTurn` and the truncation are the functions of that name.
- `EmbeddingSpaces`: `cfg` is a user's saved model, `declared` the dimension the
  client sent with it, which nothing probes, `kbs[k].own` the KB's own,
  `collections[k].spaces` the models whose vectors are in the collection,
  `probed` the module-level `_probed_dims`. `Resolved` is `resolve_kb_embedding`.
  Row and collection of a KB are made in two steps, a rebuild drops the collection
  (`Rebuild`) and makes it anew (`Remake`), and the store may fail in the second half
  of a creation, when the collection is there and its index is not.
- `Chunker`: `atoms` are lengths, `first .. next-1` is `current`, `len` is
  `current_len`, a chunk is an interval of atoms.

## 3. Runs

| Run | Shows | Instance |
|---|---|---|
| `stm_race` | the durable summary is rounds 1..count once and in order, only grows, never reaches the verbatim window; the watermark ends its last round while messages sort as they arrive; Redis holds only committed values; refinement of `SummaryLog` | 2 workers, 2 updates, 4 messages (2 imported), 1 of them sorted before an earlier one, window 1, batch 1, 1 lock pruning; crashes, broken Redis, deletion |
| `stm_single` | on one worker the Redis copy never goes back, every update ends | 2 updates, 6 messages (5 imported), 1 out of order, window 1, batch 2 |
| `kb_race` | rows keep their KB and file, nothing deleted returns (any interleaving); count is the sum and stores agree (in turn) | a file and a URL document, 2 actors, 1 fault, 1 rebuild |
| `kb_settle` | an accepted document is ingested or failed in the end, unless its queue was cut short | 1 URL document of 1 or 2 chunks, own space of other dimension, 2 actors, 1 fault, 1 rebuild |
| `um_race` | no resurrection, no active memory without vector (any interleaving); profile, index, deduplication, eviction right (in turn; deduplication also for one janitor among racing writers) | 3 memories, 2 texts, 2 actors of which both may be janitors, searches of 2 neighbours, 1 deletion, 1 edit, 2 nights, 1 fault, 2 of the last three together |
| `acct_race` | no one changes its own flags (any interleaving); an active admin remains (in turn, with restarts) | 3 users, 1 in the allowlist, 2 requests; a patch of both flags races with none |
| `share_race` | members change only by the owner or themselves, counters within their limit, the owner is no member (any interleaving); every use counted (in turn) | 3 users, 1 KB, 1 link of max_uses 1 or unbounded, 2 admissions, 2 requests, 1 purge |
| `se_race` | extracted at most once and only when claimed, a claimed conversation gets its run unless the server dies, it is deleted or its key cannot be decrypted, no idle one starves | 2 conversations, 2 jobs, scan limit 1, 1 crash |
| `chunk_all` | length bookkeeping exact, no text lost or reordered, chunk size bounded | every text of at most 5 atoms of at most 7 characters, target 6, overlap 3 |
| `chat` | the model is never asked with half a tool round and gets the longest history that fits; the stream can be followed; the loop's limit comes before the graph's; every request ends | histories of up to 3 messages, 2 iterations, 2 calls per answer, results of 1 or 2 tokens, window 2 rounds, budgets 5 and 3, report of 1 piece |
| `emb_race` | a KB with settings of its own has their dimension and, until a rebuild, their vectors only, and a row has a collection of its size, unless its creation or rebuild was cut off (any interleaving); KBs without fit their owner's settings if the declared dimension is the model's (in turn) | 2 users, 1 KB, 3 models of 2 dimensions, 2 requests, no forced own keys, any crashes and store failures |
| `emb_rebuild` | expected violation, section 5 | 1 user, 1 KB, 2 models of one dimension, 1 request |

The properties of each run are listed in its `.cfg`. Of the type invariants only
that of the core is run; the others are theorems (section 4).

Why the bounds are enough. Every race of this code is between two actors around one row
or one document; two slots, with any number of actors reusing them, reach all of these,
and where a third party matters (an admin of two others, an owner with two members)
there are three users. Window 1 and batch 1 make each compression start as early as it
can with rounds of any shape; `stm_single` has a batch of two so that partial batches
occur. One message that sorts before an earlier one (`MaxLate`) is what shifts the
rounds under a committed count. One fault may strike at every step. A fault bound of one
is not "one crash in the life of the system": after it the run goes on, so each
consequence of a crash is seen, only combinations of two independent faults are not.

In `um_race`, three memories are the least with which a leader, a duplicate it culls
and one that a search of two neighbours leaves over exist at once, or a duplicate
written while the janitor is at work. Ids are handed out in the order of the
commits (`CONSTRAINT IdsInOrder`, a choice among equivalent behaviours), and `VIEW`
forgets what the cached profile says once no property asks for it. Both are bounds
on TLC's search; the theorems know neither.

In `chat`, two rounds of two calls are enough for a window and a budget that cut
between, and would cut inside, a tool round; sizes 1 and 2 against budgets of 3
and 5 make the turn in flight fit, just fit and not fit. In `emb_race`, two
models share a dimension and one differs, so that a conflict, a switch without
a conflict and a wrong collection all occur. In `acct_race`, a patch of
both flags races with no other request: a race on a column is the same whether
or not the patch also sets the other one, and the theorems of `Accounts_proofs`
cover every combination.

Deadlock is checked in the short-term-memory and account runs. The others stop
where a bound is used up and, say, a KB is gone for good.

Fairness. asyncio runs every started handler or task to its end, so started work
has weak fairness; clients owe nothing, their requests have none. Two
assumptions are strong: a waiting update gets its lock (asyncio wakes waiters
first in, first out, the model lets any waiter in), and the maintenance loop
starts a scan again and again (it wakes every night, while the model's idle slot
may be taken meanwhile). In `chat`, the task, each call and the generator are
weakly fair: the event loop runs what can run, the clients of models and tools
have timeouts, and the server drives the generator until its client has gone; the
client's own leaving is never assumed.

## 4. Proofs

`ShortTermMemory_proofs` proves, for all workers, tasks, window and batch sizes,
messages and bounds, from `STMAssumption` (the sizes are naturals):

| Theorem | Says |
|---|---|
| `TypeCorrect` | `[]TypeOK` |
| `SummaryExact`, `WindowVerbatim`, `WatermarkCorrect`, `HotCommitted`, `UpdatesSound` | each invariant of `stm_race` |
| `OnlyGrows` | the action property `SummaryOnlyGrows` |
| `Refinement` | `Spec => Log!Spec` |
| `HotMonotone` | `OneQueue => (Spec => HotNeverRegresses)`: one worker, no lock pruning |

The argument. `SummaryIsExact` is not inductive: a commit installs what a task
computed long before. The compare-and-swap compares the *count* only, so the
invariant has to say why an equal count means an equal text. That is
`UpdatesAreSound`: an update that holds the lock carries an exact summary of its
own, starts from a count the row has had, and, as long as that is still the
row's count, its text continues the row's. A competing commit strictly raises
the count (`orig < count`) and so disables every other swap instead of breaking
the clause. The window is computed from a snapshot; it stays right because a message that
lands anywhere never costs a round (`InsertKeepsRounds`): one before the first user
message joins or moves the round there, any other at most begins a new one. The
watermark needs more, that the ends of old rounds stay where they were, and this
is so only while messages sort as they arrive (`InOrderAppends`,
`EarlierRoundsStay`); past a message that lands before others nothing is promised of
it. `IInv` is the conjunction; `NextIInv` takes one
lemma per group of actions. Refinement follows: a winning swap appends to the
log, a mirror or expiry changes the replica to a past value or nothing, the
rest stutters. Neither lock nor Redis breaker is used in the proof of the
row's invariants: the lock only saves LLM calls, as the docstring says.

The mirror in Redis does need the lock. `HotNeverRegresses` is false for two
workers (section 5); for one worker whose lock map is not pruned (`OneQueue`, what
`stm_single` runs) it follows from `Serial`: at most one update holds the lock, the
one about to mirror carries the row's present count, and the copy is never ahead
of the row. `CommitStep` supplies that a winning swap raises the count.

The other proof modules, each for every value of the constants that its module's
`ASSUME` admits. Each proves `Spec => []IInv` (`Invariance`) for an `IInv` of its
own with one lemma per action or group of actions, then the promises that hold
whatever races:

| Module | Theorems | Why the property alone is not inductive, and what `IInv` adds |
|---|---|---|
| `SessionEnd_proofs` | `TypeCorrect`, `OnceMined` | The claim and the run it leads to are steps apart. `Claims`: a claim that has not run yet is held by one job, its conversation is final and has had no run - so the swap, which needs it not to be final, can make no second claim of it. |
| `KBIngest_proofs` | `TypeCorrect`, `RowsKept` (`DocHasKBAndFile`), `NoRowReturns` (`DeletedStaysDeleted`) | An upload writes its file long before its row. `Held`: until the row is there the document is known to this request alone, so nobody can delete the file; an actor past that point works on a row that has existed, and files go only after a row or the KB is gone. `Moves` is what a step may do to rows and files, so that the other actors' part of `Held` is argued once. |
| `KBSharing_proofs` | `TypeCorrect`, `OwnerApart`, `CounterBounded`, `MembersByRight` | An accept commits on what it read before. `Filled` and `Decided` say what a request in flight has established (its caller's right, that its user is not the owner, which owner it read), `NewKB` and `NewLink` that ids are fresh until their insert, `NoOrphans` that links and members have their KB. |
| `UserMemories_proofs` | `TypeCorrect`, `LivingIsIndexed` (`ActiveIsIndexed`), `DeadMemoriesStayDead` (`NoResurrection`) | The vector follows the row by two awaits. `Covered`: an active memory has a vector or its writer is still about to make it; `Fit`: what a janitor or a deletion will drop from the index has a row, and is dead by the time it drops it. |
| `Accounts_proofs` | `TypeCorrect`, `NobodyElevatesItself` | `Sound`: a patch of oneself holds the row its caller was authenticated with, both flags up, and past the self-protection lowers none - so whatever the table has become, nothing differs from the session's row and nothing is written. |
| `EmbeddingSpaces_proofs` | `TypeCorrect`, `OwnSpace` (`OwnSpaceOnly`), `CollectionOfRow` (`RowHasCollection`) | `Alone`: the id of a KB being created is used by that request only; `ProbesOwn`: its size comes from its own model; `CarriesOwn`: an ingest in flight for a KB with settings carries those, unless it was rebuilt. For the collections (`CInv`): a collection that is there has the row's size (`HasItsSize`), and one that a request is about to make will have (`MakesItsSize`), so it does not matter which of two requests makes it. |
| `AgentLoop_proofs` | `TypeCorrect`, `LimitComesFirst` (`NeverOutOfSteps`) | `StepsCounted`: two graph steps per iteration, one fewer while tools run. |

**Promises to actors in turn.** `IInv` holds through races, so it says little about
what a request relies on when it is alone. For these properties a second
invariant speaks of the runs without overlap (the history variable of the `MC`
module): at most one actor is at work, and for each place it can await at, how far
the stores have got. Its proof has one lemma per action, for the one actor at work.

| Theorem | Property | The invariant in turn |
|---|---|---|
| `CountKept` | `CountIsSum` | `Tallied`: documents that are gone count nothing and the counter is the sum over the others, at every point in turn, since a row and the counter change in one commit. `Books` is what makes the next commit right: the session of the actor at work holds the rows and the counter as they are, and what it has queued for ingest counts zero. The sum is a fold over the documents, see below. |
| `StoresKept` | `StoresAgree` | Rows, collection and files agree but for the document the one actor works on, for which the invariant says which of the three it has already touched. |
| `UsesCounted` | `UsesCountAdmissionsInTurn` | The counter an accept has read is still the counter when it commits; the history counter of a link starts with the link, since ids are uuid4 (the guard `admitted[l] = 0` of `BeginCreateLink`). |
| `ProfileFresh`, `IndexMatches`, `CullsOnlyWorse`, `DedupKeepsOne` (in turn) | the four `...InTurn` of `UserMemories` | `TurnIInv`: the cache is fresh or the one actor will still invalidate it (`Current`), the index says what the row says or the actor will index that memory anew (`Exact`), what the actor has read is still so (`Holds`), and of what deduplication has been through, whatever is to go repeats a memory that stays and ranks as high (`Sorts`). The last holds of texts one search finds whole (`WithinLimit`): beyond that a leader may have been left over. |
| `DedupKeepsOne` (not in turn) | the second half of `DedupKeepsOneInTurn` | `LoneIInv`: there has been one janitor (`OneJanitor`), vectors and texts agree since nothing is edited (`Unedited`), and what the janitor is about to remove repeats a memory that stays and is not to go, or one of the same text that the user deleted since the janitor began (`Spares`, over the history `dropped`). When a leader culls an earlier leader it stays itself, so whichever of a text leads last stays, however many neighbours a search returned. |
| `AdminRemains` | `ActiveAdminRemainsInTurn` | `Ready`: the row a request loaded is still the row in the table and, when its commit takes an active admin away, there is another one. Proved of `TurnSpec`, which has every patch; the run's `MCSpec` leaves out races of patches of both flags. |
| `FallbackFits` | `FallbackFitsInTurn` | The check a save, a clear or a creation has passed still holds when it commits; of a save it is about the declared dimension, and so is the promise. |

**The stream and the prompt** (`AgentLoop_proofs`). `StreamWellFormed`: the stream up to
its sentinel is a prefix that only grows; for each call, how far its coroutine is
says which of its events are in it, and `Shape` says what may follow what while
cut-off calls still write behind the sentinel. `PromptValid`: the messages the loop
collected are whole rounds (`WholeTo`: each call is followed by its results), window
and truncation cut at turns only, the head of a whole history at a turn start is
whole, and the OpenAI form answers each call right behind it. `PromptLongest`: the
truncation drops one turn after another, so its invariant is that every longer
ending was over budget.

**The chunker** (at the end of `KBIngest_proofs`, since ingest is its only caller).
`ChunkTypeCorrect`, `ChunkLength`, `ChunksKeepText`, `ChunksBounded` from `ChunkInv`:
the chunk being built continues the last finished one as those continue each other
(`Follows`), its running length is the joined length and within the bound, and once the
loop is over the last chunk ends with the last atom. `TailFits` shows that the overlap
exists, starts inside the chunk and fits unless it is one atom. All of it for any sizes
that `ChunkerAssumption` admits, in any order of size.

**Recursion.** The library's induction theorems take a predicate as a parameter,
which the provers cannot instantiate. Where a proof needs induction over numbers
or finite sets it is done through sets: the counterexamples form a set of
naturals, and a non-empty one has a least element (`WFMin`). That is enough for
`NumberInduction`, `SubsetInduction`, `LeastNatural` and for the existence of the
recursive functions the models use: the sum over the documents
(`MapThenSumSet`), the converted messages (`OpenAIMessages`, a recursive function)
and the prefix lengths (`Joined`).

The type invariants are theorems of every module with a proof module. The proofs
assume of the constants that ids and absent values differ (in `EmbeddingSpaces` also
that the absent value is no row and no collection), that bounds are naturals, and in
`KBIngest` and `UserMemories` that there is an actor slot and in `KBIngest` that the
documents are finitely many; the bounds of faults, edits and rebuilds are
arbitrary.

Model-checked only: liveness (`EveryUpdateEnds`, `EveryDocSettles`, `EndedIsTried`,
`IdleIsEnded`, `EveryRequestEnds`), since fairness and ENABLED are out of the prover's
reach. Every safety property a passing run checks is also a theorem.

## 5. Where code and documentation disagree

Checked by a run:

- `emb_rebuild`: "1) KB has full embedding cfg → use KB cfg" at ingest and search
  (`settings_user/kb_resolvers.py:7`). `rebuild_kb` hands the owner's settings to
  every ingest (`kb/routes.py:525`), so a rebuilt KB with settings of its own holds
  vectors its queries are not in the space of.

Against a sentence of the documentation, and the reason for the guard of a property:

- "a slower worker can never regress the bookkeeping" (`short_term_memory.py:293`)
  is true of the row, which is proved; the mirror into Redis (`:380`) is an
  unconditional write after the commit, and reads prefer Redis
  (`HotNeverRegresses` is checked and proved for one worker).
- "the last active admin cannot be demoted / banned / deleted" (`admin/routes.py:11`):
  two requests that overlap pass the count at `:213` together
  (`ActiveAdminRemainsInTurn`).
- A link is "bounded in uses (max_uses + uses_count)" (`kb/models.py:270`): two accepts
  that overlap read the same counter (`kb/routes.py:978`) and both enter; the counter
  itself stays in bounds, which is proved (`UsesCountAdmissionsInTurn`).
- "the session has ended; extraction was attempted" (`conversations/routes.py:342`): a
  finalize that won its claim answers 404 at `:362` when the conversation was deleted
  after the swap, and raises at `:381` when the LLM key cannot be decrypted. The
  latter leaves a conversation that is finalized, was never extracted and never will
  be (`EndedIsTried` exempts both).
- "keeping the best one" (`memory_maintenance.py:169`): a search returns at
  most `_DEDUP_NEIGHBOR_LIMIT` (50) neighbours (`:206`). With more duplicates than that one
  is left over, leads later, finds the first leader and culls it: the best one
  goes, a worse one stays (`CullsOnlyWorseInTurn` is promised up to the limit).
- "So the user doesn't get a half-broken record" (`kb/routes.py:331`) is true of the
  row. When the store fails at the payload index (`vector_store.py:122`), the row is
  taken back and the collection stays, without an owner (`RowHasCollection` promises
  one direction only).
- `_resolve_vector_size` says it asks the environment's model; a probe of any
  user's model in the same process answers for it (`embedding.py:190`), which also
  misleads the check of `clear_embedding` (`settings_user/routes.py:271`); hence
  `envKnown` in `FallbackFitsInTurn`.

Met while modelling; behaviours of these models, and the reason for an `InTurn` or
another guard in the properties above:

- Short-term memory: summary (L4) and window (L5) are not "perfectly complementary"
  (`short_term_memory.py:281`): a partial batch beyond the window is in neither, and
  rounds that do not have two messages can be in both, since the trigger counts
  rounds and the prompt cuts messages. A message that sorts before the watermark (an
  import with other timestamps, `conversations/routes.py:434`, or a worker whose clock is
  behind) shifts the numbers of the rounds after it: the next batch starts by
  `compressed_count` and so folds a round again, or leaves the late one out, and the
  watermark is no longer the end of round `compressed_count`. The numbers in the
  summary are those at the time of the fold.
  An answer can also be archived without an update being scheduled: the LLM key is
  resolved after the commit of the message and may fail; the next answer catches up.
- KB: an ingest and a deletion that overlap leave `chunks_count` wrong
  (`ingest.py:222`, `routes.py:666`) or chunks of a deleted document in the collection
  (upsert after the drop). A crash inside `purge_kb` leaves rows that point at a
  missing collection, the state the comment at `routes.py:409` means to avoid. A crash,
  a store failure in a rebuild or a commit that raises in a task leaves the
  documents of that queue pending for ever; an upload answered with 422 as well.
- Memories: two janitors that overlap can cull each other's leaders, so that a fact is
  lost with no deletion by the user (TLC finds it when the guard `nights = 1` of
  `DedupKeepsOneInTurn` is dropped). An importance raised between selection and UPDATE
  does not save a memory from eviction. A profile aggregated before a write and stored
  after its invalidation stays until its TTL. Two edits may re-index in the opposite
  order of their commits.
- Accounts: `DELETE /auth/me` lets the last active admin leave.
- Sharing: member rows of purged users stay, and a `create_kb` in flight can commit
  a KB for a purged user, since both refer to users by soft foreign keys.
- Session end: a conversation the user came back to after the scan's selection
  is claimed all the same; an extraction in flight stores memories for a purged
  user.
- Embedding: the dimension a client saves with its settings is not probed; a wrong one
  passes the conflict check (`settings_user/routes.py:231`), after which the KBs without
  settings of their own do not fit. A shared KB without settings of its own is searched
  and filled with the settings of whoever asks (`app.py:214`, `kb/routes.py:616`);
  switching to another model of the same dimension mixes spaces, since only dimensions
  are compared. A crash between the row and its collection, or a store that fails after
  a rebuild has dropped the old one, leaves a row without collection.
- Agent: a skill that raises ends the session while the other calls run on and write
  to a queue nobody reads; when the server never starts the generator, nobody
  cancels the task; the OpenAI form of a round of tool results ends in an empty
  user message.

## 6. Plan

1. Done: the core (short-term memory) with its abstract specification and proofs,
   then KB ingest, user memories, session end, accounts, sharing, chunker.
2. Done: `ContextBuilder`, `AgentLoop`, `EmbeddingSpaces`; proof modules for the core,
   session end, ingest, sharing, user memories, accounts, embedding spaces and the
   loop.
3. Done: every safety property of the runs as a theorem.
4. Next: an abstract specification of `SessionEnd` (a claim-once register) and of
   `KBSharing` (an access-control list) with refinements; `UserMemories` and
   `SessionEnd` composed (an extraction run is a sequence of persists); the prompt of
   `AgentLoop` fed from the summary of `ShortTermMemory`, which would state how the
   window and the summary meet.

## 7. Not modelled, and why

- SQLite without enforced foreign keys (development default): the models follow
  PostgreSQL, the documented deployment.
- The deployment mode without authentication, and system KBs: no role to race for.
- Contents: prompts, formatting, ranking, similarity beyond "duplicate or not", the cap
  on how many leaders deduplication looks at in a night (the others keep their turn for
  later nights), the protected memory type (no code writes it), access stamps of recalls
  (they decide what decays: any set may).
- Equal `created_at` of two messages: the order of the query is then the store's choice.
- Messages of role `system` in the history a client sends (`app.py:142` admits them):
  they take part in no turn and no tool round.
- The two SELECTs of phase 1 of `maybe_compress` are one snapshot; `purge_user` is one
  transaction, as in the code.
- The Redis message list: nothing in the application reads it back, so that user and
  assistant messages may be pushed in either order (`short_term_memory.py:231`) has no
  consequence.
- The sliding window of the rate limiter: synchronous code of one process; in
  `AgentLoop` a request may be refused.
- Estimation of tokens, wording of the system layers (only their tokens count), costs,
  the text of events.
- Settings of the LLM, the reranker and options: single-row writes nothing else
  depends on.
- Redis failures in `UserMemories` (the cache has a TTL and the breaker is in
  `ShortTermMemory`).
- What LLM, embedding and reranker clients, parsers, tools and web search answer:
  they answer or fail, which is a choice in the models that call them.
- Tokens, passwords, migrations and the frontend: libraries or pure presentation.
