------------------------------ MODULE SessionEnd ------------------------------
(***************************************************************************)
(* The end of a conversation and what is extracted from it (src/backend/   *)
(* src/conversations: routes.py finalize, memory_maintenance.py scan,      *)
(* long_term_memory.py extraction), for the conversations of one user.     *)
(*                                                                         *)
(* A job is a finalize request, a nightly scan of one worker, or the       *)
(* extraction a keyword of a user message triggered.  Request and scan     *)
(* claim a conversation by the same compare-and-swap on finalized_at.  A   *)
(* request that won looks the conversation up again and decrypts the LLM   *)
(* key, and may fail at either; then the winner reads the messages, asks   *)
(* the LLM and stores the items one by one.  What becomes of a memory that *)
(* is stored is UserMemories; the Redis cleanup is left out.               *)
(***************************************************************************)
EXTENDS Integers, FiniteSets

CONSTANTS
  Convs,       \* the user's conversations
  Jobs,        \* slots for jobs in flight, over all workers
  None,        \* absent value
  ScanLimit,   \* _STALE_SCAN_LIMIT
  MaxItems,    \* bound: items the LLM finds in one conversation
  MaxCrashes   \* bound: crashes of the server

ASSUME SessionEndAssumption ==
  /\ ScanLimit \in Nat \ {0}
  /\ MaxItems \in Nat /\ MaxCrashes \in Nat

VARIABLES
  user,       \* the account exists
  convs,      \* exists, idle (updated_at older than a day), final (finalized_at set)
  jobs,
  crashes,
  runs,       \* history: extraction runs each conversation got
  tried,      \* history: a run of the conversation came to its end
  refused     \* history: the claiming request could not decrypt the LLM key

vars == <<user, convs, jobs, crashes, runs, tried, refused>>

Idle == [phase |-> "idle", kind |-> None, conv |-> None, todo |-> {}, left |-> 0]

Init ==
  /\ user = TRUE
  /\ convs \in [Convs -> [exists : {TRUE}, idle : BOOLEAN, final : {FALSE}]]
  /\ jobs = [j \in Jobs |-> Idle]
  /\ crashes = 0
  /\ runs = [c \in Convs |-> 0]
  /\ tried = [c \in Convs |-> FALSE]
  /\ refused = [c \in Convs |-> FALSE]

Finish(j) == jobs' = [jobs EXCEPT ![j] = Idle]

-------------------------------------------------------------------------------
(* The user *)

(* append_message touches updated_at, finalized or not. *)
Touch(c) ==
  /\ user /\ convs[c].exists
  /\ convs' = [convs EXCEPT ![c].idle = FALSE]

Append(c) ==
  /\ Touch(c)
  /\ UNCHANGED <<user, jobs, crashes, runs, tried, refused>>

(* ... and a keyword in a user message starts a task for one memory. *)
AppendKeyword(j, c) ==
  /\ jobs[j] = Idle
  /\ Touch(c)
  /\ jobs' = [jobs EXCEPT ![j] = [phase |-> "store", kind |-> "keyword", conv |-> c,
                                  todo |-> {}, left |-> 1]]
  /\ UNCHANGED <<user, crashes, runs, tried, refused>>

(* A day passes without a message. *)
Age(c) ==
  /\ convs[c].exists /\ ~convs[c].idle
  /\ convs' = [convs EXCEPT ![c].idle = TRUE]
  /\ UNCHANGED <<user, jobs, crashes, runs, tried, refused>>

Delete(c) ==
  /\ convs[c].exists
  /\ convs' = [convs EXCEPT ![c].exists = FALSE]
  /\ UNCHANGED <<user, jobs, crashes, runs, tried, refused>>

(* purge_user: conversations and account in one transaction. *)
PurgeUser ==
  /\ user
  /\ user' = FALSE
  /\ convs' = [c \in Convs |-> [convs[c] EXCEPT !.exists = FALSE]]
  /\ UNCHANGED <<jobs, crashes, runs, tried, refused>>

-------------------------------------------------------------------------------
(* Claiming *)

(* Mutant of Claimable: the UPDATE does not ask for finalized_at IS NULL. *)
ClaimableAgain(c) == convs[c].exists

(* UPDATE ... WHERE id AND finalized_at IS NULL matches the row. *)
Claimable(c) == convs[c].exists /\ ~convs[c].final

(* The winner, job j continuing as q; its UPDATE also fires the onupdate   *)
(* of updated_at.                                                          *)
Won(q, j, c) ==
  /\ convs' = [convs EXCEPT ![c] = [exists |-> TRUE, idle |-> FALSE, final |-> TRUE]]
  /\ jobs' = [jobs EXCEPT ![j] = [q EXCEPT !.conv = c]]
  /\ UNCHANGED <<user, crashes, runs, tried, refused>>

(* POST /{id}/finalize by the owner; who loses the swap changes nothing. *)
FinalizeRequest(j, c) ==
  /\ jobs[j] = Idle
  /\ user
  /\ Claimable(c)
  /\ Won([jobs[j] EXCEPT !.kind = "request", !.phase = "claimed"], j, c)

(* After the commit the winner loads the conversation, a 404 when it was   *)
(* deleted meanwhile, and decrypts the LLM key, which raises when it was   *)
(* encrypted under another secret.  The conversation stays finalized.      *)
Resolve(j) ==
  LET c == jobs[j].conv
  IN /\ jobs[j].phase = "claimed"
     /\ \/ /\ convs[c].exists
           /\ jobs' = [jobs EXCEPT ![j].phase = "read"]
           /\ UNCHANGED refused
        \/ /\ ~convs[c].exists
           /\ Finish(j)
           /\ UNCHANGED refused
        \/ /\ convs[c].exists
           /\ Finish(j)
           /\ refused' = [refused EXCEPT ![c] = TRUE]
     /\ UNCHANGED <<user, convs, crashes, runs, tried>>

(* Mutant of Candidates: finalized conversations are scanned as well. *)
CandidatesOfAll == {c \in Convs : convs[c].exists /\ convs[c].idle}

Candidates == {c \in Convs : convs[c].exists /\ ~convs[c].final /\ convs[c].idle}

(* The nightly scan selects up to ScanLimit candidates, oldest first: the  *)
(* ages within a day are abstracted, so any of them may be the oldest.     *)
ScanStart(j) ==
  /\ jobs[j] = Idle
  /\ Candidates # {}
  /\ \E s \in SUBSET Candidates :
       /\ Cardinality(s) = IF Cardinality(Candidates) < ScanLimit
                             THEN Cardinality(Candidates) ELSE ScanLimit
       /\ jobs' = [jobs EXCEPT ![j] = [phase |-> "scan", kind |-> "scan", conv |-> None,
                                       todo |-> s, left |-> 0]]
  /\ UNCHANGED <<user, convs, crashes, runs, tried, refused>>

(* Its next candidate: claimed, or skipped because the swap was lost. *)
ScanClaim(j, c) ==
  /\ jobs[j].phase = "scan"
  /\ c \in jobs[j].todo
  /\ Claimable(c)
  /\ Won([jobs[j] EXCEPT !.todo = @ \ {c}, !.phase = "read"], j, c)

ScanSkip(j, c) ==
  /\ jobs[j].phase = "scan"
  /\ c \in jobs[j].todo
  /\ ~Claimable(c)
  /\ jobs' = [jobs EXCEPT ![j].todo = @ \ {c}]
  /\ UNCHANGED <<user, convs, crashes, runs, tried, refused>>

ScanEnd(j) ==
  /\ jobs[j].phase = "scan"
  /\ jobs[j].todo = {}
  /\ Finish(j)
  /\ UNCHANGED <<user, convs, crashes, runs, tried, refused>>

-------------------------------------------------------------------------------
(* Extracting *)

(* Mutant of Read: an LLM failure is not caught. *)
ReadOrRaise(j) ==
  /\ jobs[j].phase = "read"
  /\ \/ jobs' = [jobs EXCEPT ![j].phase = "store", ![j].left = MaxItems]
     \/ Finish(j)
  /\ runs' = [runs EXCEPT ![jobs[j].conv] = @ + 1]
  /\ UNCHANGED <<user, convs, crashes, tried, refused>>

(* extract_conversation_memories: read the messages, ask the LLM (a scan   *)
(* swallows an undecryptable key and asks the default one).  Nothing comes *)
(* of it when the messages are gone, auto-extract is off, or the LLM fails *)
(* or finds nothing.                                                       *)
Read(j) ==
  LET c == jobs[j].conv
  IN /\ jobs[j].phase = "read"
     /\ \E n \in 0..(IF convs[c].exists THEN MaxItems ELSE 0) :
          jobs' = [jobs EXCEPT ![j].phase = "store", ![j].left = n]
     /\ runs' = [runs EXCEPT ![c] = @ + 1]
     /\ UNCHANGED <<user, convs, crashes, tried, refused>>

(* One _persist_memory, which inserts the row or logs that it failed. *)
Store(j) ==
  /\ jobs[j].phase = "store" /\ jobs[j].left > 0
  /\ jobs' = [jobs EXCEPT ![j].left = @ - 1]
  /\ UNCHANGED <<user, convs, crashes, runs, tried, refused>>

(* A scan goes on with its next candidate; a request or a task is over. *)
AfterRun(j) ==
  IF jobs[j].kind = "scan" THEN [jobs[j] EXCEPT !.phase = "scan", !.conv = None] ELSE Idle

RunEnds(j) ==
  /\ jobs[j].phase = "store" /\ jobs[j].left = 0
  /\ tried' = IF jobs[j].kind = "keyword" THEN tried
              ELSE [tried EXCEPT ![jobs[j].conv] = TRUE]
  /\ jobs' = [jobs EXCEPT ![j] = AfterRun(j)]
  /\ UNCHANGED <<user, convs, crashes, runs, refused>>

(* The server is killed: the jobs in flight are lost. *)
Crash ==
  /\ crashes < MaxCrashes
  /\ crashes' = crashes + 1
  /\ jobs' = [j \in Jobs |-> Idle]
  /\ UNCHANGED <<user, convs, runs, tried, refused>>

JobStep(j) ==
  \/ \E c \in Convs : ScanClaim(j, c) \/ ScanSkip(j, c)
  \/ ScanEnd(j)
  \/ Resolve(j)
  \/ Read(j)
  \/ Store(j)
  \/ RunEnds(j)

Next ==
  \/ \E c \in Convs : Append(c) \/ Age(c) \/ Delete(c)
  \/ \E j \in Jobs, c \in Convs : AppendKeyword(j, c) \/ FinalizeRequest(j, c)
  \/ \E j \in Jobs : ScanStart(j) \/ JobStep(j)
  \/ PurgeUser
  \/ Crash

Spec == Init /\ [][Next]_vars

(* asyncio runs every job to its end, and the maintenance loop wakes up    *)
(* every night, whatever else the user does meanwhile.                     *)
FairSpec ==
  /\ Spec
  /\ \A j \in Jobs : WF_vars(JobStep(j))
  /\ SF_vars(\E j \in Jobs : ScanStart(j))

-------------------------------------------------------------------------------
(* Properties *)

TypeOK ==
  /\ user \in BOOLEAN
  /\ convs \in [Convs -> [exists : BOOLEAN, idle : BOOLEAN, final : BOOLEAN]]
  /\ jobs \in [Jobs -> [phase : {"idle", "scan", "claimed", "read", "store"},
                        kind : {None, "request", "scan", "keyword"},
                        conv : Convs \cup {None}, todo : SUBSET Convs, left : Nat]]
  /\ crashes \in Nat
  /\ runs \in [Convs -> Nat]
  /\ tried \in [Convs -> BOOLEAN]
  /\ refused \in [Convs -> BOOLEAN]

(* Requests and scans that race extract a conversation once, and only one  *)
(* that they marked finalized.                                             *)
MinedOnce == \A c \in Convs : runs[c] <= IF convs[c].final THEN 1 ELSE 0

(* finalized_at means "extraction was attempted": a claimed conversation   *)
(* gets its run, unless the server dies first (then nothing retries it),   *)
(* the user deletes it, or the request that claimed it cannot decrypt the  *)
(* LLM key.                                                                *)
EndedIsTried ==
  \A c \in Convs :
    convs[c].final ~> tried[c] \/ ~convs[c].exists \/ refused[c] \/ crashes > 0

(* A conversation that stays idle is finalized in the end, however many    *)
(* others the scan's limit lets go first and through crashes of the server. *)
IdleIsEnded ==
  LET Waiting(c) == convs[c] = [exists |-> TRUE, idle |-> TRUE, final |-> FALSE]
  IN \A c \in Convs : Waiting(c) ~> ~Waiting(c)
===============================================================================
