--------------------------- MODULE SessionEnd_proofs ---------------------------
(***************************************************************************)
(* SessionEnd for every number of conversations, jobs, items and crashes.  *)
(***************************************************************************)
EXTENDS SessionEnd, TLAPS

Conv == [exists : BOOLEAN, idle : BOOLEAN, final : BOOLEAN]

Job == [phase : {"idle", "scan", "claimed", "read", "store"},
        kind : {None, "request", "scan", "keyword"},
        conv : Convs \cup {None}, todo : SUBSET Convs, left : Nat]

LEMMA IdleType == Idle \in Job
BY DEF Idle, Job

(* The compare-and-swap, for a job q that goes on with its claim. *)
LEMMA WonType ==
  ASSUME TypeOK, NEW j \in Jobs, NEW c \in Convs, NEW q \in Job, Won(q, j, c)
  PROVE  TypeOK'
<1>1. convs' \in [Convs -> Conv]
  BY DEF Won, TypeOK, Conv
<1>2. [q EXCEPT !.conv = c] \in Job
  BY DEF Job
<1>3. jobs' \in [Jobs -> Job]
  BY <1>2 DEF Won, TypeOK, Job
<1>4. UNCHANGED <<user, crashes, runs, tried, refused>>
  BY DEF Won
<1> QED
  BY <1>1, <1>3, <1>4, Zenon DEF TypeOK, Conv, Job

LEMMA InitTypeOK == Init => TypeOK
<1> SUFFICES ASSUME Init PROVE TypeOK
  OBVIOUS
<1>1. convs \in [Convs -> Conv]
  BY DEF Init, Conv
<1>2. jobs \in [Jobs -> Job]
  BY IdleType, Zenon DEF Init
<1>3. crashes \in Nat /\ runs \in [Convs -> Nat]
  BY DEF Init
<1>4. user \in BOOLEAN /\ tried \in [Convs -> BOOLEAN] /\ refused \in [Convs -> BOOLEAN]
  BY Zenon DEF Init
<1> QED
  BY <1>1, <1>2, <1>3, <1>4, Zenon DEF TypeOK, Conv, Job

LEMMA NextTypeOK == TypeOK /\ [Next]_vars => TypeOK'
<1> SUFFICES ASSUME TypeOK, [Next]_vars PROVE TypeOK'
  OBVIOUS
<1> USE IdleType
<1>1. ASSUME NEW c \in Convs, Append(c) PROVE TypeOK'
  <2>1. convs' \in [Convs -> Conv]
    BY <1>1 DEF TypeOK, Append, Touch, Conv
  <2>2. UNCHANGED <<user, jobs, crashes, runs, tried, refused>>
    BY <1>1 DEF Append
  <2> QED
    BY <2>1, <2>2, Zenon DEF TypeOK, Conv
<1>2. ASSUME NEW c \in Convs, Age(c) PROVE TypeOK'
  <2>1. convs' \in [Convs -> Conv]
    BY <1>2 DEF TypeOK, Age, Conv
  <2>2. UNCHANGED <<user, jobs, crashes, runs, tried, refused>>
    BY <1>2 DEF Age
  <2> QED
    BY <2>1, <2>2, Zenon DEF TypeOK, Conv
<1>3. ASSUME NEW c \in Convs, Delete(c) PROVE TypeOK'
  <2>1. convs' \in [Convs -> Conv]
    BY <1>3 DEF TypeOK, Delete, Conv
  <2>2. UNCHANGED <<user, jobs, crashes, runs, tried, refused>>
    BY <1>3 DEF Delete
  <2> QED
    BY <2>1, <2>2, Zenon DEF TypeOK, Conv
<1>4. ASSUME NEW j \in Jobs, NEW c \in Convs, AppendKeyword(j, c) PROVE TypeOK'
  <2>1. convs' \in [Convs -> Conv]
    BY <1>4 DEF TypeOK, AppendKeyword, Touch, Conv
  <2>2. jobs' \in [Jobs -> Job]
    BY <1>4 DEF TypeOK, AppendKeyword, Job
  <2>3. UNCHANGED <<user, crashes, runs, tried, refused>>
    BY <1>4 DEF AppendKeyword
  <2> QED
    BY <2>1, <2>2, <2>3, Zenon DEF TypeOK, Conv, Job
<1>5. ASSUME NEW j \in Jobs, NEW c \in Convs, FinalizeRequest(j, c) PROVE TypeOK'
  <2>1. [jobs[j] EXCEPT !.kind = "request", !.phase = "claimed"] \in Job
    BY DEF TypeOK, Job
  <2> QED
    BY <1>5, <2>1, WonType DEF FinalizeRequest
<1>6. ASSUME NEW j \in Jobs, ScanStart(j) PROVE TypeOK'
  <2>1. Candidates \subseteq Convs
    BY DEF Candidates
  <2> QED
    BY <1>6, <2>1 DEF TypeOK, ScanStart, Job
<1>7. ASSUME NEW j \in Jobs, JobStep(j) PROVE TypeOK'
  <2>1. ASSUME NEW c \in Convs, ScanClaim(j, c) PROVE TypeOK'
    <3>1. [jobs[j] EXCEPT !.todo = @ \ {c}, !.phase = "read"] \in Job
      BY DEF TypeOK, Job
    <3> QED
      BY <2>1, <3>1, WonType DEF ScanClaim
  <2>2. ASSUME NEW c \in Convs, ScanSkip(j, c) PROVE TypeOK'
    <3>1. jobs' \in [Jobs -> Job]
      BY <2>2 DEF TypeOK, ScanSkip, Job
    <3>2. UNCHANGED <<user, convs, crashes, runs, tried, refused>>
      BY <2>2 DEF ScanSkip
    <3> QED
      BY <3>1, <3>2, Zenon DEF TypeOK, Job
  <2>3. CASE ScanEnd(j)
    BY <2>3 DEF TypeOK, ScanEnd, Finish, Job
  <2>4. CASE Read(j)
    <3>1. PICK n : /\ n \in 0..(IF convs[jobs[j].conv].exists THEN MaxItems ELSE 0)
                   /\ jobs' = [jobs EXCEPT ![j].phase = "store", ![j].left = n]
      BY <2>4, Zenon DEF Read
    <3>2. n \in Nat
      BY <3>1, SessionEndAssumption
    <3>3. jobs' \in [Jobs -> Job]
      BY <3>1, <3>2 DEF TypeOK, Job
    <3>4. runs' \in [Convs -> Nat]
      <4>1. runs' = [runs EXCEPT ![jobs[j].conv] = @ + 1]
        BY <2>4, Zenon DEF Read
      <4>2. runs \in [Convs -> Nat]
        BY Zenon DEF TypeOK
      <4>3. \A c \in Convs : runs[c] + 1 \in Nat
        BY <4>2
      <4> QED
        BY <4>1, <4>2, <4>3, Zenon
    <3>5. UNCHANGED <<user, convs, crashes, tried, refused>>
      BY <2>4 DEF Read
    <3> QED
      BY <3>3, <3>4, <3>5, Zenon DEF TypeOK, Job
  <2>5. CASE Store(j)
    <3>1. jobs[j] \in Job
      BY DEF TypeOK, Job
    <3>2. jobs[j].left - 1 \in Nat
      BY <2>5, <3>1 DEF Store, Job
    <3> QED
      BY <2>5, <3>2 DEF TypeOK, Store, Job
  <2>6. CASE RunEnds(j)
    <3>1. AfterRun(j) \in Job
      BY DEF TypeOK, AfterRun, Job
    <3> QED
      BY <2>6, <3>1 DEF TypeOK, RunEnds, Job
  <2>7. CASE Resolve(j)
    <3>1. jobs' \in [Jobs -> Job]
      <4>1. [jobs[j] EXCEPT !.phase = "read"] \in Job
        BY DEF TypeOK, Job
      <4>2. jobs' = [jobs EXCEPT ![j] = [jobs[j] EXCEPT !.phase = "read"]]
            \/ jobs' = [jobs EXCEPT ![j] = Idle]
        BY <2>7, Zenon DEF Resolve, Finish
      <4> QED
        BY <4>1, <4>2, IdleType, Zenon DEF TypeOK, Job
    <3>2. refused' \in [Convs -> BOOLEAN]
      BY <2>7 DEF TypeOK, Resolve
    <3>3. UNCHANGED <<user, convs, crashes, runs, tried>>
      BY <2>7 DEF Resolve
    <3> QED
      BY <3>1, <3>2, <3>3, Zenon DEF TypeOK, Job
  <2> QED
    BY <1>7, <2>1, <2>2, <2>3, <2>4, <2>5, <2>6, <2>7 DEF JobStep
<1>8. CASE PurgeUser
  BY <1>8 DEF TypeOK, PurgeUser
<1>9. CASE Crash
  BY <1>9 DEF TypeOK, Crash, Job
<1>10. CASE UNCHANGED vars
  BY <1>10 DEF TypeOK, vars
<1> QED
  BY <1>1, <1>2, <1>3, <1>4, <1>5, <1>6, <1>7, <1>8, <1>9, <1>10 DEF Next

(* Every reachable state is well typed. *)
THEOREM TypeCorrect == Spec => []TypeOK
<1>1. Init => TypeOK
  BY InitTypeOK
<1>2. TypeOK /\ [Next]_vars => TypeOK'
  BY NextTypeOK
<1> QED
  BY <1>1, <1>2, PTL DEF Spec

-------------------------------------------------------------------------------

(* A job that has claimed a conversation and not run yet. *)
Claimed(j) == jobs[j].phase \in {"claimed", "read"}

(* A claim is held by one job, of a conversation that is final and has had *)
(* no run; only a claim leads to a run.                                    *)
Claims ==
  /\ \A j \in Jobs : Claimed(j) =>
       /\ jobs[j].conv \in Convs
       /\ convs[jobs[j].conv].final
       /\ runs[jobs[j].conv] = 0
  /\ \A j, k \in Jobs : Claimed(j) /\ Claimed(k) /\ jobs[j].conv = jobs[k].conv => j = k

MInv == MinedOnce /\ Claims

(* The compare-and-swap makes a claim of what nobody has claimed before: a *)
(* conversation that is final never stops being so.                        *)
LEMMA WonClaims ==
  ASSUME TypeOK, MInv, NEW j \in Jobs, NEW c \in Convs, NEW q \in Job, Claimable(c),
         Won(q, j, c)
  PROVE  MInv'
<1>1. runs[c] = 0 /\ runs' = runs
  BY DEF TypeOK, MInv, MinedOnce, Claimable, Won
<1>2. convs'[c].final /\ \A d \in Convs \ {c} : convs'[d] = convs[d]
  BY DEF TypeOK, Won
<1>3. jobs'[j].conv = c /\ \A k \in Jobs \ {j} : jobs'[k] = jobs[k]
  BY DEF TypeOK, Won, Job
<1>4. \A k \in Jobs : Claimed(k) => jobs[k].conv # c
  BY DEF MInv, Claims, Claimable
<1>5. MinedOnce'
  BY <1>1, <1>2 DEF MInv, MinedOnce
<1>6. Claims'
  BY <1>1, <1>2, <1>3, <1>4 DEF MInv, Claims, Claimed
<1> QED
  BY <1>5, <1>6 DEF MInv

(* A step that counts no run and makes no claim. *)
LEMMA QuietClaims ==
  ASSUME MInv, runs' = runs, \A c \in Convs : convs'[c].final = convs[c].final,
         \A j \in Jobs : Claimed(j)' => Claimed(j) /\ jobs'[j].conv = jobs[j].conv
  PROVE  MInv'
<1>1. MinedOnce'
  BY DEF MInv, MinedOnce
<1>2. Claims'
  BY DEF MInv, Claims
<1> QED
  BY <1>1, <1>2 DEF MInv

LEMMA ReadClaims ==
  ASSUME TypeOK, MInv, NEW j \in Jobs, Read(j)
  PROVE  MInv'
<1>1. PICK c \in Convs : c = jobs[j].conv /\ convs[c].final /\ runs[c] = 0
  BY DEF MInv, Claims, Claimed, Read
<1>2. /\ runs'[c] = 1 /\ \A d \in Convs \ {c} : runs'[d] = runs[d]
      /\ convs' = convs
  BY <1>1 DEF TypeOK, Read
<1>3. jobs'[j].phase = "store" /\ \A k \in Jobs \ {j} : jobs'[k] = jobs[k]
  <2>1. PICK n : jobs' = [jobs EXCEPT ![j].phase = "store", ![j].left = n]
    BY Zenon DEF Read
  <2>2. jobs[j] \in Job
    BY DEF TypeOK, Job
  <2> QED
    BY <2>1, <2>2 DEF TypeOK, Job
<1>4. \A k \in Jobs : Claimed(k)' => k # j /\ Claimed(k) /\ jobs[k].conv # c
  BY <1>1, <1>3 DEF MInv, Claims, Claimed, Read
<1>5. MinedOnce'
  BY <1>1, <1>2 DEF MInv, MinedOnce
<1>6. Claims'
  BY <1>2, <1>3, <1>4 DEF MInv, Claims, Claimed
<1> QED
  BY <1>5, <1>6 DEF MInv

LEMMA NextMined == TypeOK /\ MInv /\ [Next]_vars => MInv'
<1> SUFFICES ASSUME TypeOK, MInv, [Next]_vars PROVE MInv'
  OBVIOUS
<1>0. \A j \in Jobs : jobs[j] \in Job
  BY DEF TypeOK, Job
<1>1. ASSUME NEW c \in Convs, Append(c) \/ Age(c) \/ Delete(c) PROVE MInv'
  <2>1. runs' = runs /\ jobs' = jobs
    BY <1>1 DEF Append, Age, Delete
  <2>2. \A d \in Convs : convs'[d].final = convs[d].final
    BY <1>1 DEF TypeOK, Append, Touch, Age, Delete
  <2> QED
    BY <2>1, <2>2, QuietClaims DEF Claimed
<1>2. ASSUME NEW j \in Jobs, NEW c \in Convs, AppendKeyword(j, c) PROVE MInv'
  <2>1. runs' = runs /\ \A d \in Convs : convs'[d].final = convs[d].final
    BY <1>2 DEF TypeOK, AppendKeyword, Touch
  <2>2. jobs'[j].phase = "store" /\ \A k \in Jobs \ {j} : jobs'[k] = jobs[k]
    BY <1>2 DEF TypeOK, AppendKeyword
  <2> QED
    BY <2>1, <2>2, QuietClaims DEF Claimed
<1>3. ASSUME NEW j \in Jobs, NEW c \in Convs, FinalizeRequest(j, c) PROVE MInv'
  <2>1. [jobs[j] EXCEPT !.kind = "request", !.phase = "claimed"] \in Job
    BY <1>0 DEF Job
  <2> QED
    BY <1>3, <2>1, WonClaims DEF FinalizeRequest
<1>4. ASSUME NEW j \in Jobs, ScanStart(j) PROVE MInv'
  <2>1. runs' = runs /\ convs' = convs
    BY <1>4 DEF ScanStart
  <2>2. PICK s : jobs' = [jobs EXCEPT ![j] = [phase |-> "scan", kind |-> "scan", conv |-> None,
                                              todo |-> s, left |-> 0]]
    BY <1>4 DEF ScanStart
  <2>3. jobs'[j].phase = "scan" /\ \A k \in Jobs \ {j} : jobs'[k] = jobs[k]
    BY <2>2 DEF TypeOK
  <2> QED
    BY <2>1, <2>3, QuietClaims DEF Claimed
<1>5. ASSUME NEW j \in Jobs, JobStep(j) PROVE MInv'
  <2>1. ASSUME NEW c \in Convs, ScanClaim(j, c) PROVE MInv'
    <3>1. [jobs[j] EXCEPT !.todo = @ \ {c}, !.phase = "read"] \in Job
      BY <1>0 DEF Job
    <3> QED
      BY <2>1, <3>1, WonClaims DEF ScanClaim
  <2>2. ASSUME (\E c \in Convs : ScanSkip(j, c)) \/ ScanEnd(j) \/ Resolve(j) \/ Store(j)
                \/ RunEnds(j)
        PROVE  MInv'
    <3>1. runs' = runs /\ convs' = convs
      BY <2>2 DEF ScanSkip, ScanEnd, Resolve, Store, RunEnds
    <3>2. \A k \in Jobs \ {j} : jobs'[k] = jobs[k]
      BY <2>2 DEF TypeOK, ScanSkip, ScanEnd, Finish, Resolve, Store, RunEnds
    <3>3. Claimed(j)' => Claimed(j) /\ jobs'[j].conv = jobs[j].conv
      <4>1. CASE (\E c \in Convs : ScanSkip(j, c)) \/ Store(j)
        BY <1>0, <4>1 DEF TypeOK, ScanSkip, Store, Claimed, Job
      <4>2. CASE ScanEnd(j) \/ RunEnds(j)
        <5>1. jobs'[j] = Idle \/ jobs'[j] = AfterRun(j)
          BY <4>2 DEF TypeOK, ScanEnd, RunEnds, Finish
        <5>2. Idle.phase = "idle"
          BY DEF Idle
        <5>3. AfterRun(j).phase \in {"idle", "scan"}
          BY <1>0, <5>2 DEF AfterRun, Job
        <5> QED
          BY <5>1, <5>2, <5>3 DEF Claimed
      <4>3. CASE Resolve(j)
        BY <1>0, <4>3 DEF TypeOK, Resolve, Finish, Idle, Claimed, Job
      <4> QED
        BY <2>2, <4>1, <4>2, <4>3
    <3> QED
      BY <3>1, <3>2, <3>3, QuietClaims DEF Claimed
  <2> QED
    BY <1>5, <2>1, <2>2, ReadClaims DEF JobStep
<1>6. CASE PurgeUser
  <2>1. runs' = runs /\ jobs' = jobs /\ \A c \in Convs : convs'[c].final = convs[c].final
    BY <1>6 DEF TypeOK, PurgeUser
  <2> QED
    BY <2>1, QuietClaims DEF Claimed
<1>7. CASE Crash
  <2>1. runs' = runs /\ convs' = convs /\ \A j \in Jobs : jobs'[j].phase = "idle"
    BY <1>7 DEF Crash, Idle
  <2> QED
    BY <2>1, QuietClaims DEF Claimed
<1>8. CASE UNCHANGED vars
  BY <1>8, QuietClaims DEF vars, Claimed
<1> QED
  BY <1>1, <1>2, <1>3, <1>4, <1>5, <1>6, <1>7, <1>8 DEF Next

(* Whatever requests, scans of any number of workers and crashes race, a   *)
(* conversation is extracted at most once, and only when it was claimed.   *)
THEOREM OnceMined == Spec => []MinedOnce
<1>1. Init => MInv
  BY DEF Init, MInv, MinedOnce, Claims, Claimed, Idle
<1>2. TypeOK /\ MInv /\ [Next]_vars => MInv'
  BY NextMined
<1>3. MInv => MinedOnce
  BY DEF MInv
<1> QED
  BY <1>1, <1>2, <1>3, TypeCorrect, PTL DEF Spec
===============================================================================
