-------------------------- MODULE ShortTermMemory_proofs --------------------------
(***************************************************************************)
(* Proofs about ShortTermMemory for every number of workers, tasks and     *)
(* messages and every window and batch size.                               *)
(***************************************************************************)
EXTENDS ShortTermMemory, FiniteSetTheorems, SequenceTheorems, TLAPS

USE STMAssumption

-------------------------------------------------------------------------------
(* Rounds *)

(* Rounds and RoundEnd count finite sets: they are natural numbers. *)
LEMMA RoundsInType ==
  ASSUME NEW msgs, NEW n \in Nat
  PROVE  RoundsIn(msgs, n) \in Nat
<1>1. IsFiniteSet(1..n)
  BY FS_Interval
<1>2. {i \in 1..n : i = 1 \/ msgs[i].role = "user"} \in SUBSET (1..n)
  OBVIOUS
<1>3. QED
  BY <1>1, <1>2, FS_Subset, FS_CardinalityType DEF RoundsIn

LEMMA RoundsType ==
  ASSUME NEW msgs \in Seq(Message)
  PROVE  Rounds(msgs) \in Nat
BY RoundsInType, LenProperties DEF Rounds

(* More messages, no fewer rounds. *)
LEMMA RoundsMonotone ==
  ASSUME NEW msgs, NEW m \in Nat, NEW n \in Nat, m <= n
  PROVE  RoundsIn(msgs, m) <= RoundsIn(msgs, n)
<1> DEFINE R(k) == {i \in 1..k : i = 1 \/ msgs[i].role = "user"}
<1>1. IsFiniteSet(1..n)
  BY FS_Interval
<1>2. R(n) \in SUBSET (1..n)
  OBVIOUS
<1>3. IsFiniteSet(R(n))
  BY <1>1, <1>2, FS_Subset
<1>4. R(m) \in SUBSET R(n)
  OBVIOUS
<1>5. Cardinality(R(m)) <= Cardinality(R(n))
  BY <1>3, <1>4, FS_Subset
<1>6. QED
  BY <1>5 DEF RoundsIn

LEMMA OneRound ==
  ASSUME NEW msgs
  PROVE  RoundsIn(msgs, 1) = 1
<1>1. {i \in 1..1 : i = 1 \/ msgs[i].role = "user"} = {1}
  OBVIOUS
<1>2. Cardinality({1}) = 1
  BY FS_Singleton
<1>3. QED
  BY <1>1, <1>2 DEF RoundsIn

(* A round that exists ends at a message that exists. *)
LEMMA RoundEndType ==
  ASSUME NEW msgs \in Seq(Message), NEW r \in 1..Rounds(msgs)
  PROVE  RoundEnd(msgs, r) \in 1..Len(msgs)
<1> DEFINE n == Len(msgs)
           E == {i \in 1..n : RoundsIn(msgs, i) <= r}
<1>1. n \in Nat /\ IsFiniteSet(1..n) /\ Cardinality(1..n) = n
  <2>1. n \in Nat
    BY LenProperties
  <2> HIDE DEF n
  <2>2. IsFiniteSet(1..n) /\ Cardinality(1..n) = IF 1 > n THEN 0 ELSE n - 1 + 1
    BY <2>1, FS_Interval
  <2> QED
    BY <2>1, <2>2
<1>2. E \in SUBSET (1..n)
  OBVIOUS
<1>3. IsFiniteSet(E) /\ Cardinality(E) \in Nat /\ Cardinality(E) <= n
  BY <1>1, <1>2, FS_Subset, FS_CardinalityType
<1>4. n # 0
  <2>1. SUFFICES ASSUME n = 0 PROVE FALSE
    OBVIOUS
  <2>2. {i \in 1..n : i = 1 \/ msgs[i].role = "user"} = {}
    BY <2>1
  <2>3. Cardinality({}) = 0
    BY FS_EmptySet
  <2>4. Rounds(msgs) = 0
    BY <2>2, <2>3 DEF Rounds, RoundsIn
  <2> QED
    BY <2>4
<1>5. 1 \in E
  BY <1>1, <1>4, OneRound
<1>6. Cardinality(E) # 0
  BY <1>3, <1>5, FS_EmptySet
<1>7. QED
  BY <1>1, <1>3, <1>6 DEF RoundEnd

LEMMA GroupRoundsType ==
  ASSUME NEW msgs \in Seq(Message)
  PROVE  GroupRounds(msgs) \in Seq(Nat) /\ Len(GroupRounds(msgs)) = Rounds(msgs)
<1>1. Rounds(msgs) \in Nat
  BY RoundsType
<1>2. ASSUME NEW r \in 1..Rounds(msgs)
      PROVE  msgs[RoundEnd(msgs, r)].id \in Nat
  <2>1. PICK i \in 1..Len(msgs) : i = RoundEnd(msgs, r)
    BY RoundEndType
  <2>2. msgs[i] \in Message
    BY <2>1, ElementOfSeq
  <2> QED
    BY <2>1, <2>2 DEF Message
<1> DEFINE N == Rounds(msgs)
           id(r) == msgs[RoundEnd(msgs, r)].id
<1>3. GroupRounds(msgs) = [r \in 1..N |-> id(r)]
  BY DEF GroupRounds
<1>4. N \in Nat /\ \A r \in 1..N : id(r) \in Nat
  BY <1>1, <1>2
<1> HIDE DEF N, id
<1>5. [r \in 1..N |-> id(r)] \in Seq(Nat) /\ Len([r \in 1..N |-> id(r)]) = N
  BY <1>4
<1>6. QED
  BY <1>3, <1>5 DEF N

(* A message between, before or after the others. *)
LEMMA InsertAtProperties ==
  ASSUME NEW msgs \in Seq(Message), NEW x \in Message, NEW k \in 1..Len(msgs) + 1
  PROVE  /\ InsertAt(msgs, k, x) \in Seq(Message)
         /\ Len(InsertAt(msgs, k, x)) = Len(msgs) + 1
         /\ \A i \in 1..Len(msgs) + 1 :
              InsertAt(msgs, k, x)[i] =
                IF i < k THEN msgs[i] ELSE IF i = k THEN x ELSE msgs[i-1]
<1> DEFINE a == SubSeq(msgs, 1, k - 1)
           c == SubSeq(msgs, k, Len(msgs))
<1>1. Len(msgs) \in Nat
  BY LenProperties
<1>2. /\ a \in Seq(Message) /\ Len(a) = k - 1
      /\ \A i \in 1..k-1 : a[i] = msgs[i]
  BY <1>1
<1>3. /\ c \in Seq(Message) /\ Len(c) = Len(msgs) + 1 - k
      /\ \A i \in 1..Len(msgs)+1-k : c[i] = msgs[k + i - 1]
  BY <1>1
<1>4. InsertAt(msgs, k, x) = a \o <<x>> \o c
  BY DEF InsertAt
<1> HIDE DEF a, c
<1>5. /\ a \o <<x>> \in Seq(Message) /\ Len(a \o <<x>>) = k
      /\ \A i \in 1..k : (a \o <<x>>)[i] = IF i < k THEN msgs[i] ELSE x
  BY <1>1, <1>2
<1> DEFINE b == a \o <<x>>
<1> HIDE DEF b
<1>6. /\ b \o c \in Seq(Message) /\ Len(b \o c) = Len(msgs) + 1
      /\ \A i \in 1..Len(msgs) + 1 : (b \o c)[i] = IF i <= k THEN b[i] ELSE c[i - k]
  BY <1>1, <1>3, <1>5 DEF b
<1>7. ASSUME NEW i \in 1..Len(msgs) + 1
      PROVE  (b \o c)[i] = IF i < k THEN msgs[i] ELSE IF i = k THEN x ELSE msgs[i-1]
  <2>1. CASE i <= k
    BY <1>1, <1>5, <1>6, <2>1 DEF b
  <2>2. CASE i > k
    <3>1. (b \o c)[i] = c[i - k] /\ i - k \in 1..Len(msgs)+1-k
      BY <1>1, <1>6, <2>2
    <3>2. c[i - k] = msgs[k + (i - k) - 1] /\ k + (i - k) - 1 = i - 1
      BY <1>1, <1>3, <3>1
    <3> QED
      BY <2>2, <3>1, <3>2
  <2>3. i <= k \/ i > k
    BY <1>1
  <2> QED
    BY <2>1, <2>2, <2>3
<1>8. QED
  BY <1>4, <1>6, <1>7 DEF b

(* Wherever a message lands, no round is lost: the first message keeps     *)
(* a round begun, every later user message too.                            *)
LEMMA InsertKeepsRounds ==
  ASSUME NEW msgs \in Seq(Message), NEW x \in Message, NEW k \in 1..Len(msgs) + 1
  PROVE  Rounds(msgs) <= Rounds(InsertAt(msgs, k, x))
<1> DEFINE n == Len(msgs)
           new == InsertAt(msgs, k, x)
           R == {i \in 1..n : i = 1 \/ msgs[i].role = "user"}
           S == {i \in 1..n+1 : i = 1 \/ new[i].role = "user"}
           f == [i \in R |-> IF i = 1 \/ i < k THEN i ELSE i + 1]
<1>1. /\ n \in Nat /\ Len(new) = n + 1
      /\ \A i \in 1..n+1 :
           new[i] = IF i < k THEN msgs[i] ELSE IF i = k THEN x ELSE msgs[i-1]
  BY InsertAtProperties, LenProperties
<1> HIDE DEF new
<1>2. f \in [R -> S]
  <2>1. ASSUME NEW i \in R PROVE f[i] \in S
    <3>1. CASE i = 1
      BY <1>1, <3>1
    <3>2. CASE i # 1 /\ i < k
      <4>1. f[i] = i /\ i \in 1..n+1 /\ new[i] = msgs[i] /\ msgs[i].role = "user"
        BY <1>1, <3>2
      <4> QED
        BY <4>1
    <3>3. CASE i # 1 /\ ~(i < k)
      <4>1. f[i] = i + 1 /\ i + 1 \in 1..n+1 /\ ~(i + 1 < k) /\ i + 1 # k
        BY <1>1, <3>3
      <4>2. new[i + 1] = msgs[(i + 1) - 1] /\ (i + 1) - 1 = i /\ msgs[i].role = "user"
        BY <1>1, <3>3, <4>1
      <4> QED
        BY <4>1, <4>2
    <3> QED
      BY <3>1, <3>2, <3>3
  <2> QED
    BY <2>1
<1>3. ASSUME NEW i \in R, NEW j \in R, f[i] = f[j] PROVE i = j
  BY <1>1, <1>3
<1>4. f \in Injection(R, S)
  <2> HIDE DEF f, R, S
  <2> QED
    BY <1>2, <1>3, Zenon DEF Injection, IsInjective
<1>5. IsFiniteSet(S)
  <2>1. IsFiniteSet(1..n+1)
    BY <1>1, FS_Interval
  <2>2. S \in SUBSET (1..n+1)
    OBVIOUS
  <2> QED
    BY <2>1, <2>2, FS_Subset
<1>6. Cardinality(R) <= Cardinality(S)
  <2> HIDE DEF f, R, S
  <2> QED
    BY <1>4, <1>5, FS_Injection
<1>7. Rounds(msgs) = Cardinality(R) /\ Rounds(new) = Cardinality(S)
  BY <1>1 DEF Rounds, RoundsIn
<1>8. QED
  BY <1>6, <1>7 DEF new

(* Where every message lies where it arrived, the newest is the last one.  *)
LEMMA InOrderAppends ==
  ASSUME NEW msgs \in Seq(Message), NEW x \in Message, NEW k \in 1..Len(msgs) + 1,
         x.id = Len(msgs) + 1, InOrder(InsertAt(msgs, k, x))
  PROVE  InOrder(msgs) /\ \A i \in 1..Len(msgs) : InsertAt(msgs, k, x)[i] = msgs[i]
<1> DEFINE new == InsertAt(msgs, k, x)
<1>1. /\ Len(msgs) \in Nat /\ Len(new) = Len(msgs) + 1
      /\ \A i \in 1..Len(msgs) + 1 :
           new[i] = IF i < k THEN msgs[i] ELSE IF i = k THEN x ELSE msgs[i-1]
  BY InsertAtProperties, LenProperties
<1>2. \A i \in 1..Len(msgs) + 1 : new[i].id = i
  BY <1>1 DEF InOrder
<1> HIDE DEF new
<1>3. new[k] = x /\ new[k].id = k
  BY <1>1, <1>2
<1>4. k = Len(msgs) + 1
  BY <1>3
<1>5. \A i \in 1..Len(msgs) : new[i] = msgs[i]
  BY <1>1, <1>4
<1>6. QED
  BY <1>1, <1>2, <1>5 DEF InOrder, new

(* A round that is not the last one ends where it ended, whatever follows. *)
LEMMA EarlierRoundsStay ==
  ASSUME NEW msgs \in Seq(Message), NEW new \in Seq(Message),
         Len(new) = Len(msgs) + 1, \A i \in 1..Len(msgs) : new[i] = msgs[i],
         NEW r \in 1..Rounds(msgs) - 1
  PROVE  r \in 1..Rounds(new) /\ GroupRounds(new)[r] = GroupRounds(msgs)[r]
<1> DEFINE n == Len(msgs)
<1>1. n \in Nat /\ Rounds(msgs) \in Nat /\ Rounds(new) \in Nat
  BY RoundsType, LenProperties
<1>2. ASSUME NEW i \in 0..n PROVE RoundsIn(new, i) = RoundsIn(msgs, i)
  <2>1. {j \in 1..i : j = 1 \/ new[j].role = "user"}
          = {j \in 1..i : j = 1 \/ msgs[j].role = "user"}
    BY <1>1
  <2> QED
    BY <2>1 DEF RoundsIn
<1>3. /\ RoundsIn(new, n) = Rounds(msgs) /\ RoundsIn(new, n) <= RoundsIn(new, n + 1)
      /\ RoundsIn(new, n + 1) = Rounds(new)
  BY <1>1, <1>2, RoundsMonotone DEF Rounds
<1>4. r \in 1..Rounds(msgs) /\ r \in 1..Rounds(new)
  BY <1>1, <1>3
<1>5. ASSUME NEW i \in 1..n+1, RoundsIn(new, i) <= r PROVE i \in 1..n
  <2>1. CASE i = n + 1
    BY <1>1, <1>3, <1>5, <2>1
  <2> QED
    BY <1>1, <2>1
<1>6. {i \in 1..n+1 : RoundsIn(new, i) <= r} = {i \in 1..n : RoundsIn(msgs, i) <= r}
  <2>1. 1..n \subseteq 0..n /\ 1..n \subseteq 1..n+1
    BY <1>1
  <2> HIDE DEF n
  <2> QED
    BY <1>2, <1>5, <2>1
<1>7. RoundEnd(new, r) = RoundEnd(msgs, r)
  BY <1>6 DEF RoundEnd
<1>8. RoundEnd(msgs, r) \in 1..n
  BY <1>4, RoundEndType
<1>9. GroupRounds(new)[r] = new[RoundEnd(new, r)].id
      /\ GroupRounds(msgs)[r] = msgs[RoundEnd(msgs, r)].id
  BY <1>4 DEF GroupRounds
<1>10. QED
  BY <1>4, <1>7, <1>8, <1>9

-------------------------------------------------------------------------------
(* Summaries *)

LEMMA ContinuesReflexive ==
  ASSUME NEW s \in Seq(Segment)
  PROVE  Continues(s, s)
BY DEF Continues

LEMMA ContinuesTransitive ==
  ASSUME NEW s \in Seq(Segment), NEW t \in Seq(Segment), NEW u \in Seq(Segment),
         Continues(t, s), Continues(u, t)
  PROVE  Continues(u, s)
BY DEF Continues

LEMMA ContinuesAppend ==
  ASSUME NEW s \in Seq(Segment), NEW t \in Seq(Segment), NEW e \in Segment,
         Continues(t, s)
  PROVE  Continues(Append(t, e), s)
BY DEF Continues

(* Folding the next batch in keeps a summary exact. *)
LEMMA CoversAppend ==
  ASSUME NEW s \in Seq(Segment), NEW n \in Nat, NEW p \in Pieces, Batch > 0,
         Covers(s, n)
  PROVE  LET e == [lo |-> n + 1, hi |-> n + Batch, piece |-> p]
         IN  e \in Segment /\ Covers(Append(s, e), n + Batch)
<1> DEFINE e == [lo |-> n + 1, hi |-> n + Batch, piece |-> p]
           t == Append(s, e)
<1>1. e \in Segment
  BY DEF Segment
<1>2. /\ t \in Seq(Segment)
      /\ Len(t) = Len(s) + 1
      /\ t[Len(s) + 1] = e
      /\ \A i \in 1..Len(s) : t[i] = s[i]
      /\ t # << >>
  BY <1>1
<1>3. n = IF Len(s) = 0 THEN 0 ELSE s[Len(s)].hi
  BY EmptySeq DEF Covers
<1> HIDE DEF t
<1>4. ASSUME NEW i \in 1..Len(t)
      PROVE  /\ t[i].lo = (IF i = 1 THEN 0 ELSE t[i-1].hi) + 1
             /\ t[i].hi = t[i].lo + Batch - 1
  <2>1. CASE i <= Len(s)
    <3>1. i \in 1..Len(s) /\ (i # 1 => i - 1 \in 1..Len(s))
      BY <2>1
    <3>2. t[i] = s[i] /\ (i # 1 => t[i-1] = s[i-1])
      BY <3>1, <1>2
    <3>3. QED
      BY <3>1, <3>2 DEF Covers
  <2>2. CASE i = Len(s) + 1
    <3>1. t[i].lo = n + 1 /\ t[i].hi = n + Batch
      BY <2>2, <1>2
    <3>2. CASE i = 1
      BY <2>2, <3>1, <3>2, <1>3
    <3>3. CASE i # 1
      <4>1. i - 1 = Len(s) /\ Len(s) \in 1..Len(s) /\ Len(s) # 0
        BY <2>2, <3>3
      <4>2. t[i-1].hi = n
        BY <4>1, <1>2, <1>3
      <4>3. QED
        BY <4>2, <3>1, <3>3
    <3>4. QED
      BY <3>2, <3>3
  <2>3. QED
    BY <2>1, <2>2, <1>2
<1>5. n + Batch = t[Len(t)].hi
  BY <1>2
<1>6. Covers(t, n + Batch)
  BY <1>2, <1>4, <1>5 DEF Covers
<1>7. QED
  BY <1>1, <1>6 DEF t

-------------------------------------------------------------------------------
(* Type correctness *)

LEMMA IdleTaskType == IdleTask \in TaskState
BY DEF IdleTask, TaskState

(* A step that only rewrites one task keeps the tasks' type. *)
LEMMA TaskUpdateType ==
  ASSUME TypeOK, NEW t \in Tasks, NEW u \in TaskState,
         tasks' = [tasks EXCEPT ![t] = u]
  PROVE  tasks' \in [Tasks -> TaskState]
BY DEF TypeOK

LEMMA InitTypeOK == Init => TypeOK
<1> SUFFICES ASSUME Init PROVE TypeOK
  OBVIOUS
<1>1. messages \in Seq(Message)
  <2>1. PICK n \in 0..MaxImported : \E roles \in [1..n -> Roles] :
          messages = [i \in 1..n |-> [id |-> i, role |-> roles[i]]]
    BY DEF Init
  <2>2. PICK roles \in [1..n -> Roles] :
          messages = [i \in 1..n |-> [id |-> i, role |-> roles[i]]]
    BY <2>1
  <2>3. n \in Nat /\ messages \in [1..n -> Message]
    BY <2>2 DEF Message
  <2>4. QED
    BY <2>3
<1>2. QED
  BY <1>1, IdleTaskType DEF Init, TypeOK

LEMMA LandsType ==
  ASSUME TypeOK, NEW k \in 1..Len(messages) + 1, NEW role \in Roles, Lands(k, role)
  PROVE  messages' \in Seq(Message)
<1> DEFINE x == [id |-> Len(messages) + 1, role |-> role]
<1>1. messages \in Seq(Message) /\ x \in Message
  BY LenProperties DEF TypeOK, Message
<1>2. messages' = InsertAt(messages, k, x)
  BY DEF Lands
<1> HIDE DEF x
<1>3. QED
  BY <1>1, <1>2, InsertAtProperties

(* The round whose last message becomes the watermark is one of the        *)
(* snapshot's: this rests on what the trigger leaves aside.                *)
LEMMA NextTypeOK == TypeOK /\ UpdatesAreSound /\ [Next]_vars => TypeOK'
<1> SUFFICES ASSUME TypeOK, UpdatesAreSound, [Next]_vars PROVE TypeOK'
  OBVIOUS
<1> USE DEF TypeOK
<1>1. ASSUME NEW k \in 1..Len(messages) + 1, AppendUser(k)
      PROVE  TypeOK'
  BY <1>1, LandsType DEF AppendUser, Roles
<1>2. ASSUME NEW k \in 1..Len(messages) + 1, NEW t \in Tasks, NEW w \in Workers,
             AppendAssistant(k, t, w)
      PROVE  TypeOK'
  <2> DEFINE u == [IdleTask EXCEPT !.phase = "waiting", !.worker = w,
                                   !.gen = lockGen[w]]
  <2>1. u \in TaskState
    BY IdleTaskType DEF TaskState
  <2>2. tasks' = [tasks EXCEPT ![t] = u] \/ tasks' = tasks
    BY <1>2 DEF AppendAssistant
  <2> HIDE DEF u
  <2>3. tasks' \in [Tasks -> TaskState]
    BY <2>1, <2>2, TaskUpdateType
  <2>4. QED
    BY <1>2, <2>3, LandsType DEF AppendAssistant, Roles
<1>3. ASSUME NEW t \in Tasks, Snapshot(t)
      PROVE  TypeOK'
  <2> DEFINE g == GroupRounds(messages)
             u == [tasks[t] EXCEPT !.phase = "loop", !.rounds = g,
                     !.summary = conv.summary, !.count = conv.count,
                     !.orig = conv.count, !.watermark = conv.watermark]
  <2>a. tasks[t] \in TaskState /\ g \in Seq(Nat)
    BY GroupRoundsType
  <2>b. conv.summary \in Seq(Segment) /\ conv.count \in Nat /\ conv.watermark \in Nat
    OBVIOUS
  <2> HIDE DEF g
  <2>1. u \in TaskState
    BY <2>a, <2>b DEF TaskState
  <2>2. tasks' \in [Tasks -> TaskState]
    BY <1>3, <2>1, IdleTaskType, TaskUpdateType DEF Snapshot, Finish, g
  <2>3. QED
    BY <1>3, <2>2 DEF Snapshot
<1>4. ASSUME NEW t \in Tasks, NEW p \in Pieces, CompressBatch(t, p)
      PROVE  TypeOK'
  <2> DEFINE hi == tasks[t].count + Batch
             seg == [lo |-> tasks[t].count + 1, hi |-> hi, piece |-> p]
             end == tasks[t].rounds[hi]
             u == [tasks[t] EXCEPT !.summary = Append(tasks[t].summary, seg), !.count = hi,
                                   !.watermark = end]
  <2>1. /\ tasks[t] \in TaskState
        /\ tasks[t].count \in Nat /\ tasks[t].rounds \in Seq(Nat)
        /\ tasks[t].summary \in Seq(Segment)
    BY DEF TaskState
  <2>2. hi \in Nat /\ seg \in Segment
    BY <2>1 DEF Segment
  <2>3. end \in Nat
    <3>1. Batch > 0
      BY <1>4 DEF CompressBatch, Holds, UpdatesAreSound, UpdateIsSound, Enabled
    <3>2. hi \in 1..Len(tasks[t].rounds)
      <4>1. PICK c, l : c = tasks[t].count /\ l = Len(tasks[t].rounds)
        OBVIOUS
      <4>2. c \in Nat /\ l \in Nat
        BY <2>1, <4>1, LenProperties
      <4>3. (l - c) - WindowSize >= Batch
        BY <1>4, <4>1 DEF CompressBatch, Triggered
      <4>4. c + Batch \in 1..l
        BY <3>1, <4>2, <4>3
      <4> QED
        BY <4>1, <4>4
    <3>3. QED
      BY <2>1, <3>2, ElementOfSeq
  <2>4. Append(tasks[t].summary, seg) \in Seq(Segment)
    BY <2>1, <2>2
  <2>5. u \in TaskState
    <3> HIDE DEF hi, seg, end
    <3> QED
      BY <2>1, <2>2, <2>3, <2>4 DEF TaskState
  <2>6. tasks' = [tasks EXCEPT ![t] = u]
    BY <1>4 DEF CompressBatch
  <2>7. tasks' \in [Tasks -> TaskState]
    BY <2>5, <2>6, TaskUpdateType
  <2>8. QED
    BY <1>4, <2>7 DEF CompressBatch
<1>5. ASSUME NEW t \in Tasks, LeaveLoop(t)
      PROVE  TypeOK'
  <2>1. [tasks[t] EXCEPT !.phase = "commit"] \in TaskState
    BY DEF TaskState
  <2>2. tasks' \in [Tasks -> TaskState]
    BY <1>5, <2>1, IdleTaskType, TaskUpdateType DEF LeaveLoop, Finish
  <2>3. QED
    BY <1>5, <2>2 DEF LeaveLoop
<1>6. ASSUME NEW t \in Tasks, CommitWins(t)
      PROVE  TypeOK'
  <2>1. [tasks[t] EXCEPT !.phase = "mirror"] \in TaskState
    BY DEF TaskState
  <2>2. tasks' \in [Tasks -> TaskState]
    BY <1>6, <2>1, TaskUpdateType DEF CommitWins
  <2>3. conv' \in [summary : Seq(Segment), count : Nat, watermark : Nat]
    BY <1>6 DEF CommitWins, TaskState
  <2>4. QED
    BY <1>6, <2>2, <2>3 DEF CommitWins
<1>7. ASSUME NEW t \in Tasks, CommitLoses(t)
      PROVE  TypeOK'
  BY <1>7, IdleTaskType, TaskUpdateType DEF CommitLoses, Finish
<1>8. ASSUME NEW t \in Tasks, Mirror(t)
      PROVE  TypeOK'
  <2>1. tasks' \in [Tasks -> TaskState]
    BY <1>8, IdleTaskType, TaskUpdateType DEF Mirror, Finish
  <2>2. [summary |-> tasks[t].summary, count |-> tasks[t].count]
          \in [summary : Seq(Segment), count : Nat]
    BY DEF TaskState
  <2>3. hot' \in {None} \cup [summary : Seq(Segment), count : Nat]
    BY <1>8, <2>2 DEF Mirror
  <2>4. broken' \in [Workers -> BOOLEAN]
    BY <1>8 DEF Mirror, RedisDone, RedisSkipped, RedisFails
  <2>5. QED
    BY <1>8, <2>1, <2>3, <2>4 DEF Mirror
<1>9. CASE DeleteConversation
  BY <1>9 DEF DeleteConversation
<1>10. CASE HotExpires
  BY <1>10 DEF HotExpires
<1>11. ASSUME NEW w \in Workers, ClearHotState(w)
       PROVE  TypeOK'
  BY <1>11 DEF ClearHotState, RedisDone, RedisSkipped, RedisFails
<1>12. ASSUME NEW w \in Workers, ReadSummary(w)
       PROVE  TypeOK'
  BY <1>12 DEF ReadSummary, RedisFails
<1>13. ASSUME NEW w \in Workers, EvictLock(w)
       PROVE  TypeOK'
  BY <1>13 DEF EvictLock
<1>14. ASSUME NEW w \in Workers, Crash(w)
       PROVE  TypeOK'
  BY <1>14, IdleTaskType DEF Crash
<1>15. CASE UNCHANGED vars
  BY <1>15 DEF vars
<1>16. QED
  BY <1>1, <1>2, <1>3, <1>4, <1>5, <1>6, <1>7, <1>8, <1>9, <1>10, <1>11,
     <1>12, <1>13, <1>14, <1>15 DEF Next, TaskStep

-------------------------------------------------------------------------------
(* The inductive invariant.  SummaryIsExact alone is not inductive: a      *)
(* commit writes what a task computed earlier, so the tasks in flight must *)
(* be sound too, and their soundness relates their snapshot to the row.    *)

RowInv ==
  /\ SummaryIsExact
  /\ WindowStaysVerbatim
  /\ WatermarkEndsRound
  /\ conv.count > 0 => Enabled

IInv == TypeOK /\ RowInv /\ UpdatesAreSound /\ HotWasCommitted

LEMMA InitIInv == Init => IInv
<1> SUFFICES ASSUME Init PROVE IInv
  OBVIOUS
<1>1. TypeOK
  BY InitTypeOK
<1>2. RowInv
  BY DEF Init, RowInv, SummaryIsExact, WindowStaysVerbatim, WatermarkEndsRound,
         Covers
<1>3. UpdatesAreSound
  BY DEF Init, UpdatesAreSound, UpdateIsSound, Holds, IdleTask
<1>4. HotWasCommitted
  BY DEF Init, HotWasCommitted
<1>5. QED
  BY <1>1, <1>2, <1>3, <1>4 DEF IInv

(* Steps that touch neither the row nor the messages, and no held task. *)
LEMMA QuietStep ==
  ASSUME IInv, UNCHANGED <<messages, conv>>,
         \A t \in Tasks : Holds(t)' => tasks'[t] = tasks[t]
  PROVE  RowInv' /\ UpdatesAreSound'
<1>1. RowInv'
  BY DEF IInv, RowInv, SummaryIsExact, WindowStaysVerbatim, WatermarkEndsRound
<1>2. ASSUME NEW t \in Tasks, Holds(t)'
      PROVE  UpdateIsSound(t)'
  <2>1. tasks'[t] = tasks[t]
    BY <1>2
  <2>2. Holds(t)
    BY <1>2, <2>1 DEF Holds
  <2>3. UpdateIsSound(t)
    BY DEF IInv, UpdatesAreSound
  <2>4. QED
    BY <2>1, <2>2, <2>3 DEF UpdateIsSound
<1>3. QED
  BY <1>1, <1>2 DEF UpdatesAreSound, UpdateIsSound

(* A new message, wherever it lands, takes no round away; where messages   *)
(* sort as they arrive, it moves the end of the last round at most.        *)
LEMMA NewMessage ==
  ASSUME IInv, NEW k \in 1..Len(messages) + 1, NEW role \in Roles, Lands(k, role),
         UNCHANGED conv,
         \A t \in Tasks : Holds(t)' => tasks'[t] = tasks[t]
  PROVE  RowInv' /\ UpdatesAreSound'
<1> DEFINE x == [id |-> Len(messages) + 1, role |-> role]
<1>1. /\ messages \in Seq(Message) /\ x \in Message /\ x.id = Len(messages) + 1
      /\ conv.count \in Nat
  BY LenProperties DEF IInv, TypeOK, Message
<1>2. messages' = InsertAt(messages, k, x)
  BY DEF Lands
<1> HIDE DEF x
<1>3. messages' \in Seq(Message) /\ Len(messages') = Len(messages) + 1
  BY <1>1, <1>2, InsertAtProperties
<1>4. /\ Rounds(messages) <= Rounds(messages')
      /\ Rounds(messages) \in Nat /\ Rounds(messages') \in Nat
  BY <1>1, <1>2, <1>3, InsertKeepsRounds, RoundsType
<1>5. ASSUME InOrder(messages')
      PROVE  /\ InOrder(messages)
             /\ \A r \in 1..Rounds(messages) - 1 :
                  GroupRounds(messages')[r] = GroupRounds(messages)[r]
  <2>1. InOrder(messages) /\ \A i \in 1..Len(messages) : messages'[i] = messages[i]
    BY <1>1, <1>2, <1>5, InOrderAppends
  <2> QED
    BY <1>1, <1>3, <2>1, EarlierRoundsStay
<1>6. ASSUME conv.count > 0
      PROVE  Rounds(messages') - conv.count >= WindowSize
  BY <1>1, <1>4, <1>6 DEF IInv, RowInv, WindowStaysVerbatim
<1>7. ASSUME conv.count > 0, InOrder(messages')
      PROVE  conv.watermark = GroupRounds(messages')[conv.count]
  <2>1. Enabled /\ Rounds(messages) - conv.count >= WindowSize
    BY <1>7 DEF IInv, RowInv, WindowStaysVerbatim
  <2>2. conv.count \in 1..Rounds(messages) - 1
    BY <2>1, <1>1, <1>4, <1>7 DEF Enabled
  <2>3. conv.watermark = GroupRounds(messages)[conv.count]
    BY <1>5, <1>7 DEF IInv, RowInv, WatermarkEndsRound
  <2> QED
    BY <1>5, <1>7, <2>2, <2>3
<1>8. RowInv'
  BY <1>6, <1>7 DEF IInv, RowInv, SummaryIsExact, WindowStaysVerbatim,
                    WatermarkEndsRound
<1>9. ASSUME NEW t \in Tasks, Holds(t)'
      PROVE  UpdateIsSound(t)'
  <2>1. tasks'[t] = tasks[t]
    BY <1>9
  <2>2. Holds(t)
    BY <1>9, <2>1 DEF Holds
  <2>3. UpdateIsSound(t)
    BY DEF IInv, UpdatesAreSound
  <2>4. Len(tasks[t].rounds) \in Nat /\ Len(tasks[t].rounds) <= Rounds(messages)
    BY <2>2, <2>3, LenProperties DEF IInv, TypeOK, TaskState, UpdateIsSound
  <2>5. Len(tasks[t].rounds) <= Rounds(messages')
    BY <1>4, <2>4
  <2>6. ASSUME InOrder(messages'), NEW r \in 1..Len(tasks[t].rounds) - 1
        PROVE  tasks[t].rounds[r] = GroupRounds(messages')[r]
    <3>1. tasks[t].rounds[r] = GroupRounds(messages)[r]
      BY <1>5, <2>2, <2>3, <2>6 DEF UpdateIsSound
    <3>2. r \in 1..Rounds(messages) - 1
      BY <1>4, <2>4
    <3> QED
      BY <1>5, <2>6, <3>1, <3>2
  <2> QED
    BY <2>1, <2>2, <2>3, <2>5, <2>6 DEF UpdateIsSound
<1>10. QED
  BY <1>8, <1>9 DEF UpdatesAreSound, UpdateIsSound

(* A step of task t that leaves the row alone: the others keep their       *)
(* soundness, so only t's own is to be shown.                              *)
LEMMA OwnStep ==
  ASSUME IInv, NEW t \in Tasks, UNCHANGED <<messages, conv>>,
         \A u \in Tasks \ {t} : tasks'[u] = tasks[u],
         Holds(t)' => UpdateIsSound(t)'
  PROVE  RowInv' /\ UpdatesAreSound'
<1>1. RowInv'
  BY DEF IInv, RowInv, SummaryIsExact, WindowStaysVerbatim, WatermarkEndsRound
<1>2. ASSUME NEW u \in Tasks \ {t}
      PROVE  UpdateIsSound(u)'
  <2>1. UpdateIsSound(u)
    BY DEF IInv, UpdatesAreSound
  <2>2. QED
    BY <2>1 DEF UpdateIsSound, Holds
<1>3. UpdateIsSound(t)'
  BY DEF UpdateIsSound
<1>4. QED
  BY <1>1, <1>2, <1>3 DEF UpdatesAreSound

LEMMA SnapshotStep ==
  ASSUME IInv, NEW t \in Tasks, Snapshot(t)
  PROVE  RowInv' /\ UpdatesAreSound'
<1>1. UNCHANGED <<messages, conv>>
  BY DEF Snapshot
<1>2. tasks \in [Tasks -> TaskState]
  BY DEF IInv, TypeOK
<1>3. \A u \in Tasks \ {t} : tasks'[u] = tasks[u]
  BY <1>2 DEF Snapshot, Finish
<1>4. ASSUME Holds(t)'
      PROVE  UpdateIsSound(t)'
  <2>1. Enabled /\ exists
    BY <1>2, <1>4 DEF Snapshot, Holds, Finish, IdleTask
  <2>2. /\ tasks'[t].phase = "loop" /\ tasks'[t].rounds = GroupRounds(messages)
        /\ tasks'[t].summary = conv.summary /\ tasks'[t].count = conv.count
        /\ tasks'[t].orig = conv.count
    BY <1>2, <2>1 DEF Snapshot, TaskState
  <2>3. /\ Covers(conv.summary, conv.count) /\ conv.count \in Nat
        /\ Len(GroupRounds(messages)) = Rounds(messages) /\ Rounds(messages) \in Nat
        /\ conv.summary \in Seq(Segment)
    BY GroupRoundsType, RoundsType DEF IInv, RowInv, SummaryIsExact, TypeOK
  <2>4. Continues(conv.summary, conv.summary)
    BY <2>3, ContinuesReflexive
  <2>5. QED
    BY <1>1, <2>1, <2>2, <2>3, <2>4 DEF UpdateIsSound
<1>5. QED
  BY <1>1, <1>3, <1>4, OwnStep

LEMMA CompressStep ==
  ASSUME IInv, NEW t \in Tasks, NEW p \in Pieces, CompressBatch(t, p)
  PROVE  RowInv' /\ UpdatesAreSound'
<1> DEFINE u == tasks[t]
           hi == u.count + Batch
           seg == [lo |-> u.count + 1, hi |-> hi, piece |-> p]
<1>1. UNCHANGED <<messages, conv>>
  BY DEF CompressBatch
<1>2. tasks \in [Tasks -> TaskState]
  BY DEF IInv, TypeOK
<1>3. \A v \in Tasks \ {t} : tasks'[v] = tasks[v]
  BY <1>2 DEF CompressBatch
<1>4. /\ u.count \in Nat /\ Len(u.rounds) \in Nat /\ u.orig \in Nat
      /\ u.summary \in Seq(Segment) /\ hi \in Nat
      /\ conv.summary \in Seq(Segment) /\ conv.count \in Nat
  BY <1>2, LenProperties DEF TaskState, IInv, TypeOK
<1>5. u.phase = "loop" /\ UpdateIsSound(t) /\ Holds(t)
  BY DEF CompressBatch, IInv, UpdatesAreSound, Holds
<1>6. /\ tasks'[t].phase = "loop" /\ tasks'[t].rounds = u.rounds
      /\ tasks'[t].summary = Append(u.summary, seg)
      /\ tasks'[t].count = hi /\ tasks'[t].orig = u.orig
      /\ tasks'[t].watermark = u.rounds[hi]
  BY <1>2, <1>5 DEF CompressBatch, TaskState
<1>7. Enabled /\ Batch > 0
  BY <1>5 DEF UpdateIsSound, Enabled
<1>8. seg \in Segment /\ Covers(Append(u.summary, seg), hi)
  BY <1>4, <1>5, <1>7, CoversAppend DEF UpdateIsSound
<1>9. Len(u.rounds) - hi >= WindowSize
  <2>1. (Len(u.rounds) - u.count) - WindowSize >= Batch
    BY DEF CompressBatch, Triggered
  <2> HIDE DEF u
  <2>3. QED
    BY <1>4, <2>1
<1>10. u.orig = conv.count => Continues(Append(u.summary, seg), conv.summary)
  BY <1>4, <1>5, <1>8, ContinuesAppend DEF UpdateIsSound
<1>11. /\ u.orig <= hi /\ u.orig <= conv.count /\ Len(u.rounds) <= Rounds(messages)
       /\ InOrder(messages) =>
            \A r \in 1..Len(u.rounds) - 1 : u.rounds[r] = GroupRounds(messages)[r]
  BY <1>4, <1>5, <1>7 DEF UpdateIsSound
<1> HIDE DEF u, hi, seg
<1>12. UpdateIsSound(t)'
  BY <1>1, <1>6, <1>7, <1>8, <1>9, <1>10, <1>11 DEF UpdateIsSound
<1>13. QED
  BY <1>1, <1>3, <1>12, OwnStep

LEMMA LeaveLoopStep ==
  ASSUME IInv, NEW t \in Tasks, LeaveLoop(t)
  PROVE  RowInv' /\ UpdatesAreSound'
<1>1. UNCHANGED <<messages, conv>>
  BY DEF LeaveLoop
<1>2. tasks \in [Tasks -> TaskState]
  BY DEF IInv, TypeOK
<1>3. \A u \in Tasks \ {t} : tasks'[u] = tasks[u]
  BY <1>2 DEF LeaveLoop, Finish
<1>4. ASSUME Holds(t)'
      PROVE  UpdateIsSound(t)'
  <2>1. tasks[t].count # tasks[t].orig
    BY <1>2, <1>4 DEF LeaveLoop, Holds, Finish, IdleTask
  <2>2. tasks'[t] = [tasks[t] EXCEPT !.phase = "commit"]
    BY <1>2, <2>1 DEF LeaveLoop
  <2>3. /\ tasks'[t].phase = "commit" /\ tasks'[t].rounds = tasks[t].rounds
        /\ tasks'[t].summary = tasks[t].summary
        /\ tasks'[t].count = tasks[t].count /\ tasks'[t].orig = tasks[t].orig
        /\ tasks'[t].watermark = tasks[t].watermark
    BY <1>2, <2>2 DEF TaskState
  <2>4. tasks[t].phase = "loop" /\ UpdateIsSound(t) /\ Holds(t)
    BY DEF LeaveLoop, IInv, UpdatesAreSound, Holds
  <2>5. tasks[t].orig < tasks[t].count
    BY <1>2, <2>1, <2>4 DEF UpdateIsSound, TaskState
  <2>6. QED
    BY <1>1, <2>3, <2>4, <2>5 DEF UpdateIsSound
<1>5. QED
  BY <1>1, <1>3, <1>4, OwnStep

(* The compare-and-swap: the winner's summary continues the row it         *)
(* replaces, and every other task whose snapshot was of that row can no    *)
(* longer win.                                                             *)
LEMMA CommitStep ==
  ASSUME IInv, NEW t \in Tasks, CommitWins(t)
  PROVE  /\ RowInv' /\ UpdatesAreSound'
         /\ Continues(conv'.summary, conv.summary)
         /\ conv'.count > conv.count
<1> DEFINE u == tasks[t]
<1>1. /\ UNCHANGED messages
      /\ conv'.summary = u.summary /\ conv'.count = u.count
      /\ conv'.watermark = u.watermark
  BY DEF CommitWins
<1>2. tasks \in [Tasks -> TaskState]
  BY DEF IInv, TypeOK
<1>3. /\ u.count \in Nat /\ Len(u.rounds) \in Nat /\ u.orig \in Nat
      /\ u.summary \in Seq(Segment) /\ Rounds(messages) \in Nat
      /\ conv.summary \in Seq(Segment) /\ conv.count \in Nat
  BY <1>2, LenProperties, RoundsType DEF TaskState, IInv, TypeOK
<1>4. u.phase = "commit" /\ u.orig = conv.count
  BY DEF CommitWins, CASMatches
<1>5. UpdateIsSound(t) /\ Holds(t)
  BY <1>4 DEF IInv, UpdatesAreSound, Holds
<1>6. /\ Enabled /\ Covers(u.summary, u.count)
      /\ Len(u.rounds) <= Rounds(messages)
      /\ u.orig < u.count
      /\ Len(u.rounds) - u.count >= WindowSize
      /\ u.watermark = u.rounds[u.count]
      /\ InOrder(messages) =>
           \A r \in 1..Len(u.rounds) - 1 : u.rounds[r] = GroupRounds(messages)[r]
      /\ Continues(u.summary, conv.summary)
  BY <1>4, <1>5 DEF UpdateIsSound
<1> HIDE DEF u
<1>8. Rounds(messages) - u.count >= WindowSize
  BY <1>3, <1>6
<1>9. u.count \in 1..Len(u.rounds) - 1
  BY <1>3, <1>6 DEF Enabled
<1>10. InOrder(messages) => u.watermark = GroupRounds(messages)[u.count]
  BY <1>6, <1>9
<1>11. RowInv'
  BY <1>1, <1>6, <1>8, <1>10 DEF RowInv, SummaryIsExact, WindowStaysVerbatim,
                                  WatermarkEndsRound, Enabled
<1>12. UpdateIsSound(t)'
  <2>1. /\ tasks'[t].phase = "mirror" /\ tasks'[t].rounds = u.rounds
        /\ tasks'[t].summary = u.summary /\ tasks'[t].count = u.count
        /\ tasks'[t].orig = u.orig /\ tasks'[t].watermark = u.watermark
    BY <1>2 DEF CommitWins, TaskState, u
  <2>2. Continues(u.summary, u.summary)
    BY <1>3, ContinuesReflexive
  <2>3. u.orig <= u.count /\ u.orig <= conv'.count
    BY <1>1, <1>3, <1>6
  <2>4. QED
    BY <1>1, <1>6, <2>1, <2>2, <2>3 DEF UpdateIsSound
<1>13. ASSUME NEW v \in Tasks \ {t}
       PROVE  UpdateIsSound(v)'
  <2>1. tasks'[v] = tasks[v]
    BY <1>2 DEF CommitWins
  <2>2. SUFFICES ASSUME Holds(v) PROVE UpdateIsSound(v)'
    BY <2>1 DEF UpdateIsSound, Holds
  <2>3. UpdateIsSound(v)
    BY DEF IInv, UpdatesAreSound
  <2>4. /\ tasks[v].orig \in Nat /\ tasks[v].summary \in Seq(Segment)
        /\ tasks[v].orig <= conv.count
    BY <1>2, <2>2, <2>3 DEF TaskState, UpdateIsSound
  <2>5. tasks[v].orig <= conv'.count /\ tasks[v].orig # conv'.count
    BY <1>1, <1>3, <1>4, <1>6, <2>4
  <2>6. ASSUME tasks[v].phase = "mirror"
        PROVE  Continues(conv'.summary, tasks[v].summary)
    <3>1. Continues(conv.summary, tasks[v].summary)
      BY <2>2, <2>3, <2>6 DEF UpdateIsSound
    <3>2. QED
      BY <1>1, <1>3, <1>6, <2>4, <3>1, ContinuesTransitive
  <2>7. QED
    BY <1>1, <2>1, <2>2, <2>3, <2>5, <2>6 DEF UpdateIsSound
<1>14. conv'.count > conv.count
  BY <1>1, <1>3, <1>4, <1>6
<1>15. QED
  BY <1>1, <1>6, <1>11, <1>12, <1>13, <1>14 DEF UpdatesAreSound

(* The hash stays a past value of the summary when the row does not change. *)
LEMMA HotKept ==
  ASSUME IInv, UNCHANGED conv, hot' = hot \/ hot' = None
  PROVE  HotWasCommitted'
BY DEF IInv, HotWasCommitted

LEMMA HotWhenCommitted ==
  ASSUME IInv, UNCHANGED hot, conv'.summary \in Seq(Segment),
         Continues(conv'.summary, conv.summary)
  PROVE  HotWasCommitted'
<1> SUFFICES ASSUME hot # None
             PROVE  Continues(conv'.summary, hot.summary)
  BY DEF IInv, HotWasCommitted
<1>1. hot.summary \in Seq(Segment) /\ conv.summary \in Seq(Segment)
  BY DEF IInv, TypeOK
<1>2. Continues(conv.summary, hot.summary)
  BY DEF IInv, HotWasCommitted
<1>3. QED
  BY <1>1, <1>2, ContinuesTransitive

LEMMA MirrorStep ==
  ASSUME IInv, NEW t \in Tasks, Mirror(t)
  PROVE  HotWasCommitted'
<1>1. Holds(t) /\ tasks[t].phase = "mirror" /\ UNCHANGED conv
  BY DEF Mirror, Holds
<1>2. Continues(conv.summary, tasks[t].summary)
      /\ Covers(tasks[t].summary, tasks[t].count)
  BY <1>1 DEF IInv, UpdatesAreSound, UpdateIsSound
<1>3. \/ hot' = hot
      \/ hot' = [summary |-> tasks[t].summary, count |-> tasks[t].count]
  BY DEF Mirror
<1>4. QED
  BY <1>1, <1>2, <1>3 DEF IInv, HotWasCommitted

LEMMA NextIInv == IInv /\ [Next]_vars => IInv'
<1> SUFFICES ASSUME IInv, [Next]_vars PROVE IInv'
  OBVIOUS
<1>0. TypeOK' /\ tasks \in [Tasks -> TaskState]
  BY NextTypeOK DEF IInv, TypeOK
<1> USE <1>0
<1>1. ASSUME NEW k \in 1..Len(messages) + 1, AppendUser(k)
      PROVE  IInv'
  <2>1. RowInv' /\ UpdatesAreSound'
    BY <1>1, NewMessage DEF AppendUser, Roles
  <2>2. HotWasCommitted'
    BY <1>1, HotKept DEF AppendUser
  <2>3. QED
    BY <2>1, <2>2 DEF IInv
<1>2. ASSUME NEW k \in 1..Len(messages) + 1, NEW t \in Tasks, NEW w \in Workers,
             AppendAssistant(k, t, w)
      PROVE  IInv'
  <2>1. \A u \in Tasks : Holds(u)' => tasks'[u] = tasks[u]
    BY <1>2, IdleTaskType DEF AppendAssistant, Holds, TaskState
  <2>2. RowInv' /\ UpdatesAreSound'
    BY <1>2, <2>1, NewMessage DEF AppendAssistant, Roles
  <2>3. HotWasCommitted'
    BY <1>2, HotKept DEF AppendAssistant
  <2>4. QED
    BY <2>2, <2>3 DEF IInv
<1>3. ASSUME NEW t \in Tasks, Snapshot(t)
      PROVE  IInv'
  BY <1>3, SnapshotStep, HotKept DEF IInv, Snapshot
<1>4. ASSUME NEW t \in Tasks, NEW p \in Pieces, CompressBatch(t, p)
      PROVE  IInv'
  BY <1>4, CompressStep, HotKept DEF IInv, CompressBatch
<1>5. ASSUME NEW t \in Tasks, LeaveLoop(t)
      PROVE  IInv'
  BY <1>5, LeaveLoopStep, HotKept DEF IInv, LeaveLoop
<1>6. ASSUME NEW t \in Tasks, CommitWins(t)
      PROVE  IInv'
  <2>1. conv'.summary \in Seq(Segment) /\ UNCHANGED hot
    BY <1>6 DEF TypeOK, CommitWins
  <2>2. QED
    BY <1>6, <2>1, CommitStep, HotWhenCommitted DEF IInv
<1>7. ASSUME NEW t \in Tasks, CommitLoses(t)
      PROVE  IInv'
  <2>1. UNCHANGED <<messages, conv, hot>>
    BY <1>7 DEF CommitLoses
  <2>2. \A u \in Tasks : Holds(u)' => tasks'[u] = tasks[u]
    BY <1>7 DEF CommitLoses, Finish, Holds, IdleTask
  <2>3. QED
    BY <2>1, <2>2, QuietStep, HotKept DEF IInv
<1>8. ASSUME NEW t \in Tasks, Mirror(t)
      PROVE  IInv'
  <2>1. UNCHANGED <<messages, conv>>
    BY <1>8 DEF Mirror
  <2>2. \A u \in Tasks : Holds(u)' => tasks'[u] = tasks[u]
    BY <1>8 DEF Mirror, Finish, Holds, IdleTask
  <2>3. QED
    BY <1>8, <2>1, <2>2, QuietStep, MirrorStep DEF IInv
<1>9. CASE DeleteConversation
  BY <1>9, QuietStep, HotKept DEF IInv, DeleteConversation, Holds
<1>10. CASE HotExpires
  BY <1>10, QuietStep, HotKept DEF IInv, HotExpires, Holds
<1>11. ASSUME NEW w \in Workers, ClearHotState(w)
       PROVE  IInv'
  BY <1>11, QuietStep, HotKept DEF IInv, ClearHotState, Holds
<1>12. ASSUME NEW w \in Workers, ReadSummary(w)
       PROVE  IInv'
  BY <1>12, QuietStep, HotKept DEF IInv, ReadSummary, Holds
<1>13. ASSUME NEW w \in Workers, EvictLock(w)
       PROVE  IInv'
  BY <1>13, QuietStep, HotKept DEF IInv, EvictLock, Holds
<1>14. ASSUME NEW w \in Workers, Crash(w)
       PROVE  IInv'
  <2>1. UNCHANGED <<messages, conv, hot>>
    BY <1>14 DEF Crash
  <2>2. \A u \in Tasks : Holds(u)' => tasks'[u] = tasks[u]
    BY <1>14 DEF Crash, Holds, IdleTask
  <2>3. QED
    BY <2>1, <2>2, QuietStep, HotKept DEF IInv
<1>15. CASE UNCHANGED vars
  BY <1>15, QuietStep, HotKept DEF IInv, vars, Holds
<1>16. QED
  BY <1>1, <1>2, <1>3, <1>4, <1>5, <1>6, <1>7, <1>8, <1>9, <1>10, <1>11,
     <1>12, <1>13, <1>14, <1>15 DEF Next, TaskStep

LEMMA Invariance == Spec => []IInv
BY InitIInv, NextIInv, PTL DEF Spec

-------------------------------------------------------------------------------
(* Theorems *)

(* Every variable keeps its type, in particular the watermark a task looks *)
(* up in its snapshot: the batch is within it.                             *)
THEOREM TypeCorrect == Spec => []TypeOK
<1>1. IInv => TypeOK
  BY DEF IInv
<1>2. QED
  BY <1>1, Invariance, PTL

(* The durable summary holds rounds 1..compressed_count in order, none     *)
(* twice and none missing, whatever workers race, crash or lose locks.     *)
THEOREM SummaryExact == Spec => []SummaryIsExact
<1>1. IInv => SummaryIsExact
  BY DEF IInv, RowInv
<1>2. QED
  BY <1>1, Invariance, PTL

(* The newest WindowSize rounds are never summarised.                      *)
THEOREM WindowVerbatim == Spec => []WindowStaysVerbatim
<1>1. IInv => WindowStaysVerbatim
  BY DEF IInv, RowInv
<1>2. QED
  BY <1>1, Invariance, PTL

(* compression_watermark is the last message of the last summarised round, *)
(* while messages sort in the order of their arrival.                      *)
THEOREM WatermarkCorrect == Spec => []WatermarkEndsRound
<1>1. IInv => WatermarkEndsRound
  BY DEF IInv, RowInv
<1>2. QED
  BY <1>1, Invariance, PTL

(* Redis never holds a summary the database did not commit first.          *)
THEOREM HotCommitted == Spec => []HotWasCommitted
<1>1. IInv => HotWasCommitted
  BY DEF IInv
<1>2. QED
  BY <1>1, Invariance, PTL

(* What a task in flight may write is safe to write.                       *)
THEOREM UpdatesSound == Spec => []UpdatesAreSound
<1>1. IInv => UpdatesAreSound
  BY DEF IInv
<1>2. QED
  BY <1>1, Invariance, PTL

(* What a step can do to the row and to the hash. *)
LEMMA StepKinds ==
  ASSUME [Next]_vars
  PROVE  \/ \E t \in Tasks : CommitWins(t)
         \/ /\ UNCHANGED conv
            /\ hot' = hot \/ hot' = None \/ \E t \in Tasks : Mirror(t)
<1>1. ASSUME NEW t \in Tasks, TaskStep(t), ~CommitWins(t)
      PROVE  UNCHANGED conv /\ (hot' = hot \/ Mirror(t))
  BY <1>1 DEF TaskStep, Snapshot, CompressBatch, LeaveLoop, CommitLoses, Mirror
<1>2. ASSUME ~ \E t \in Tasks : TaskStep(t)
      PROVE  UNCHANGED conv /\ (hot' = hot \/ hot' = None)
  BY <1>2 DEF Next, vars, AppendUser, AppendAssistant, DeleteConversation,
              HotExpires, ClearHotState, ReadSummary, EvictLock, Crash
<1>3. QED
  BY <1>1, <1>2

(* Committed text is never rewritten and the count never goes back.        *)
THEOREM OnlyGrows == Spec => SummaryOnlyGrows
<1>1. ASSUME IInv, [Next]_vars
      PROVE  Continues(conv'.summary, conv.summary) /\ conv'.count >= conv.count
  <2>1. conv.summary \in Seq(Segment) /\ conv.count \in Nat /\ conv'.count \in Nat
    BY <1>1, NextTypeOK DEF IInv, TypeOK
  <2>2. CASE \E t \in Tasks : CommitWins(t)
    BY <1>1, <2>1, <2>2, CommitStep
  <2>3. CASE UNCHANGED conv
    BY <2>1, <2>3, ContinuesReflexive
  <2>4. QED
    BY <1>1, <2>2, <2>3, StepKinds
<1>2. QED
  BY <1>1, Invariance, PTL DEF Spec, SummaryOnlyGrows

(* The module implements the append-only log with a volatile replica.      *)
THEOREM Refinement == Spec => RefinesSummaryLog
<1> DEFINE Replica == IF hot = None THEN None ELSE hot.summary
<1>1. Init => Log!Init
  BY DEF Init, Log!Init
<1>2. ASSUME IInv, [Next]_vars
      PROVE  [Log!Next]_<<conv.summary, Replica>>
  <2>1. /\ conv.summary \in Seq(Segment) /\ conv'.summary \in Seq(Segment)
        /\ conv.count \in Nat /\ conv'.count \in Nat
        /\ IInv'
    BY <1>2, NextIInv, NextTypeOK DEF IInv, TypeOK
  <2>2. ASSUME NEW t \in Tasks, CommitWins(t)
        PROVE  Log!Extend
    <3>1. UNCHANGED hot
      BY <2>2 DEF CommitWins
    <3>2. Continues(conv'.summary, conv.summary) /\ conv'.count > conv.count
      BY <1>2, <2>2, CommitStep
    <3>3. Covers(conv.summary, conv.count) /\ Covers(conv'.summary, conv'.count)
      BY <1>2, <2>1 DEF IInv, RowInv, SummaryIsExact
    <3>4. Len(conv.summary) < Len(conv'.summary)
      <4>1. Len(conv.summary) \in Nat /\ Len(conv'.summary) \in Nat
        BY <2>1, LenProperties
      <4>2. SUFFICES ASSUME Len(conv.summary) = Len(conv'.summary) PROVE FALSE
        BY <3>2, <4>1 DEF Continues
      <4>3. conv'.summary = conv.summary
        BY <2>1, <3>2, <4>2, SeqEqual DEF Continues
      <4>4. conv'.count = conv.count
        BY <3>3, <4>3 DEF Covers
      <4>5. QED
        BY <2>1, <3>2, <4>4
    <3>5. Log!Continues(conv'.summary, conv.summary)
      BY <3>2 DEF Continues, Log!Continues
    <3>6. Log!Contiguous(conv'.summary)
      BY <3>3 DEF Covers, Log!Contiguous
    <3>7. conv'.summary \in Seq(Log!Segment)
      BY <2>1 DEF Segment, Log!Segment
    <3>8. QED
      BY <3>1, <3>4, <3>5, <3>6, <3>7 DEF Log!Extend
  <2>3. ASSUME UNCHANGED conv, NEW t \in Tasks, Mirror(t)
        PROVE  [Log!Next]_<<conv.summary, Replica>>
    <3>1. HotWasCommitted' /\ TypeOK'
      BY <2>1 DEF IInv
    <3>2. CASE hot' = None
      BY <2>3, <3>2 DEF Log!Next, Log!Forget
    <3>3. CASE hot' # None
      <4>1. hot'.summary \in Seq(Segment) /\ Continues(conv.summary, hot'.summary)
        BY <2>3, <3>1, <3>3 DEF HotWasCommitted, TypeOK
      <4>2. hot'.summary \in Seq(Log!Segment)
            /\ Log!Continues(conv.summary, hot'.summary)
        BY <4>1 DEF Segment, Log!Segment, Continues, Log!Continues
      <4>3. QED
        BY <2>3, <3>3, <4>2 DEF Log!Next, Log!Replicate
    <3>4. QED
      BY <3>2, <3>3
  <2>4. CASE UNCHANGED conv /\ hot' = hot
    BY <2>4
  <2>5. CASE UNCHANGED conv /\ hot' = None
    BY <2>5 DEF Log!Next, Log!Forget
  <2>6. QED
    BY <1>2, <2>2, <2>3, <2>4, <2>5, StepKinds DEF Log!Next
<1>3. QED
  BY <1>1, <1>2, Invariance, PTL DEF Spec, RefinesSummaryLog, Log!Spec

-------------------------------------------------------------------------------
(* The mirror behind one queue.  The compare-and-swap orders the commits   *)
(* but not the writes to Redis that follow them: two workers may mirror in *)
(* the other order.  With one worker and one lock object they cannot.      *)

OneQueue == (\A v, w \in Workers : v = w) /\ MaxEvictions = 0

(* Updates follow one another, and the one that mirrors wrote the row last. *)
Serial ==
  /\ \A w \in Workers : lockGen[w] = 0
  /\ \A t \in Tasks : tasks[t].phase # "idle" =>
       tasks[t].worker \in Workers /\ tasks[t].gen = 0
  /\ \A t, u \in Tasks : Holds(t) /\ Holds(u) => t = u
  /\ \A t \in Tasks : tasks[t].phase = "mirror" => tasks[t].count = conv.count
  /\ hot # None => hot.count <= conv.count

(* A step of task t that leaves the row and Redis alone: t keeps its       *)
(* worker and its lock, and holds the lock only when nobody else does.     *)
LEMMA SerialTask ==
  ASSUME TypeOK, Serial, NEW t \in Tasks, NEW q \in TaskState,
         tasks' = [tasks EXCEPT ![t] = q], UNCHANGED <<conv, hot, lockGen>>,
         q.phase # "idle" => q.worker \in Workers /\ q.gen = 0,
         q.phase \in {"loop", "commit"} => \A u \in Tasks \ {t} : ~Holds(u),
         q.phase # "mirror"
  PROVE  Serial'
<1>1. tasks'[t] = q /\ \A u \in Tasks : u # t => tasks'[u] = tasks[u]
  BY DEF TypeOK
<1>2. q.phase \in {"idle", "waiting", "loop", "commit", "mirror"}
  BY DEF TaskState
<1> QED
  BY <1>1, <1>2 DEF Serial, Holds

LEMMA SerialFree ==
  ASSUME OneQueue, TypeOK, Serial, NEW t \in Tasks, tasks[t].phase # "idle",
         Holds(t) \/ LockFree(t)
  PROVE  \A u \in Tasks \ {t} : ~Holds(u)
<1> SUFFICES ASSUME NEW u \in Tasks \ {t}, Holds(u) PROVE FALSE
  OBVIOUS
<1>1. tasks[u].phase # "idle"
  BY DEF Holds
<1>2. SameLock(t, u)
  BY <1>1 DEF OneQueue, Serial, SameLock
<1> QED
  BY <1>2 DEF Serial, LockFree

LEMMA NextSerial ==
  ASSUME OneQueue, IInv, Serial, [Next]_vars
  PROVE  Serial'
<1>1. TypeOK /\ tasks \in [Tasks -> TaskState]
  BY DEF IInv, TypeOK
<1>2. ASSUME NEW t \in Tasks, Finish(t), UNCHANGED <<conv, hot, lockGen>>
      PROVE  Serial'
  <2>1. IdleTask.phase = "idle"
    BY DEF IdleTask
  <2> QED
    BY <1>1, <1>2, <2>1, IdleTaskType, SerialTask DEF Finish
<1>3. ASSUME NEW k \in 1..Len(messages) + 1, NEW t \in Tasks, NEW w \in Workers,
             AppendAssistant(k, t, w)
      PROVE  Serial'
  <2>1. PICK q : q = [IdleTask EXCEPT !.phase = "waiting", !.worker = w, !.gen = lockGen[w]]
    OBVIOUS
  <2>2. q \in TaskState /\ q.phase = "waiting" /\ q.worker = w /\ q.gen = 0
    BY <1>1, <2>1, IdleTaskType DEF TaskState, Serial, IdleTask
  <2>3. /\ tasks' = [tasks EXCEPT ![t] = q] \/ tasks' = tasks
        /\ UNCHANGED <<conv, hot, lockGen>>
    BY <1>3, <2>1 DEF AppendAssistant
  <2>4. CASE tasks' = tasks
    BY <2>3, <2>4 DEF Serial, Holds
  <2> QED
    BY <1>1, <2>2, <2>3, <2>4, SerialTask
<1>4. ASSUME NEW t \in Tasks, Snapshot(t)
      PROVE  Serial'
  <2>0. PICK g : g = GroupRounds(messages)
    OBVIOUS
  <2>1. PICK q : q = [tasks[t] EXCEPT !.phase = "loop", !.rounds = g,
                        !.summary = conv.summary, !.count = conv.count,
                        !.orig = conv.count, !.watermark = conv.watermark]
    OBVIOUS
  <2>2. /\ q \in TaskState /\ q.phase = "loop" /\ q.worker = tasks[t].worker
        /\ q.gen = tasks[t].gen
    <3>1. /\ tasks[t] \in TaskState /\ g \in Seq(Nat)
          /\ conv.summary \in Seq(Segment) /\ conv.count \in Nat /\ conv.watermark \in Nat
      BY <1>1, <2>0, GroupRoundsType DEF TypeOK
    <3> QED
      BY <2>1, <3>1 DEF TaskState
  <2>3. UNCHANGED <<conv, hot, lockGen>> /\ tasks[t].phase = "waiting" /\ LockFree(t)
    BY <1>4 DEF Snapshot
  <2>4. \A u \in Tasks \ {t} : ~Holds(u)
    BY <1>1, <2>3, SerialFree
  <2>5. q.worker \in Workers /\ q.gen = 0
    BY <2>2, <2>3 DEF Serial
  <2>6. Finish(t) \/ tasks' = [tasks EXCEPT ![t] = q]
    BY <1>4, <2>0, <2>1 DEF Snapshot
  <2>7. ASSUME tasks' = [tasks EXCEPT ![t] = q] PROVE Serial'
    BY <1>1, <2>2, <2>3, <2>4, <2>5, <2>7, SerialTask
  <2> QED
    BY <1>2, <2>3, <2>6, <2>7
<1>5. ASSUME NEW t \in Tasks, NEW p \in Pieces, CompressBatch(t, p)
      PROVE  Serial'
  <2>1. PICK q : q = tasks'[t]
    OBVIOUS
  <2>2. tasks' \in [Tasks -> TaskState]
    BY <1>1, NextTypeOK DEF IInv, TypeOK
  <2>3. /\ tasks' = [tasks EXCEPT ![t] = q] /\ UNCHANGED <<conv, hot, lockGen>>
        /\ tasks[t].phase = "loop"
    BY <1>1, <1>5, <2>1 DEF CompressBatch
  <2>4. q.phase = "loop" /\ q.worker = tasks[t].worker /\ q.gen = tasks[t].gen
    BY <1>1, <1>5, <2>1 DEF CompressBatch, TaskState
  <2>5. \A u \in Tasks \ {t} : ~Holds(u)
    BY <1>1, <2>3, SerialFree DEF Holds
  <2>6. q.worker \in Workers /\ q.gen = 0 /\ q \in TaskState
    BY <2>1, <2>2, <2>3, <2>4 DEF Serial
  <2> QED
    BY <1>1, <2>3, <2>4, <2>5, <2>6, SerialTask
<1>6. ASSUME NEW t \in Tasks, LeaveLoop(t)
      PROVE  Serial'
  <2>1. PICK q : q = [tasks[t] EXCEPT !.phase = "commit"]
    OBVIOUS
  <2>2. /\ q \in TaskState /\ q.phase = "commit" /\ q.worker = tasks[t].worker
        /\ q.gen = tasks[t].gen
    BY <1>1, <2>1 DEF TaskState
  <2>3. UNCHANGED <<conv, hot, lockGen>> /\ tasks[t].phase = "loop"
    BY <1>6 DEF LeaveLoop
  <2>4. \A u \in Tasks \ {t} : ~Holds(u)
    BY <1>1, <2>3, SerialFree DEF Holds
  <2>5. q.worker \in Workers /\ q.gen = 0
    BY <2>2, <2>3 DEF Serial
  <2>6. Finish(t) \/ tasks' = [tasks EXCEPT ![t] = q]
    BY <1>6, <2>1 DEF LeaveLoop
  <2>7. ASSUME tasks' = [tasks EXCEPT ![t] = q] PROVE Serial'
    BY <1>1, <2>2, <2>3, <2>4, <2>5, <2>7, SerialTask
  <2> QED
    BY <1>2, <2>3, <2>6, <2>7
<1>7. ASSUME NEW t \in Tasks, CommitWins(t)
      PROVE  Serial'
  <2>1. conv'.count > conv.count /\ conv'.count = tasks[t].count
    BY <1>7, CommitStep DEF CommitWins
  <2>2. UNCHANGED <<hot, lockGen>> /\ tasks[t].phase = "commit"
    BY <1>7 DEF CommitWins
  <2>3. \A u \in Tasks \ {t} : ~Holds(u)
    BY <1>1, <2>2, SerialFree DEF Holds
  <2>4. /\ tasks'[t] = [tasks[t] EXCEPT !.phase = "mirror"]
        /\ \A u \in Tasks : u # t => tasks'[u] = tasks[u]
    BY <1>1, <1>7 DEF CommitWins
  <2>5. /\ tasks'[t].phase = "mirror" /\ tasks'[t].worker = tasks[t].worker
        /\ tasks'[t].gen = tasks[t].gen /\ tasks'[t].count = tasks[t].count
    BY <1>1, <2>4 DEF TaskState
  <2>6. hot' # None => hot'.count <= conv'.count
    <3>1. conv.count \in Nat /\ conv'.count \in Nat /\ (hot # None => hot.count \in Nat)
      BY <1>1, NextTypeOK DEF IInv, TypeOK
    <3> QED
      BY <2>1, <2>2, <3>1 DEF Serial
  <2>7. \A u \in Tasks \ {t} : ~Holds(u)'
    BY <2>3, <2>4 DEF Holds
  <2>8. \A u \in Tasks : tasks'[u].phase # "idle" =>
          tasks'[u].worker \in Workers /\ tasks'[u].gen = 0
    <3>1. tasks[t].worker \in Workers /\ tasks[t].gen = 0
      BY <2>2 DEF Serial
    <3>2. ASSUME NEW u \in Tasks, u # t, tasks'[u].phase # "idle"
          PROVE  tasks'[u].worker \in Workers /\ tasks'[u].gen = 0
      BY <2>4, <3>2 DEF Serial
    <3> QED
      BY <2>5, <3>1, <3>2
  <2>9. \A u \in Tasks : tasks'[u].phase = "mirror" => tasks'[u].count = conv'.count
    BY <2>1, <2>5, <2>7 DEF Holds
  <2> QED
    BY <2>2, <2>6, <2>7, <2>8, <2>9 DEF Serial
<1>8. ASSUME NEW t \in Tasks, CommitLoses(t)
      PROVE  Serial'
  BY <1>2, <1>8 DEF CommitLoses
<1>9. ASSUME NEW t \in Tasks, Mirror(t)
      PROVE  Serial'
  <2>1. /\ UNCHANGED <<conv, lockGen>> /\ tasks[t].phase = "mirror" /\ Finish(t)
        /\ hot' = hot \/ hot' = [summary |-> tasks[t].summary, count |-> tasks[t].count]
    BY <1>9 DEF Mirror
  <2>2. conv.count \in Nat /\ tasks[t].count = conv.count
    BY <1>1, <2>1 DEF TypeOK, Serial
  <2>3. hot' # None => hot'.count <= conv'.count
    BY <2>1, <2>2 DEF Serial
  <2>4. /\ tasks'[t].phase = "idle"
        /\ \A u \in Tasks : u # t => tasks'[u] = tasks[u]
    BY <1>1, <2>1 DEF Finish, IdleTask
  <2> QED
    BY <2>1, <2>3, <2>4 DEF Serial, Holds
<1>10. ASSUME NEW w \in Workers, Crash(w)
       PROVE  Serial'
  <2>1. UNCHANGED <<conv, hot, lockGen>>
    BY <1>10 DEF Crash
  <2>2. \A t \in Tasks : tasks'[t].phase = "idle" \/ tasks'[t] = tasks[t]
    BY <1>10 DEF Crash, IdleTask
  <2> QED
    BY <2>1, <2>2 DEF Serial, Holds
<1>11. ASSUME NEW w \in Workers, EvictLock(w)
       PROVE  Serial'
  BY <1>11 DEF EvictLock, OneQueue, Serial
<1>12. ASSUME UNCHANGED <<conv, tasks, lockGen>>, hot' = hot \/ hot' = None
       PROVE  Serial'
  BY <1>12 DEF Serial, Holds
<1>13. ASSUME NEW w \in Workers, ClearHotState(w) \/ ReadSummary(w)
       PROVE  Serial'
  BY <1>12, <1>13 DEF ClearHotState, ReadSummary
<1>14. ASSUME \/ \E k \in 1..Len(messages) + 1 : AppendUser(k)
              \/ DeleteConversation \/ HotExpires \/ UNCHANGED vars
       PROVE  Serial'
  BY <1>12, <1>14 DEF AppendUser, DeleteConversation, HotExpires, vars
<1> QED
  BY <1>3, <1>4, <1>5, <1>6, <1>7, <1>8, <1>9, <1>10, <1>11, <1>13, <1>14
  DEF Next, TaskStep

(* One worker whose lock map never crowds: the count that Redis mirrors    *)
(* never goes back, whatever messages, failures, crashes and expiries do.  *)
THEOREM HotMonotone == OneQueue => (Spec => HotNeverRegresses)
<1> SUFFICES ASSUME OneQueue PROVE Spec => HotNeverRegresses
  OBVIOUS
<1> DEFINE A == hot # None /\ hot' # None => hot'.count >= hot.count
<1>1. Init => Serial
  BY DEF Init, Serial, Holds, IdleTask
<1>2. IInv /\ Serial /\ [Next]_vars => Serial'
  BY NextSerial
<1>3. ASSUME IInv, Serial, [Next]_vars PROVE A
  <2>1. /\ conv.count \in Nat
        /\ hot # None => hot.count \in Nat /\ hot.count <= conv.count
    BY <1>3 DEF IInv, TypeOK, Serial
  <2>2. ASSUME NEW t \in Tasks, Mirror(t) PROVE A
    <3>1. tasks[t].count = conv.count
      BY <1>3, <2>2 DEF Serial, Mirror
    <3>2. hot' = hot \/ hot' = [summary |-> tasks[t].summary, count |-> tasks[t].count]
      BY <2>2 DEF Mirror
    <3> QED
      BY <2>1, <3>1, <3>2
  <2>3. CASE hot' = hot \/ hot' = None
    BY <2>1, <2>3
  <2>4. CASE \E t \in Tasks : CommitWins(t)
    BY <2>3, <2>4 DEF CommitWins
  <2> QED
    BY <1>3, <2>2, <2>3, <2>4, StepKinds
<1>4. HotNeverRegresses <=> [][A]_vars
  BY PTL DEF HotNeverRegresses
<1> HIDE DEF A
<1> QED
  BY <1>1, <1>2, <1>3, <1>4, Invariance, PTL DEF Spec
===============================================================================
