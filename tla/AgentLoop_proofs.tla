--------------------------- MODULE AgentLoop_proofs ---------------------------
(***************************************************************************)
(* AgentLoop for every limit, window, budget and number of calls.          *)
(***************************************************************************)
EXTENDS AgentLoop, SequenceTheorems, FiniteSetTheorems, WellFoundedInduction, TLAPS

Where ==
  /\ task \in {"none", "plan", "tools", "report", "tokens", "done"}
  /\ consumer \in {"none", "fresh", "reading", "closed", "gone"}
  /\ cancelled \in BOOLEAN

Counts ==
  /\ iterations \in 0 .. MaxIterations /\ steps \in Nat
  /\ report \in Nat \cup {None} /\ layers \in Nat \cup {None}

CallRecord == [id : Nat \X Nat, kind : CallKinds, at : CallStates, text : Nat]

(* What TypeOK says of the calls, and that they are a function. *)
CallsOK == calls \in [DOMAIN calls -> CallRecord]

(* A round is a step of the planner and one of the tools; the planner      *)
(* counts it.                                                              *)
StepsCounted ==
  /\ task = "none" => iterations = 0 /\ steps = 0
  /\ task = "plan" => steps <= 2 * iterations
  /\ task = "tools" => steps <= 2 * iterations - 1

IInv == Where /\ Counts /\ CallsOK /\ StepsCounted

LEMMA IInvTypes == IInv => TypeOK
<1> SUFFICES ASSUME IInv PROVE TypeOK
  OBVIOUS
<1>1. \A k \in DOMAIN calls :
        /\ calls[k].kind \in CallKinds /\ calls[k].at \in CallStates
        /\ calls[k].text \in Nat
  BY DEF IInv, CallsOK, CallRecord
<1> QED
  BY <1>1, Zenon DEF IInv, Where, Counts, TypeOK

(* The loop's own limit is reached first. *)
LEMMA IInvSteps == IInv => NeverOutOfSteps
BY AgentLoopAssumption DEF IInv, Counts, StepsCounted, NeverOutOfSteps

LEMMA InitIInv == Init => IInv
<1> SUFFICES ASSUME Init PROVE IInv
  OBVIOUS
<1>1. Where
  BY Zenon DEF Init, Where
<1>2. Counts
  BY AgentLoopAssumption DEF Init, Counts
<1>3. CallsOK
  BY DEF Init, CallsOK
<1>4. StepsCounted
  BY DEF Init, StepsCounted
<1> QED
  BY <1>1, <1>2, <1>3, <1>4 DEF IInv

(* The steps that neither plan nor touch the calls: how far the task and    *)
(* its client are is all that changes, and no round begins.                 *)
LEMMA QuietStep ==
  ASSUME IInv, Where', StepsCounted',
         UNCHANGED <<calls, iterations, steps>>,
         report' \in Nat \cup {None}, layers' \in Nat \cup {None}
  PROVE  IInv'
<1>1. Counts'
  BY DEF IInv, Counts
<1>2. CallsOK'
  BY DEF IInv, CallsOK
<1> QED
  BY <1>1, <1>2 DEF IInv

LEMMA LeaveOK ==
  ASSUME IInv, NEW events, Leave(events), consumer' = consumer, cancelled' = cancelled
  PROVE  Where' /\ StepsCounted'
<1>1. task' = "done"
  BY DEF Leave
<1> QED
  BY <1>1, Zenon DEF IInv, Where, StepsCounted

LEMMA PlanIInv == IInv /\ Plan => IInv'
<1> SUFFICES ASSUME IInv, Plan PROVE IInv'
  OBVIOUS
<1> USE AgentLoopAssumption
<1>1. ASSUME PlanFinished \/ PlanLimit PROVE IInv'
  <2>1. /\ calls' = <<>> /\ steps' = steps + 1 /\ task' = "report"
        /\ UNCHANGED <<consumer, cancelled, iterations, layers>>
        /\ report' = report \/ report' = 1
    BY <1>1 DEF PlanFinished, PlanLimit
  <2>2. CallsOK'
    BY <2>1 DEF CallsOK
  <2>3. Where' /\ StepsCounted'
    BY <2>1, Zenon DEF IInv, Where, StepsCounted
  <2>4. Counts'
    BY <2>1 DEF IInv, Counts
  <2> QED
    BY <2>2, <2>3, <2>4 DEF IInv
<1>2. ASSUME Asks PROVE layers' \in Nat \cup {None} /\ iterations + 1 \in 0 .. MaxIterations
  <2>1. ReadLayers /\ ~OutOfIterations
    BY <1>2 DEF Asks
  <2>2. layers' \in Layers \cup {layers}
    BY <2>1, Zenon DEF ReadLayers
  <2>3. layers' \in Nat \cup {None}
    BY <2>2 DEF IInv, Counts
  <2>4. iterations + 1 \in 0 .. MaxIterations
    BY <2>1 DEF OutOfIterations, IInv, Counts
  <2> QED
    BY <2>3, <2>4
<1>3. ASSUME PlanFails PROVE IInv'
  <2>1. layers' \in Nat \cup {None}
    BY <1>2, <1>3 DEF PlanFails
  <2>2. UNCHANGED <<consumer, cancelled, calls, iterations, report, steps>>
    BY <1>3 DEF PlanFails
  <2>3. Where' /\ StepsCounted'
    BY <1>3, <2>2, LeaveOK DEF PlanFails, Fail
  <2>4. report' \in Nat \cup {None}
    BY <2>2 DEF IInv, Counts
  <2> QED
    BY <2>1, <2>2, <2>3, <2>4, QuietStep
<1>4. ASSUME NEW n \in 0 .. MaxCalls, NEW pieces \in 0 .. MaxPieces,
             NEW kinds \in [1 .. n -> {"tool", "skill", "other"}], PlanAnswered(kinds, pieces)
      PROVE  IInv'
  <2> DEFINE Queued(k) ==
        [id |-> <<iterations + 1, k>>, kind |-> kinds[k], at |-> "queued", text |-> 0]
  <2>1. layers' \in Nat \cup {None} /\ iterations' = iterations + 1
        /\ iterations' \in 0 .. MaxIterations /\ task = "plan"
    BY <1>2, <1>4 DEF PlanAnswered, Asks, Running
  <2>2. \A k \in DOMAIN kinds : Queued(k) \in CallRecord
    BY DEF IInv, Counts, CallRecord, CallKinds, CallStates
  <2>3. calls' = [k \in DOMAIN kinds |-> Queued(k)]
    BY <1>4 DEF PlanAnswered
  <2>4. CallsOK'
    <3> HIDE DEF Queued
    <3> QED
      BY <2>2, <2>3, Zenon DEF CallsOK
  <2>5. /\ task' \in {"report", "tools"} /\ steps' = steps + 1
        /\ report' \in {pieces, report}
        /\ UNCHANGED <<consumer, cancelled>>
    BY <1>4 DEF PlanAnswered
  <2>6. Where'
    BY <2>5, Zenon DEF IInv, Where
  <2>7. Counts'
    BY <2>1, <2>5 DEF IInv, Counts
  <2>8. StepsCounted'
    BY <2>1, <2>5 DEF IInv, Counts, StepsCounted
  <2> QED
    BY <2>4, <2>6, <2>7, <2>8 DEF IInv
<1> QED
  BY <1>1, <1>3, <1>4 DEF Plan

(* A call moves on by itself, whatever the task does. *)
LEMMA CallIInv == IInv /\ Call => IInv'
<1> SUFFICES ASSUME IInv, NEW k \in DOMAIN calls, StartCall(k) \/ EndCall(k) \/ SkillRaises(k)
             PROVE  IInv'
  BY DEF Call
<1>1. UNCHANGED <<task, consumer, cancelled, iterations, report, layers, steps>>
  BY DEF StartCall, EndCall, SkillRaises
<1>2. ASSUME NEW at \in CallStates, Set(k, at) PROVE CallsOK'
  BY <1>2 DEF Set, IInv, CallsOK, CallRecord
<1>3. ASSUME NEW pieces \in Nat,
             calls' = [calls EXCEPT ![k].at = "ended", ![k].text = pieces]
      PROVE  CallsOK'
  BY <1>3 DEF IInv, CallsOK, CallRecord, CallStates
<1>4. CallsOK'
  <2>1. CASE StartCall(k)
    BY <1>2, <2>1 DEF StartCall, CallStates
  <2>2. CASE EndCall(k)
    <3>1. PICK pieces \in IF calls[k].kind = "skill" THEN 0 .. MaxPieces ELSE {0} :
            calls' = [calls EXCEPT ![k].at = "ended", ![k].text = pieces]
      BY <2>2, Zenon DEF EndCall
    <3>2. pieces \in Nat
      BY AgentLoopAssumption
    <3> QED
      BY <1>3, <3>1, <3>2
  <2>3. CASE SkillRaises(k)
    BY <1>2, <2>3 DEF SkillRaises, CallStates
  <2> QED
    BY <2>1, <2>2, <2>3
<1>5. Where' /\ Counts' /\ StepsCounted'
  BY <1>1 DEF IInv, Where, Counts, StepsCounted
<1> QED
  BY <1>4, <1>5 DEF IInv

LEMMA GatherIInv == IInv /\ Gather => IInv'
<1> SUFFICES ASSUME IInv, Gather PROVE IInv'
  OBVIOUS
<1>1. ASSUME ToolsFail PROVE IInv'
  <2>1. UNCHANGED <<consumer, cancelled, calls, iterations, report, layers, steps>>
    BY <1>1 DEF ToolsFail, state
  <2>2. Where' /\ StepsCounted'
    BY <1>1, <2>1, LeaveOK DEF ToolsFail, Fail
  <2> QED
    BY <2>1, <2>2, QuietStep DEF IInv, Counts
<1>2. ASSUME NEW size \in Sizes, ToolsDone(size) PROVE IInv'
  <2>1. /\ task = "tools" /\ task' = "plan" /\ steps' = steps + 1 /\ calls' = <<>>
        /\ UNCHANGED <<consumer, cancelled, iterations, layers>>
    BY <1>2 DEF ToolsDone, Running
  <2>2. report' \in Nat \cup {None}
    <3>1. CASE UNCHANGED report
      BY <3>1 DEF IInv, Counts
    <3>2. ASSUME NEW first \in Skills, report' = calls[first].text
          PROVE  report' \in Nat
      BY <3>2 DEF Skills, IInv, CallsOK, CallRecord
    <3> QED
      BY <1>2, <3>1, <3>2 DEF ToolsDone
  <2>3. CallsOK'
    BY <2>1 DEF CallsOK
  <2>4. Where'
    BY <2>1, Zenon DEF IInv, Where
  <2>5. Counts' /\ StepsCounted'
    BY <2>1, <2>2 DEF IInv, Counts, StepsCounted
  <2> QED
    BY <2>3, <2>4, <2>5 DEF IInv
<1> QED
  BY <1>1, <1>2 DEF Gather

LEMMA ReportIInv == IInv /\ (ReportStart \/ ReportToken) => IInv'
<1> SUFFICES ASSUME IInv, ReportStart \/ ReportToken PROVE IInv'
  OBVIOUS
<1>1. UNCHANGED <<consumer, cancelled, calls, iterations, report, layers, steps>>
  BY DEF ReportStart, ReportToken, state
<1>2. task' \in {"tokens", "done"}
  BY DEF ReportStart, ReportToken, Leave, Running
<1>3. Where' /\ StepsCounted'
  BY <1>1, <1>2, Zenon DEF IInv, Where, StepsCounted
<1> QED
  BY <1>1, <1>3, QuietStep DEF IInv, Counts

LEMMA CancelIInv == IInv /\ Cancel => IInv'
<1> SUFFICES ASSUME IInv, Cancel PROVE IInv'
  OBVIOUS
<1> DEFINE Stopped(k) ==
      IF calls[k].at \in {"queued", "running"}
      THEN [calls[k] EXCEPT !.at = "cancelled"] ELSE calls[k]
<1>1. UNCHANGED <<consumer, cancelled, iterations, report, layers, steps>>
  BY DEF Cancel
<1>2. \A k \in DOMAIN calls : Stopped(k) \in CallRecord
  BY DEF IInv, CallsOK, CallRecord, CallStates
<1>3. calls' = [k \in DOMAIN calls |-> Stopped(k)]
  BY DEF Cancel
<1>4. CallsOK'
  <2> HIDE DEF Stopped
  <2> QED
    BY <1>2, <1>3, Zenon DEF CallsOK
<1>5. Where' /\ StepsCounted'
  BY <1>1, LeaveOK DEF Cancel
<1>6. Counts'
  BY <1>1 DEF IInv, Counts
<1> QED
  BY <1>4, <1>5, <1>6 DEF IInv

(* The client's steps, the first one and the last ones of the request. *)
LEMMA ClientIInv ==
  IInv /\ (Reject \/ EventGen \/ Disconnect \/ \E history \in Histories : Post(history)) => IInv'
<1> SUFFICES ASSUME IInv, Reject \/ EventGen \/ Disconnect \/ \E history \in Histories : Post(history)
             PROVE  IInv'
  OBVIOUS
<1>1. UNCHANGED <<calls, iterations, report, layers, steps>>
  BY DEF Reject, EventGen, StartReading, CloseStream, Disconnect, Post, state
<1>2. UNCHANGED task \/ (task = "none" /\ task' = "plan")
  BY DEF Reject, EventGen, StartReading, CloseStream, Disconnect, Post
<1>3. consumer' \in {"fresh", "reading", "closed", "gone"}
  BY DEF Reject, EventGen, StartReading, CloseStream, Disconnect, Post
<1>4. cancelled' \in BOOLEAN
  <2>1. CASE Disconnect
    BY <2>1, Zenon DEF Disconnect
  <2>2. CASE ~Disconnect
    BY <2>2, Zenon DEF Reject, EventGen, StartReading, CloseStream, Post, IInv, Where
  <2> QED
    BY <2>1, <2>2
<1>5. Where'
  BY <1>2, <1>3, <1>4, Zenon DEF IInv, Where
<1>6. StepsCounted'
  BY <1>1, <1>2 DEF IInv, StepsCounted
<1> QED
  BY <1>1, <1>5, <1>6, QuietStep DEF IInv, Counts

LEMMA StutterIInv == IInv /\ UNCHANGED vars => IInv'
BY DEF vars, state, IInv, Where, Counts, CallsOK, StepsCounted

LEMMA NextIInv == IInv /\ [Next]_vars => IInv'
BY PlanIInv, CallIInv, GatherIInv, ReportIInv, CancelIInv, ClientIInv, StutterIInv
   DEF Next, RunAgent

(* What the loop relies on holds throughout a request: the turn it is in,   *)
(* the counts it keeps and the tool calls it has open agree.                *)
THEOREM Invariance == Spec => []IInv
BY InitIInv, NextIInv, PTL DEF Spec

(* Every reachable state of a request is well typed; in particular no       *)
(* question is planned for more than MaxIterations times (plan_node).       *)
THEOREM TypeCorrect == Spec => []TypeOK
BY Invariance, IInvTypes, PTL

(* For every pair of limits as the code relates them, the planner's limit   *)
(* (nodes.py MAX_ITERATIONS) ends the loop before that of the graph library *)
(* raises (graph.py compiles and app.py invokes without setting it).        *)
THEOREM LimitComesFirst == Spec => []NeverOutOfSteps
BY Invariance, IInvSteps, PTL
-------------------------------------------------------------------------------
(* The stream *)

EventNames == {"tool_blocked", "tool_start", "tool_end", "report_start", "token", "done",
               "error", "None"}

EventRecord == [event : EventNames, id : (Nat \X Nat) \cup {None}]

Ending == {"done", "error"}

(* A tool's end follows its beginning. *)
EndsFollow(s) ==
  \A i \in DOMAIN s : s[i].event = "tool_end" =>
    \E j \in DOMAIN s : j < i /\ s[j].event = "tool_start" /\ s[j].id = s[i].id

(* The i-th event has its end before position r. *)
EndedBefore(s, i, r) ==
  \E j \in DOMAIN s : i < j /\ j < r /\ s[j].event = "tool_end" /\ s[i].id = s[j].id

ReportFollows(s) ==
  \A r, i \in DOMAIN s :
    s[r].event = "report_start" /\ s[i].event = "tool_start" => EndedBefore(s, i, r)

OneReport(s) ==
  \A q, r \in DOMAIN s : s[q].event = "report_start" /\ s[r].event = "report_start" => q = r

EndingIsLast(s) ==
  \A i, j \in DOMAIN s : s[i].event \in Ending /\ i < j => s[j].event = "None"

Shape(s) == EndsFollow(s) /\ ReportFollows(s) /\ OneReport(s) /\ EndingIsLast(s)

Without(s, names) == \A i \in DOMAIN s : s[i].event \notin names

(* Nothing has ended the stream. *)
Open(s) == Without(s, Ending \cup {"None"})

(* What an event may follow. *)
Fits(s, e) ==
  /\ e.event = "tool_end" =>
       \E j \in DOMAIN s : s[j].event = "tool_start" /\ s[j].id = e.id
  /\ e.event = "tool_start" => Without(s, {"report_start"})
  /\ e.event = "report_start" =>
       /\ Without(s, {"report_start"})
       /\ \A i \in DOMAIN s : s[i].event = "tool_start" => EndedBefore(s, i, Len(s) + 1)
  /\ e.event # "None" => Without(s, Ending)

LEMMA AppendFacts ==
  ASSUME NEW s \in Seq(EventRecord), NEW e \in EventRecord, NEW t, t = Append(s, e)
  PROVE  /\ t \in Seq(EventRecord) /\ Len(t) = Len(s) + 1 /\ DOMAIN t = 1 .. Len(s) + 1
         /\ DOMAIN s = 1 .. Len(s) /\ Len(s) \in Nat
         /\ t[Len(s) + 1] = e
         /\ \A i \in DOMAIN s : i \in DOMAIN t /\ t[i] = s[i] /\ i < Len(s) + 1
         /\ \A i \in DOMAIN t : i \in DOMAIN s \/ i = Len(s) + 1
OBVIOUS

LEMMA AppendShape ==
  ASSUME NEW s \in Seq(EventRecord), NEW e \in EventRecord, Shape(s), Fits(s, e)
  PROVE  Shape(Append(s, e))
<1> DEFINE t == Append(s, e)
           n == Len(s) + 1
<1>1. /\ t \in Seq(EventRecord) /\ DOMAIN t = 1 .. n
      /\ DOMAIN s = 1 .. Len(s) /\ Len(s) \in Nat
      /\ t[n] = e
      /\ \A i \in DOMAIN s : i \in DOMAIN t /\ t[i] = s[i] /\ i < n
      /\ \A i \in DOMAIN t : i \in DOMAIN s \/ i = n
  BY AppendFacts
<1>2. \A i, j \in DOMAIN t : i < j => i \in DOMAIN s
  BY <1>1
<1> HIDE DEF t, n
<1>3. EndsFollow(t)
  BY <1>1 DEF Shape, Fits, EndsFollow
<1>4. ASSUME NEW r \in DOMAIN t, NEW i \in DOMAIN t,
             t[r].event = "report_start", t[i].event = "tool_start"
      PROVE  EndedBefore(t, i, r)
  <2>1. i \in DOMAIN s
    <3>1. CASE i = n
      <4>1. e.event = "tool_start" /\ r # n
        BY <1>1, <1>4, <3>1
      <4> QED
        BY <1>1, <1>4, <4>1 DEF Fits, Without
    <3> QED
      BY <1>1, <3>1
  <2>2. CASE r \in DOMAIN s
    <3>1. EndedBefore(s, i, r)
      BY <1>1, <1>4, <2>1, <2>2 DEF Shape, ReportFollows
    <3> QED
      BY <1>1, <2>1, <2>2, <3>1 DEF EndedBefore
  <2>3. CASE r = n
    <3>1. EndedBefore(s, i, n)
      BY <1>1, <1>4, <2>1, <2>3 DEF Fits, n
    <3> QED
      BY <1>1, <2>1, <2>3, <3>1 DEF EndedBefore
  <2> QED
    BY <1>1, <2>2, <2>3
<1>5. OneReport(t)
  BY <1>1 DEF Shape, Fits, OneReport, Without
<1>6. EndingIsLast(t)
  BY <1>1, <1>2 DEF Shape, Fits, EndingIsLast, Without
<1> QED
  BY <1>3, <1>4, <1>5, <1>6 DEF Shape, ReportFollows, t

(* The least element of a set of numbers. *)
LEMMA LeastNatural ==
  ASSUME NEW T \in SUBSET Nat, T # {}
  PROVE  Min(T) \in T /\ \A m \in T : Min(T) <= m
<1>1. IsWellFoundedOn(OpToRel(<, Nat), Nat)
  BY NatLessThanWellFounded
<1>2. PICK n \in T : \A m \in T : <<m, n>> \notin OpToRel(<, Nat)
  BY <1>1, WFMin
<1>3. \A m \in T : ~(m < n)
  BY <1>2 DEF OpToRel
<1>4. \A m \in T : n <= m
  BY <1>3
<1> QED
  BY <1>4 DEF Min

(* What of a stream can be read. *)
Sentinels(s) == {i \in DOMAIN s : s[i] = Sentinel}

Cut(s) == IF Sentinel \in ToSet(s) THEN SubSeq(s, 1, Min(Sentinels(s))) ELSE s

LEMMA DeliveredIsCut == Delivered = Cut(stream)
BY DEF Delivered, Cut, Closed, Sentinels

LEMMA CutFacts ==
  ASSUME NEW s \in Seq(EventRecord), Sentinel \in ToSet(s)
  PROVE  /\ Min(Sentinels(s)) \in DOMAIN s /\ s[Min(Sentinels(s))] = Sentinel
         /\ \A i \in Sentinels(s) : Min(Sentinels(s)) <= i
         /\ Cut(s) = SubSeq(s, 1, Min(Sentinels(s)))
<1>1. Sentinels(s) \subseteq Nat /\ Sentinels(s) # {}
  BY DEF Sentinels, ToSet
<1>2. Min(Sentinels(s)) \in Sentinels(s) /\ \A m \in Sentinels(s) : Min(Sentinels(s)) <= m
  BY <1>1, LeastNatural
<1> QED
  BY <1>2 DEF Sentinels, Cut

(* What comes after the sentinel is not read. *)
LEMMA CutIsFinal ==
  ASSUME NEW s \in Seq(EventRecord), NEW e \in EventRecord, Sentinel \in ToSet(s)
  PROVE  Sentinel \in ToSet(Append(s, e)) /\ Cut(Append(s, e)) = Cut(s)
<1> DEFINE t == Append(s, e)
           m == Min(Sentinels(s))
           k == Min(Sentinels(t))
<1>1. /\ t \in Seq(EventRecord) /\ DOMAIN t = 1 .. Len(s) + 1 /\ Len(t) = Len(s) + 1
      /\ DOMAIN s = 1 .. Len(s) /\ Len(s) \in Nat
      /\ \A i \in DOMAIN s : i \in DOMAIN t /\ t[i] = s[i] /\ i < Len(s) + 1
      /\ \A i \in DOMAIN t : i \in DOMAIN s \/ i = Len(s) + 1
  BY AppendFacts
<1>2. /\ m \in DOMAIN s /\ s[m] = Sentinel /\ \A i \in Sentinels(s) : m <= i
      /\ Cut(s) = SubSeq(s, 1, m)
  BY CutFacts
<1> HIDE DEF m, t
<1>3. Sentinel \in ToSet(t)
  BY <1>1, <1>2 DEF ToSet
<1>4. /\ k \in DOMAIN t /\ t[k] = Sentinel /\ \A i \in Sentinels(t) : k <= i
      /\ Cut(t) = SubSeq(t, 1, k)
  BY <1>1, <1>3, CutFacts
<1> HIDE DEF k
<1>5. k = m
  <2>1. k <= m
    BY <1>1, <1>2, <1>4 DEF Sentinels
  <2>2. k \in DOMAIN s
    BY <1>1, <1>2, <1>4, <2>1
  <2>3. m <= k
    BY <1>1, <1>2, <1>4, <2>2 DEF Sentinels
  <2> QED
    BY <1>1, <1>2, <1>4, <2>1, <2>3
<1>6. SubSeq(t, 1, m) = SubSeq(s, 1, m)
  BY <1>1, <1>2
<1> QED
  BY <1>2, <1>3, <1>4, <1>5, <1>6 DEF t

(* A stream that was open is read up to the sentinel that closes it. *)
LEMMA CutAtClose ==
  ASSUME NEW s \in Seq(EventRecord), Without(s, {"None"})
  PROVE  /\ Append(s, Sentinel) \in Seq(EventRecord)
         /\ Sentinel \in ToSet(Append(s, Sentinel))
         /\ Cut(Append(s, Sentinel)) = Append(s, Sentinel)
<1> DEFINE t == Append(s, Sentinel)
           n == Len(s) + 1
           k == Min(Sentinels(t))
<1>0. Sentinel \in EventRecord /\ Sentinel.event = "None"
  BY DEF Sentinel, Event, EventRecord, EventNames
<1>1. /\ t \in Seq(EventRecord) /\ DOMAIN t = 1 .. n /\ Len(t) = n
      /\ DOMAIN s = 1 .. Len(s) /\ Len(s) \in Nat
      /\ t[n] = Sentinel
      /\ \A i \in DOMAIN s : i \in DOMAIN t /\ t[i] = s[i] /\ i < n
      /\ \A i \in DOMAIN t : i \in DOMAIN s \/ i = n
  BY <1>0, AppendFacts
<1> HIDE DEF t
<1>2. Sentinel \in ToSet(t)
  BY <1>1 DEF ToSet
<1>3. /\ k \in DOMAIN t /\ t[k] = Sentinel /\ Cut(t) = SubSeq(t, 1, k)
  BY <1>1, <1>2, CutFacts
<1> HIDE DEF k
<1>4. k = n
  BY <1>0, <1>1, <1>3 DEF Without
<1>5. SubSeq(t, 1, n) = t
  BY <1>1
<1> QED
  BY <1>1, <1>2, <1>3, <1>4, <1>5 DEF t

(* A call that began has ended, or its task still has it. *)
Held(s) ==
  \A i \in DOMAIN s : s[i].event = "tool_start" =>
    \/ EndedBefore(s, i, Len(s) + 1)
    \/ \E k \in DOMAIN calls : calls[k].id = s[i].id /\ calls[k].at \in {"running", "raised"}

(* A call that runs has begun. *)
Begun(s) ==
  \A k \in DOMAIN calls : calls[k].at = "running" =>
    \E i \in DOMAIN s : s[i].event = "tool_start" /\ s[i].id = calls[k].id

(* While the task runs nothing has ended the stream, only its tools are    *)
(* open in it, and it holds a report only when that is being sent.         *)
OpenStream ==
  task # "done" =>
    /\ Open(stream) /\ Shape(stream) /\ Held(stream) /\ Begun(stream)
    /\ task # "tokens" => Without(stream, {"report_start"})
    /\ task # "tools" => calls = <<>>

(* After it nothing that is read changes. *)
ClosedStream ==
  task = "done" =>
    /\ Sentinel \in ToSet(stream) /\ Shape(Cut(stream))
    /\ cancelled \/ \E i \in DOMAIN Cut(stream) : Cut(stream)[i].event \in Ending

(* Only a client that has gone cancels. *)
StreamOK ==
  /\ stream \in Seq(EventRecord)
  /\ OpenStream /\ ClosedStream
  /\ cancelled => consumer = "gone"

LEMMA ClosedIffDone ==
  ASSUME StreamOK, Where
  PROVE  Closed <=> task = "done"
<1>1. ASSUME Closed, task # "done" PROVE FALSE
  <2>1. PICK i \in DOMAIN stream : stream[i] = Sentinel
    BY <1>1 DEF Closed, ToSet
  <2> QED
    BY <1>1, <2>1 DEF StreamOK, OpenStream, Open, Without, Sentinel, Event
<1> QED
  BY <1>1 DEF StreamOK, ClosedStream, Closed

LEMMA AtMostOne ==
  ASSUME NEW A, \A a, b \in A : a = b
  PROVE  Cardinality(A) <= 1
<1>1. CASE A = {}
  BY <1>1, FS_EmptySet
<1>2. ASSUME NEW a \in A PROVE Cardinality(A) = 1
  <2>1. A = {a}
    BY <1>2
  <2> QED
    BY <2>1, FS_Singleton
<1> QED
  BY <1>1, <1>2

LEMMA StreamOKWellFormed ==
  ASSUME StreamOK, Where
  PROVE  StreamIsWellFormed
<1> DEFINE d == Delivered
           At(name) == {i \in DOMAIN d : d[i].event = name}
           Same(i, j) == d[i].id = d[j].id
<1>1. Delivered = Cut(stream)
  BY DeliveredIsCut
<1>2. d = stream \/ task = "done"
  BY <1>1, ClosedIffDone DEF Cut, Closed
<1>3. Shape(d)
  BY <1>1, <1>2 DEF StreamOK, OpenStream, ClosedStream
<1>4. Closed /\ ~cancelled => \E i \in DOMAIN d : d[i].event \in Ending
  BY <1>1, ClosedIffDone DEF StreamOK, ClosedStream
<1> HIDE DEF d
<1>5. \A i \in At("tool_end") : \E j \in At("tool_start") : j < i /\ Same(i, j)
  BY <1>3 DEF Shape, EndsFollow
<1>6. \A r \in At("report_start"), i \in At("tool_start") :
        \E j \in At("tool_end") : i < j /\ j < r /\ Same(i, j)
  BY <1>3 DEF Shape, ReportFollows, EndedBefore
<1>7. Cardinality(At("report_start")) <= 1
  <2>1. \A a, b \in At("report_start") : a = b
    BY <1>3 DEF Shape, OneReport
  <2> HIDE DEF At
  <2> QED
    BY <2>1, AtMostOne
<1>8. \A i \in At("done") \cup At("error") : \A j \in DOMAIN d : j > i => j \in At("None")
  BY <1>3 DEF Shape, EndingIsLast, Ending
<1>9. Closed /\ ~cancelled => At("done") \cup At("error") # {}
  BY <1>4 DEF Ending
<1> QED
  BY <1>5, <1>6, <1>7, <1>8, <1>9, Zenon DEF StreamIsWellFormed, d

LEMMA EventOK ==
  ASSUME NEW name \in EventNames
  PROVE  /\ Event(name, None) \in EventRecord /\ Event(name, None).event = name
         /\ \A id \in Nat \X Nat : /\ Event(name, id) \in EventRecord
                                   /\ Event(name, id).event = name /\ Event(name, id).id = id
BY DEF Event, EventRecord

LEMMA InitStream == Init => StreamOK
<1> SUFFICES ASSUME Init PROVE StreamOK
  OBVIOUS
<1>1. stream = <<>> /\ stream \in Seq(EventRecord) /\ DOMAIN stream = {}
  BY DEF Init
<1>2. task = "none" /\ calls = <<>> /\ ~cancelled
  BY DEF Init
<1>3. DOMAIN calls = {}
  BY <1>2
<1>4. Open(stream) /\ Shape(stream) /\ Without(stream, {"report_start"})
  BY <1>1 DEF Open, Without, Shape, EndsFollow, ReportFollows, OneReport, EndingIsLast
<1>5. Held(stream) /\ Begun(stream)
  BY <1>1, <1>3 DEF Held, Begun
<1> QED
  BY <1>1, <1>2, <1>4, <1>5 DEF StreamOK, OpenStream, ClosedStream

(* The steps that put nothing and leave the calls alone or clear them once *)
(* none is open.                                                           *)
LEMMA SilentStep ==
  ASSUME StreamOK, UNCHANGED <<stream, cancelled>>, cancelled => consumer' = consumer,
         task # "done", task' # "done", task # "tokens",
         task' # "tools" => calls' = <<>>,
         \A k \in DOMAIN calls : calls[k].at \notin {"running", "raised"},
         \A k \in DOMAIN calls' : calls'[k].at \notin {"running", "raised"}
  PROVE  StreamOK'
<1>1. Held(stream)'
  BY DEF StreamOK, OpenStream, Held, EndedBefore
<1>2. Begun(stream)'
  BY DEF Begun
<1>3. /\ stream' \in Seq(EventRecord) /\ Open(stream') /\ Shape(stream')
      /\ Without(stream', {"report_start"})
  BY DEF StreamOK, OpenStream
<1>4. OpenStream'
  BY <1>1, <1>2, <1>3, Zenon DEF OpenStream
<1>5. ClosedStream'
  BY DEF ClosedStream
<1>6. cancelled' => consumer' = "gone"
  BY DEF StreamOK
<1> QED
  BY <1>3, <1>4, <1>5, <1>6 DEF StreamOK

(* An event of a stream that goes on. *)
LEMMA AppendOpen ==
  ASSUME NEW s \in Seq(EventRecord), NEW e \in EventRecord, Shape(s), Fits(s, e), Open(s)
  PROVE  /\ Append(s, e) \in Seq(EventRecord) /\ Shape(Append(s, e))
         /\ Without(Append(s, e), {"None"}) \/ e.event = "None"
         /\ e.event \notin Ending \cup {"None"} => Open(Append(s, e))
         /\ e.event # "report_start" /\ Without(s, {"report_start"}) =>
              Without(Append(s, e), {"report_start"})
<1>1. Shape(Append(s, e))
  BY AppendShape
<1> DEFINE t == Append(s, e)
<1>2. /\ t \in Seq(EventRecord) /\ t[Len(s) + 1] = e
      /\ \A i \in DOMAIN s : t[i] = s[i]
      /\ \A i \in DOMAIN t : i \in DOMAIN s \/ i = Len(s) + 1
  BY AppendFacts
<1> HIDE DEF t
<1>3. Without(t, {"None"}) \/ e.event = "None"
  BY <1>2 DEF Open, Without
<1>4. e.event \notin Ending \cup {"None"} => Open(t)
  BY <1>2 DEF Open, Without
<1>5. e.event # "report_start" /\ Without(s, {"report_start"}) => Without(t, {"report_start"})
  BY <1>2 DEF Without
<1> QED
  BY <1>1, <1>2, <1>3, <1>4, <1>5 DEF t

LEMMA CloseStep ==
  ASSUME NEW s \in Seq(EventRecord), Shape(s), Without(s, {"None"}),
         stream' = Append(s, Sentinel), task' = "done",
         cancelled' \/ \E i \in DOMAIN s : s[i].event \in Ending,
         cancelled' => consumer' = "gone"
  PROVE  StreamOK'
<1>0. Sentinel \in EventRecord /\ Sentinel.event = "None"
  BY DEF Sentinel, Event, EventRecord, EventNames
<1>1. /\ stream' \in Seq(EventRecord) /\ Sentinel \in ToSet(stream')
      /\ Cut(stream') = stream'
  BY CutAtClose
<1>2. Fits(s, Sentinel)
  BY <1>0 DEF Fits
<1>3. Shape(stream')
  BY <1>0, <1>2, AppendShape
<1>4. cancelled' \/ \E i \in DOMAIN stream' : stream'[i].event \in Ending
  BY <1>0, AppendFacts
<1>5. ClosedStream'
  BY <1>1, <1>3, <1>4, Zenon DEF ClosedStream
<1>6. OpenStream'
  BY Zenon DEF OpenStream
<1> QED
  BY <1>1, <1>5, <1>6 DEF StreamOK

LEMMA FailStream ==
  ASSUME StreamOK, task # "done", Fail, UNCHANGED <<consumer, cancelled>>
  PROVE  StreamOK'
<1> DEFINE e == Event("error", None)
<1>1. e \in EventRecord /\ e.event = "error"
  BY EventOK DEF EventNames
<1>2. stream \in Seq(EventRecord) /\ Shape(stream) /\ Open(stream)
  BY DEF StreamOK, OpenStream
<1>3. task' = "done" /\ stream' = stream \o (<<e>> \o <<Sentinel>>)
  BY DEF Fail, Leave, Put
<1>4. Fits(stream, e)
  BY <1>1, <1>2 DEF Fits, Open, Without
<1> HIDE DEF e
<1>5. /\ Append(stream, e) \in Seq(EventRecord) /\ Shape(Append(stream, e))
      /\ Without(Append(stream, e), {"None"})
  BY <1>1, <1>2, <1>4, AppendOpen
<1>6. \E i \in DOMAIN Append(stream, e) : Append(stream, e)[i].event \in Ending
  BY <1>1, <1>2, AppendFacts DEF Ending
<1>7. stream' = Append(Append(stream, e), Sentinel)
  <2>1. Sentinel \in EventRecord
    BY DEF Sentinel, Event, EventRecord, EventNames
  <2> QED
    BY <1>1, <1>2, <1>3, <2>1
<1>8. cancelled' => consumer' = "gone"
  BY DEF StreamOK
<1> QED
  BY <1>3, <1>5, <1>6, <1>7, <1>8, CloseStep

LEMMA PlanStream == IInv /\ StreamOK /\ Plan => StreamOK'
<1> SUFFICES ASSUME IInv, StreamOK, Plan PROVE StreamOK'
  OBVIOUS
<1>1. task = "plan"
  BY DEF Plan, PlanFinished, PlanLimit, PlanFails, PlanAnswered, Asks, Running
<1>2. calls = <<>> /\ DOMAIN calls = {}
  BY <1>1 DEF StreamOK, OpenStream
<1>3. CASE PlanFinished \/ PlanLimit
  <2>1. UNCHANGED <<stream, consumer, cancelled>> /\ calls' = <<>> /\ task' = "report"
    BY <1>3 DEF PlanFinished, PlanLimit
  <2>2. DOMAIN calls' = {}
    BY <2>1
  <2> QED
    BY <1>1, <1>2, <2>1, <2>2, SilentStep
<1>4. CASE PlanFails
  BY <1>1, <1>4, FailStream DEF PlanFails
<1>5. ASSUME NEW n \in 0 .. MaxCalls, NEW pieces \in 0 .. MaxPieces,
             NEW kinds \in [1 .. n -> {"tool", "skill", "other"}], PlanAnswered(kinds, pieces)
      PROVE  StreamOK'
  <2>1. /\ UNCHANGED <<stream, consumer, cancelled>> /\ task' \in {"report", "tools"}
        /\ task' = "report" => kinds = <<>>
        /\ calls' = [k \in DOMAIN kinds |->
                       [id |-> [i \in DOMAIN kinds |-> <<iterations + 1, i>>][k],
                        kind |-> kinds[k], at |-> "queued", text |-> 0]]
    BY <1>5, Zenon DEF PlanAnswered
  <2>2. \A k \in DOMAIN calls' : calls'[k].at = "queued"
    BY <2>1
  <2>3. task' # "tools" => calls' = <<>>
    BY <2>1
  <2> QED
    BY <1>1, <1>2, <2>1, <2>2, <2>3, SilentStep
<1> QED
  BY <1>3, <1>4, <1>5 DEF Plan

LEMMA GatherStream == IInv /\ StreamOK /\ Gather => StreamOK'
<1> SUFFICES ASSUME IInv, StreamOK, Gather PROVE StreamOK'
  OBVIOUS
<1>1. CASE ToolsFail
  <2>1. task = "tools" /\ Fail /\ UNCHANGED <<consumer, cancelled>>
    BY <1>1 DEF ToolsFail, Running
  <2> QED
    BY <2>1, FailStream
<1>2. ASSUME NEW size \in Sizes, ToolsDone(size) PROVE StreamOK'
  <2>1. /\ task = "tools" /\ task' = "plan" /\ calls' = <<>> /\ Gathered
        /\ UNCHANGED <<stream, consumer, cancelled>>
    BY <1>2 DEF ToolsDone, Running
  <2>2. \A k \in DOMAIN calls : calls[k].at \notin {"running", "raised"}
    BY <2>1 DEF Gathered, Ended
  <2>3. DOMAIN calls' = {}
    BY <2>1
  <2> QED
    BY <2>1, <2>2, <2>3, SilentStep
<1> QED
  BY <1>1, <1>2 DEF Gather

LEMMA ReportStream == IInv /\ StreamOK /\ (ReportStart \/ ReportToken) => StreamOK'
<1> SUFFICES ASSUME IInv, StreamOK, ReportStart \/ ReportToken PROVE StreamOK'
  OBVIOUS
<1> DEFINE start == Event("report_start", None)
           done == Event("done", None)
<1>1. /\ start \in EventRecord /\ start.event = "report_start"
      /\ done \in EventRecord /\ done.event = "done"
      /\ Token \in EventRecord /\ Token.event = "token"
      /\ Sentinel \in EventRecord
  BY EventOK DEF EventNames, Token, Sentinel
<1>2. task \in {"report", "tokens"} /\ UNCHANGED <<consumer, cancelled, calls>>
  BY DEF ReportStart, ReportToken, Running, state
<1>3. /\ stream \in Seq(EventRecord) /\ Shape(stream) /\ Open(stream) /\ Held(stream)
      /\ task = "report" => Without(stream, {"report_start"})
      /\ calls = <<>> /\ DOMAIN calls = {}
      /\ cancelled' => consumer' = "gone"
  BY <1>2 DEF StreamOK, OpenStream
<1>4. ASSUME NEW s \in Seq(EventRecord), Shape(s), Open(s)
      PROVE  /\ Append(s, Token) \in Seq(EventRecord) /\ Shape(Append(s, Token))
             /\ Open(Append(s, Token))
             /\ Append(s, done) \in Seq(EventRecord) /\ Shape(Append(s, done))
             /\ Without(Append(s, done), {"None"})
             /\ \E i \in DOMAIN Append(s, done) : Append(s, done)[i].event \in Ending
  <2>1. Fits(s, Token) /\ Fits(s, done)
    BY <1>1, <1>4 DEF Fits, Open, Without
  <2> HIDE DEF done
  <2>2. \E i \in DOMAIN Append(s, done) : Append(s, done)[i].event \in Ending
    BY <1>1, AppendFacts DEF Ending
  <2> QED
    BY <1>1, <1>4, <2>1, <2>2, AppendOpen DEF Ending
(* Every tool that began has ended: no call is left. *)
<1>5. \A i \in DOMAIN stream : stream[i].event = "tool_start" =>
        EndedBefore(stream, i, Len(stream) + 1)
  BY <1>3 DEF Held
<1>6. ASSUME task = "report"
      PROVE  /\ Append(stream, start) \in Seq(EventRecord) /\ Shape(Append(stream, start))
             /\ Open(Append(stream, start))
  <2>1. Fits(stream, start)
    BY <1>1, <1>3, <1>5, <1>6 DEF Fits, Open, Without
  <2> HIDE DEF start
  <2> QED
    BY <1>1, <1>3, <2>1, AppendOpen DEF Ending
<1> HIDE DEF start, done
(* A stream that goes on with pieces of the report. *)
<1>7. ASSUME NEW s \in Seq(EventRecord), Shape(s), Open(s), stream' = Append(s, Token),
             task' = "tokens",
             \A i \in DOMAIN s : s[i].event = "tool_start" => EndedBefore(s, i, Len(s) + 1)
      PROVE  StreamOK'
  <2>1. stream' \in Seq(EventRecord) /\ Shape(stream') /\ Open(stream')
    BY <1>4, <1>7
  <2>2. Held(stream)'
    <3>1. /\ Len(stream') = Len(s) + 1 /\ Len(s) \in Nat /\ stream'[Len(s) + 1] = Token
          /\ \A i \in DOMAIN s : i \in DOMAIN stream' /\ stream'[i] = s[i] /\ i < Len(s) + 1
          /\ \A i \in DOMAIN stream' : i \in DOMAIN s \/ i = Len(s) + 1
          /\ DOMAIN s = 1 .. Len(s)
      BY <1>1, <1>7, AppendFacts
    <3>2. ASSUME NEW i \in DOMAIN stream', stream'[i].event = "tool_start"
          PROVE  EndedBefore(stream', i, Len(stream') + 1)
      <4>1. i \in DOMAIN s /\ s[i].event = "tool_start"
        BY <1>1, <3>1, <3>2
      <4>2. EndedBefore(s, i, Len(s) + 1)
        BY <1>7, <4>1
      <4>3. PICK j \in DOMAIN s : /\ i < j /\ j < Len(s) + 1 /\ s[j].event = "tool_end"
                                  /\ s[i].id = s[j].id
        BY <4>2 DEF EndedBefore
      <4> QED
        BY <3>1, <4>1, <4>3 DEF EndedBefore
    <3> QED
      BY <3>2 DEF Held
  <2>3. calls' = <<>> /\ Begun(stream)'
    BY <1>2, <1>3 DEF Begun
  <2>4. OpenStream'
    BY <1>7, <2>1, <2>2, <2>3, Zenon DEF OpenStream
  <2>5. ClosedStream'
    BY <1>7, Zenon DEF ClosedStream
  <2> QED
    BY <1>3, <2>1, <2>4, <2>5 DEF StreamOK
(* A report that ends. *)
<1>8. ASSUME NEW s \in Seq(EventRecord), Shape(s), Open(s), task' = "done",
             stream' = Append(Append(s, done), Sentinel)
      PROVE  StreamOK'
  BY <1>3, <1>4, <1>8, CloseStep
<1>9. CASE ReportStart
  <2>1. task = "report"
    BY <1>9 DEF ReportStart, Running
  <2>2. CASE Pieces = 0
    <3>1. /\ task' = "done"
          /\ stream' = stream \o (<<start, done>> \o <<Sentinel>>)
      BY <1>9, <2>2 DEF ReportStart, Leave, Put, start, done
    <3>2. stream' = Append(Append(Append(stream, start), done), Sentinel)
      BY <1>1, <1>3, <3>1
    <3> QED
      BY <1>6, <1>8, <2>1, <3>1, <3>2
  <2>3. CASE Pieces # 0
    <3>1. task' = "tokens" /\ stream' = stream \o <<start, Token>>
      BY <1>9, <2>3 DEF ReportStart, Put, start
    <3>2. stream' = Append(Append(stream, start), Token)
      BY <1>1, <1>3, <3>1
    <3> DEFINE s == Append(stream, start)
    <3>3. \A i \in DOMAIN s : s[i].event = "tool_start" => EndedBefore(s, i, Len(s) + 1)
      <4>1. /\ Len(s) = Len(stream) + 1 /\ Len(stream) \in Nat /\ s[Len(stream) + 1] = start
            /\ \A i \in DOMAIN stream : i \in DOMAIN s /\ s[i] = stream[i] /\ i < Len(stream) + 1
            /\ \A i \in DOMAIN s : i \in DOMAIN stream \/ i = Len(stream) + 1
        BY <1>1, <1>3, AppendFacts
      <4> HIDE DEF s
      <4>2. ASSUME NEW i \in DOMAIN s, s[i].event = "tool_start"
            PROVE  EndedBefore(s, i, Len(s) + 1)
        <5>1. i \in DOMAIN stream /\ stream[i].event = "tool_start"
          BY <1>1, <4>1, <4>2
        <5>2. EndedBefore(stream, i, Len(stream) + 1)
          BY <1>5, <5>1
        <5>3. PICK j \in DOMAIN stream :
                /\ i < j /\ j < Len(stream) + 1 /\ stream[j].event = "tool_end"
                /\ stream[i].id = stream[j].id
          BY <5>2 DEF EndedBefore
        <5> QED
          BY <4>1, <5>1, <5>3 DEF EndedBefore
      <4> QED
        BY <4>2
    <3> QED
      BY <1>6, <1>7, <2>1, <3>1, <3>2, <3>3
  <2> QED
    BY <2>2, <2>3
<1>10. CASE ReportToken
  <2>1. \/ task' = "tokens" /\ stream' = stream \o <<Token>>
        \/ task' = "done" /\ stream' = stream \o (<<done>> \o <<Sentinel>>)
    BY <1>10 DEF ReportToken, Leave, Put, done, Running
  <2>2. \/ task' = "tokens" /\ stream' = Append(stream, Token)
        \/ task' = "done" /\ stream' = Append(Append(stream, done), Sentinel)
    BY <1>1, <1>3, <2>1
  <2> QED
    BY <1>3, <1>5, <1>7, <1>8, <2>2
<1> QED
  BY <1>9, <1>10

LEMMA CancelStream == IInv /\ StreamOK /\ Cancel => StreamOK'
<1> SUFFICES ASSUME IInv, StreamOK, Cancel PROVE StreamOK'
  OBVIOUS
<1>1. /\ task # "done" /\ cancelled /\ task' = "done" /\ UNCHANGED <<consumer, cancelled>>
      /\ stream' = stream \o (<<>> \o <<Sentinel>>)
  BY DEF Cancel, Leave, Put
<1>2. stream \in Seq(EventRecord) /\ Shape(stream) /\ Without(stream, {"None"})
  BY <1>1 DEF StreamOK, OpenStream, Open, Without
<1>3. stream' = Append(stream, Sentinel)
  BY <1>1, <1>2
<1>4. cancelled' /\ consumer' = "gone"
  BY <1>1 DEF StreamOK
<1> QED
  BY <1>1, <1>2, <1>3, <1>4, CloseStep

(* A call that moves on stays the call it is. *)
LEMMA CallKeepsIds ==
  ASSUME IInv, NEW k \in DOMAIN calls, StartCall(k) \/ EndCall(k) \/ SkillRaises(k)
  PROVE  /\ DOMAIN calls' = DOMAIN calls
         /\ \A j \in DOMAIN calls : calls'[j].id = calls[j].id /\ (j # k => calls'[j] = calls[j])
         /\ EndCall(k) => calls'[k].at = "ended"
<1> DEFINE Kept == /\ DOMAIN calls' = DOMAIN calls
                   /\ \A j \in DOMAIN calls :
                        calls'[j].id = calls[j].id /\ (j # k => calls'[j] = calls[j])
<1>1. ASSUME NEW at \in CallStates, Set(k, at) PROVE Kept
  BY <1>1 DEF Set, IInv, CallsOK, CallRecord
<1>2. ASSUME NEW pieces \in Nat,
             calls' = [calls EXCEPT ![k].at = "ended", ![k].text = pieces]
      PROVE  Kept /\ calls'[k].at = "ended"
  BY <1>2 DEF IInv, CallsOK, CallRecord
<1> HIDE DEF Kept
<1>3. EndCall(k) => Kept /\ calls'[k].at = "ended"
  <2> SUFFICES ASSUME EndCall(k) PROVE Kept /\ calls'[k].at = "ended"
    OBVIOUS
  <2>1. PICK pieces \in IF calls[k].kind = "skill" THEN 0 .. MaxPieces ELSE {0} :
          calls' = [calls EXCEPT ![k].at = "ended", ![k].text = pieces]
    BY Zenon DEF EndCall
  <2>2. pieces \in Nat
    BY AgentLoopAssumption
  <2> QED
    BY <1>2, <2>1, <2>2
<1>4. ~EndCall(k) => Kept
  <2> SUFFICES ASSUME ~EndCall(k) PROVE Kept
    OBVIOUS
  <2>1. Set(k, "refused") \/ Set(k, "running") \/ Set(k, "raised")
    BY DEF StartCall, SkillRaises
  <2> QED
    BY <1>1, <2>1 DEF CallStates
<1> QED
  BY <1>3, <1>4 DEF Kept

(* A call puts at most one event, which the stream then takes. *)
LEMMA CallStream == IInv /\ StreamOK /\ Call => StreamOK'
<1> SUFFICES ASSUME IInv, StreamOK, NEW k \in DOMAIN calls,
                    StartCall(k) \/ EndCall(k) \/ SkillRaises(k)
             PROVE  StreamOK'
  BY DEF Call
<1> DEFINE id == calls[k].id
           e == IF EndCall(k) THEN Event("tool_end", id)
                ELSE IF calls[k].kind = "other" THEN Event("tool_blocked", id)
                ELSE Event("tool_start", id)
<1>1. UNCHANGED <<task, consumer, cancelled>>
  BY DEF StartCall, EndCall, SkillRaises
<1>2. id \in Nat \X Nat
  BY DEF IInv, CallsOK, CallRecord
<1>3. e \in EventRecord /\ e.id = id
  BY <1>2, EventOK DEF EventNames
<1>4. \/ UNCHANGED stream
      \/ stream' = stream \o <<e>>
  BY DEF StartCall, EndCall, SkillRaises, Put
<1>5. stream \in Seq(EventRecord) /\ (UNCHANGED stream \/ stream' = Append(stream, e))
  BY <1>3, <1>4 DEF StreamOK
<1>6. stream' \in Seq(EventRecord)
  BY <1>3, <1>5
<1>7. ClosedStream'
  <2>1. ASSUME task = "done"
        PROVE  Sentinel \in ToSet(stream') /\ Cut(stream') = Cut(stream)
    <3>1. Sentinel \in ToSet(stream)
      BY <2>1 DEF StreamOK, ClosedStream
    <3> HIDE DEF e
    <3> QED
      BY <1>3, <1>5, <3>1, CutIsFinal
  <2> QED
    BY <1>1, <2>1 DEF StreamOK, ClosedStream
<1>8. ASSUME task # "done" PROVE OpenStream'
  <2>0. /\ task = "tools" /\ Open(stream) /\ Shape(stream) /\ Held(stream) /\ Begun(stream)
        /\ Without(stream, {"report_start"})
    <3>1. calls # <<>>
      OBVIOUS
    <3> QED
      BY <1>8, <3>1 DEF StreamOK, OpenStream
  <2>1. /\ DOMAIN calls' = DOMAIN calls
        /\ \A j \in DOMAIN calls : calls'[j].id = calls[j].id /\ (j # k => calls'[j] = calls[j])
        /\ EndCall(k) => calls'[k].at = "ended"
    BY CallKeepsIds
(* The stream takes the event. *)
  <2>2. CASE stream' = Append(stream, e) /\ Fits(stream, e)
             /\ e.event \in {"tool_start", "tool_end", "tool_blocked"}
             /\ (e.event = "tool_start" => calls'[k].at = "running")
             /\ (calls[k].at \in {"running", "raised"} => e.event = "tool_end")
             /\ (calls'[k].at = "running" => e.event = "tool_start")
    <3> DEFINE n == Len(stream) + 1
    <3> HIDE DEF e, id
    <3>1. /\ Shape(stream') /\ Open(stream') /\ Without(stream', {"report_start"})
      BY <1>3, <1>5, <2>0, <2>2, AppendOpen DEF Ending
    <3>2. /\ Len(stream') = n /\ DOMAIN stream' = 1 .. n /\ stream'[n] = e /\ n \in Nat
          /\ DOMAIN stream = 1 .. Len(stream) /\ n \in DOMAIN stream'
          /\ \A i \in DOMAIN stream : i \in DOMAIN stream' /\ stream'[i] = stream[i] /\ i < n
          /\ \A i \in DOMAIN stream' : i \in DOMAIN stream \/ i = n
      BY <1>3, <1>5, <2>2, AppendFacts
    <3> HIDE DEF n
    <3>3. ASSUME NEW i \in DOMAIN stream', stream'[i].event = "tool_start"
          PROVE  \/ EndedBefore(stream', i, n + 1)
                 \/ \E j \in DOMAIN calls' : /\ calls'[j].id = stream'[i].id
                                           /\ calls'[j].at \in {"running", "raised"}
      <4>1. CASE i = n
        BY <1>3, <2>1, <2>2, <3>2, <3>3, <4>1 DEF id
      <4>2. CASE i \in DOMAIN stream
        <5>1. stream'[i] = stream[i] /\ i < n
          BY <3>2, <4>2
        <5>2. ASSUME EndedBefore(stream, i, Len(stream) + 1)
              PROVE  EndedBefore(stream', i, n + 1)
          <6>1. PICK j \in DOMAIN stream :
                  /\ i < j /\ j < n /\ stream[j].event = "tool_end" /\ stream[i].id = stream[j].id
            BY <5>2 DEF EndedBefore, n
          <6>2. j \in DOMAIN stream' /\ stream'[j] = stream[j] /\ j < n + 1
            BY <3>2, <6>1
          <6> QED
            BY <5>1, <6>1, <6>2 DEF EndedBefore
        <5>3. ASSUME NEW j \in DOMAIN calls, calls[j].id = stream[i].id,
                     calls[j].at \in {"running", "raised"}
              PROVE  \/ EndedBefore(stream', i, n + 1)
                     \/ calls'[j].id = stream'[i].id /\ calls'[j].at \in {"running", "raised"}
          <6>1. CASE j = k
            <7>1. e.event = "tool_end" /\ e.id = stream'[i].id
              BY <1>3, <2>2, <5>1, <5>3, <6>1 DEF id
            <7>2. n < n + 1
              BY <3>2
            <7> QED
              BY <3>2, <5>1, <7>1, <7>2 DEF EndedBefore
          <6>2. CASE j # k
            BY <2>1, <5>1, <5>3, <6>2
          <6> QED
            BY <6>1, <6>2
        <5>4. \/ EndedBefore(stream, i, Len(stream) + 1)
              \/ \E j \in DOMAIN calls :
                   calls[j].id = stream[i].id /\ calls[j].at \in {"running", "raised"}
          BY <2>0, <3>3, <4>2, <5>1 DEF Held
        <5>5. EndedBefore(stream, i, Len(stream) + 1) => EndedBefore(stream', i, n + 1)
          BY <5>2
        <5> QED
          BY <2>1, <5>3, <5>4, <5>5
      <4> QED
        BY <3>2, <4>1, <4>2
    <3>4. Held(stream)'
      BY <3>2, <3>3 DEF Held
    <3>5. ASSUME NEW j \in DOMAIN calls', calls'[j].at = "running"
          PROVE  \E i \in DOMAIN stream' : stream'[i].event = "tool_start" /\ stream'[i].id = calls'[j].id
      <4>1. CASE j = k
        <5>1. stream'[n].event = "tool_start" /\ stream'[n].id = calls'[j].id
          BY <1>3, <2>1, <2>2, <3>2, <3>5, <4>1 DEF id
        <5> QED
          BY <3>2, <5>1
      <4>2. CASE j # k
        <5>1. PICK i \in DOMAIN stream :
                stream[i].event = "tool_start" /\ stream[i].id = calls[j].id
          BY <2>0, <2>1, <3>5, <4>2 DEF Begun
        <5> QED
          BY <2>1, <3>2, <4>2, <5>1
      <4> QED
        BY <4>1, <4>2
    <3>6. Begun(stream)'
      BY <3>5 DEF Begun
    <3> QED
      BY <1>1, <2>0, <3>1, <3>4, <3>6 DEF OpenStream
  <2>3. CASE SkillRaises(k)
    <3>1. UNCHANGED stream /\ calls'[k].at = "raised"
      BY <2>3 DEF SkillRaises, Set, IInv, CallsOK, CallRecord
    <3>2. Held(stream)'
      BY <2>0, <2>1, <3>1 DEF Held, EndedBefore
    <3>3. Begun(stream)'
      BY <2>0, <2>1, <3>1 DEF Begun
    <3> QED
      BY <1>1, <2>0, <3>1, <3>2, <3>3 DEF OpenStream
  <2>4. CASE EndCall(k)
    <3>1. e.event = "tool_end" /\ calls[k].at = "running" /\ stream' = stream \o <<e>>
      BY <2>4 DEF EndCall, Put, Event
    <3>2. calls'[k].at = "ended"
      BY <2>1, <2>4
    <3>3. Fits(stream, e)
      <4> HIDE DEF e
      <4>1. \E i \in DOMAIN stream : stream[i].event = "tool_start" /\ stream[i].id = calls[k].id
        BY <2>0, <3>1 DEF Begun
      <4> QED
        BY <1>3, <2>0, <3>1, <4>1 DEF Fits, Open, Without
    <3>4. stream' = Append(stream, e)
      BY <1>3, <1>5, <3>1
    <3> HIDE DEF e
    <3> QED
      BY <2>2, <3>1, <3>2, <3>3, <3>4
  <2>5. CASE StartCall(k)
    <3>0. calls[k].at = "queued" /\ ~EndCall(k)
      BY <2>5 DEF StartCall, EndCall
    <3>1. CASE calls[k].kind = "other"
      <4>1. e.event = "tool_blocked" /\ stream' = stream \o <<e>>
        BY <2>5, <3>0, <3>1 DEF StartCall, Put, Event
      <4>2. calls'[k].at = "refused"
        BY <2>5, <3>1 DEF StartCall, Set, IInv, CallsOK, CallRecord
      <4>3. Fits(stream, e)
        BY <2>0, <4>1 DEF Fits, Open, Without
      <4>4. stream' = Append(stream, e)
        BY <1>3, <1>5, <4>1
      <4> HIDE DEF e
      <4> QED
        BY <2>2, <3>0, <4>1, <4>2, <4>3, <4>4
    <3>2. CASE calls[k].kind # "other"
      <4>1. e.event = "tool_start" /\ stream' = stream \o <<e>>
        BY <2>5, <3>0, <3>2 DEF StartCall, Put, Event
      <4>2. calls'[k].at = "running"
        BY <2>5, <3>2 DEF StartCall, Set, IInv, CallsOK, CallRecord
      <4>3. Fits(stream, e)
        BY <2>0, <4>1 DEF Fits, Open, Without
      <4>4. stream' = Append(stream, e)
        BY <1>3, <1>5, <4>1
      <4> HIDE DEF e
      <4> QED
        BY <2>2, <3>0, <4>1, <4>2, <4>3, <4>4
    <3> QED
      BY <3>1, <3>2
  <2> QED
    BY <2>3, <2>4, <2>5
<1>9. OpenStream'
  BY <1>1, <1>8 DEF OpenStream
<1> QED
  BY <1>1, <1>6, <1>7, <1>9 DEF StreamOK

LEMMA ClientStream ==
  IInv /\ StreamOK /\ (Reject \/ EventGen \/ Disconnect \/ \E history \in Histories : Post(history))
    => StreamOK'
<1> SUFFICES ASSUME IInv, StreamOK,
                    Reject \/ EventGen \/ Disconnect \/ \E history \in Histories : Post(history)
             PROVE  StreamOK'
  OBVIOUS
<1>1. UNCHANGED <<stream, calls>>
  BY DEF Reject, EventGen, StartReading, CloseStream, Disconnect, Post, state
<1>2. UNCHANGED task \/ (task = "none" /\ task' = "plan")
  BY DEF Reject, EventGen, StartReading, CloseStream, Disconnect, Post
<1>3. OpenStream'
  <2>1. /\ task' # "done" => task # "done"
        /\ task' # "tokens" => task # "tokens"
        /\ task' # "tools" => task # "tools"
    BY <1>2
  <2>2. ASSUME task' # "done" PROVE Held(stream)' /\ Begun(stream)'
    <3>1. Held(stream) /\ Begun(stream)
      BY <2>1, <2>2 DEF StreamOK, OpenStream
    <3> QED
      BY <1>1, <3>1 DEF Held, Begun, EndedBefore
  <2>3. ASSUME task' # "done"
        PROVE  /\ Open(stream') /\ Shape(stream')
               /\ task' # "tokens" => Without(stream', {"report_start"})
               /\ task' # "tools" => calls' = <<>>
    <3>1. UNCHANGED stream /\ UNCHANGED calls /\ OpenStream
      BY <1>1 DEF StreamOK
    <3> QED
      BY <2>1, <2>3, <3>1, Zenon DEF OpenStream
  <2> QED
    BY <2>2, <2>3, Zenon DEF OpenStream
<1>4. cancelled' => consumer' = "gone"
  BY DEF Reject, EventGen, StartReading, CloseStream, Disconnect, Post, StreamOK
<1>5. cancelled /\ task = "done" => cancelled'
  BY DEF Reject, EventGen, StartReading, CloseStream, Disconnect, Post, StreamOK
<1>6. ClosedStream'
  BY <1>1, <1>2, <1>5 DEF StreamOK, ClosedStream
<1> QED
  BY <1>1, <1>3, <1>4, <1>6 DEF StreamOK

LEMMA StutterStream == StreamOK /\ UNCHANGED vars => StreamOK'
BY DEF vars, state, StreamOK, OpenStream, ClosedStream, Held, Begun, EndedBefore

LEMMA NextStream == IInv /\ StreamOK /\ [Next]_vars => StreamOK'
BY PlanStream, CallStream, GatherStream, ReportStream, CancelStream, ClientStream, StutterStream
   DEF Next, RunAgent

(* Whatever tools fail, in whatever order the calls of an answer end, and   *)
(* whenever the client goes: the events app.py puts on the queue of a       *)
(* request are a stream the frontend can follow to one done or error.       *)
THEOREM StreamWellFormed == Spec => []StreamIsWellFormed
<1>1. IInv /\ StreamOK => StreamIsWellFormed
  BY StreamOKWellFormed DEF IInv
<1> QED
  BY <1>1, InitIInv, InitStream, NextIInv, NextStream, PTL DEF Spec

-------------------------------------------------------------------------------
(* The prompt *)

Kinds == {"user", "assistant", "toolUse", "toolResult"}

Message == [kind : Kinds, ids : Seq(Nat \X Nat), size : Nat]

(* The turns a conversation can be cut at, and its whole. *)
Cuts(msgs) == {1} \cup TurnStarts(msgs)

LEMMA GreatestNatural ==
  ASSUME NEW n \in Nat, NEW T \in SUBSET (1 .. n), T # {}
  PROVE  Max(T) \in T /\ \A m \in T : m <= Max(T)
<1> DEFINE U == {u \in Nat : n - u \in T}
<1>1. U \in SUBSET Nat /\ U # {}
  <2>1. PICK m \in T : TRUE
    OBVIOUS
  <2>2. n - m \in Nat /\ n - (n - m) = m
    BY <2>1
  <2>3. n - m \in U
    BY <2>1, <2>2
  <2> QED
    BY <2>3
<1>2. PICK u \in U : \A w \in U : u <= w
  <2> HIDE DEF U
  <2> QED
    BY <1>1, LeastNatural
<1>3. n - u \in T /\ u \in Nat
  BY <1>2
<1>4. \A m \in T : m <= n - u
  <2> SUFFICES ASSUME NEW m \in T PROVE m <= n - u
    OBVIOUS
  <2>1. n - m \in Nat /\ n - (n - m) = m /\ m \in Nat
    OBVIOUS
  <2>2. n - m \in U
    BY <2>1
  <2>3. u <= n - m
    BY <1>2, <2>2
  <2> QED
    BY <1>3, <2>1, <2>3
<1>5. n - u \in T /\ \A m \in T : n - u >= m
  BY <1>3, <1>4
<1>6. Max(T) \in T /\ \A m \in T : Max(T) >= m
  BY <1>5, Zenon DEF Max
<1> QED
  BY <1>6

LEMMA FromFacts ==
  ASSUME NEW S, NEW msgs \in Seq(S), NEW a \in DOMAIN msgs
  PROVE  /\ From(msgs, a) \in Seq(S)
         /\ Len(From(msgs, a)) = Len(msgs) - a + 1 /\ Len(msgs) \in Nat
         /\ DOMAIN msgs = 1 .. Len(msgs) /\ DOMAIN From(msgs, a) = 1 .. Len(msgs) - a + 1
         /\ \A i \in DOMAIN From(msgs, a) : From(msgs, a)[i] = msgs[a + i - 1]
BY DEF From

LEMMA FromFrom ==
  ASSUME NEW S, NEW msgs \in Seq(S), NEW a \in DOMAIN msgs, NEW i \in DOMAIN From(msgs, a)
  PROVE  From(From(msgs, a), i) = From(msgs, a + i - 1)
<1> DEFINE s == From(msgs, a)
           c == a + i - 1
<1>1. /\ s \in Seq(S) /\ Len(s) = Len(msgs) - a + 1 /\ Len(msgs) \in Nat
      /\ DOMAIN msgs = 1 .. Len(msgs) /\ DOMAIN s = 1 .. Len(s)
      /\ \A j \in DOMAIN s : s[j] = msgs[a + j - 1]
  BY FromFacts
<1>2. c \in DOMAIN msgs /\ i \in DOMAIN s
  BY <1>1
<1> HIDE DEF s
<1>3. /\ From(s, i) \in Seq(S) /\ Len(From(s, i)) = Len(s) - i + 1
      /\ DOMAIN From(s, i) = 1 .. Len(s) - i + 1
      /\ \A j \in DOMAIN From(s, i) : From(s, i)[j] = s[i + j - 1]
  BY <1>1, <1>2, FromFacts
<1>4. /\ From(msgs, c) \in Seq(S) /\ Len(From(msgs, c)) = Len(msgs) - c + 1
      /\ DOMAIN From(msgs, c) = 1 .. Len(msgs) - c + 1
      /\ \A j \in DOMAIN From(msgs, c) : From(msgs, c)[j] = msgs[c + j - 1]
  BY <1>2, FromFacts
<1>5. Len(From(s, i)) = Len(From(msgs, c)) /\ Len(From(s, i)) \in Nat
  BY <1>1, <1>2, <1>3, <1>4
<1>6. \A j \in 1 .. Len(From(s, i)) : From(s, i)[j] = From(msgs, c)[j]
  <2> SUFFICES ASSUME NEW j \in 1 .. Len(From(s, i)) PROVE From(s, i)[j] = From(msgs, c)[j]
    OBVIOUS
  <2>1. From(s, i)[j] = s[i + j - 1] /\ From(msgs, c)[j] = msgs[c + j - 1]
    BY <1>3, <1>4, <1>5
  <2>2. a \in Nat /\ i \in Nat /\ i >= 1 /\ Len(s) \in Nat
    BY <1>1, <1>2
  <2>3. j \in Nat /\ j >= 1 /\ j <= Len(s) - i + 1
    BY <1>3, <1>5, <2>2
  <2>4. i + j - 1 \in DOMAIN s /\ a + (i + j - 1) - 1 = c + j - 1
    BY <1>1, <2>2, <2>3
  <2>5. s[i + j - 1] = msgs[a + (i + j - 1) - 1]
    BY <1>1, <2>4
  <2>6. msgs[a + (i + j - 1) - 1] = msgs[c + j - 1]
    BY <2>4
  <2> HIDE DEF c
  <2> QED
    BY <2>1, <2>5, <2>6
<1>7. From(s, i) = From(msgs, c)
  <2> HIDE DEF c
  <2> QED
    BY <1>3, <1>4, <1>5, <1>6, SeqEqual
<1> QED
  BY <1>7 DEF s

(* Turns of what is left are turns of the conversation. *)
LEMMA FromTurns ==
  ASSUME NEW S, NEW msgs \in Seq(S), NEW a \in DOMAIN msgs
  PROVE  \A i \in DOMAIN From(msgs, a) :
           i \in TurnStarts(From(msgs, a)) <=> a + i - 1 \in TurnStarts(msgs)
<1> SUFFICES ASSUME NEW i \in DOMAIN From(msgs, a)
             PROVE  i \in TurnStarts(From(msgs, a)) <=> a + i - 1 \in TurnStarts(msgs)
  OBVIOUS
<1>1. From(msgs, a)[i] = msgs[a + i - 1]
  BY FromFacts
<1>2. a + i - 1 \in DOMAIN msgs
  <2>1. /\ Len(msgs) \in Nat /\ DOMAIN msgs = 1 .. Len(msgs)
        /\ i \in 1 .. Len(msgs) - a + 1
    BY FromFacts
  <2> QED
    BY <2>1
<1> QED
  BY <1>1, <1>2 DEF TurnStarts

(* The window: what is kept is a whole number of turns from the end. *)
InWindow(msgs, i) == WindowSize = 0 \/ Len(msgs) - i < 2 * WindowSize

LEMMA RecentIsCut ==
  ASSUME NEW S, NEW msgs \in Seq(S), TurnStarts(msgs) # {}
  PROVE  \E a \in Cuts(msgs) :
           /\ a \in DOMAIN msgs /\ a <= Max(TurnStarts(msgs))
           /\ RecentMessages(msgs) = From(msgs, a)
           /\ a = Max(TurnStarts(msgs)) \/ InWindow(msgs, a)
           /\ \A i \in Cuts(msgs) : i < a => ~InWindow(msgs, i)
<1> DEFINE T == TurnStarts(msgs)
           cut == Len(msgs) - WindowSize * 2
           later == {i \in T : i > cut}
<1> USE ContextBuilderAssumption
<1>0. /\ T \subseteq DOMAIN msgs /\ DOMAIN msgs = 1 .. Len(msgs) /\ Len(msgs) \in Nat
      /\ T \in SUBSET (1 .. Len(msgs))
  BY DEF TurnStarts
<1>1. Max(T) \in T /\ \A m \in T : m <= Max(T)
  BY <1>0, GreatestNatural
<1>2. 1 \in Cuts(msgs) /\ T \subseteq Cuts(msgs) /\ 1 \in DOMAIN msgs
  BY <1>0, <1>1 DEF Cuts
<1>3. \A i \in Cuts(msgs) : i \in Nat /\ i >= 1
  BY <1>0 DEF Cuts
<1>4. From(msgs, 1) = msgs
  BY <1>0 DEF From
<1>5. CASE WindowSize = 0 \/ cut <= 0
  <2>1. RecentMessages(msgs) = msgs
    BY <1>5 DEF RecentMessages, WindowMessages
  <2>2. InWindow(msgs, 1)
    BY <1>0, <1>5 DEF InWindow
  <2>3. 1 <= Max(T)
    BY <1>0, <1>1
  <2> QED
    BY <1>2, <1>3, <1>4, <2>1, <2>2, <2>3
<1>6. CASE WindowSize # 0 /\ cut > 0
  <2>1. RecentMessages(msgs) = IF later # {} THEN From(msgs, Min(later)) ELSE From(msgs, Max(T))
    <3>1. WindowSize > 0 /\ ~(WindowSize * 2 <= 0) /\ ~(cut <= 0)
      BY <1>0, <1>6
    <3> QED
      BY <3>1, Zenon DEF RecentMessages, WindowMessages
  <2>2. \A i \in Nat : InWindow(msgs, i) <=> i > cut
    BY <1>0, <1>6 DEF InWindow
  <2>3. CASE later # {}
    <3> DEFINE a == Min(later)
    <3>0. later \in SUBSET Nat /\ cut \in Nat
      BY <1>0, <1>6
    <3>1. a \in later /\ \A m \in later : a <= m
      <4> HIDE DEF later
      <4> QED
        BY <2>3, <3>0, LeastNatural
    <3> HIDE DEF a
    <3>2. a \in T /\ a > cut /\ a \in DOMAIN msgs /\ a \in Nat
      BY <1>0, <3>1
    <3>3. \A i \in T : i > cut => a <= i
      BY <3>1
    <3> HIDE DEF T, cut, later
    <3>4. \A i \in Cuts(msgs) : i < a => ~InWindow(msgs, i)
      <4> SUFFICES ASSUME NEW i \in Cuts(msgs), i < a PROVE ~(i > cut)
        BY <1>3, <2>2
      <4>1. CASE i = 1
        BY <1>6, <3>0, <4>1
      <4>2. CASE i \in T
        BY <1>3, <3>0, <3>2, <3>3, <4>2
      <4> QED
        BY <4>1, <4>2 DEF Cuts, T
    <3>5. InWindow(msgs, a) /\ a <= Max(T) /\ a \in Cuts(msgs)
      BY <1>1, <1>2, <2>2, <3>2
    <3>6. RecentMessages(msgs) = From(msgs, a)
      BY <2>1, <2>3 DEF a
    <3> QED
      BY <3>2, <3>4, <3>5, <3>6 DEF T
  <2>4. CASE later = {}
    <3> DEFINE a == Max(T)
    <3>0. cut \in Nat /\ \A i \in T : ~(i > cut)
      BY <1>0, <1>6, <2>4
    <3>1. a \in T /\ a \in Nat /\ a \in DOMAIN msgs
      BY <1>0, <1>1
    <3>2. RecentMessages(msgs) = From(msgs, a)
      BY <2>1, <2>4
    <3> HIDE DEF a, T, cut, later
    <3>3. \A i \in Cuts(msgs) : i < a => ~InWindow(msgs, i)
      <4> SUFFICES ASSUME NEW i \in Cuts(msgs), i < a PROVE ~(i > cut)
        BY <1>3, <2>2
      <4>1. CASE i = 1
        BY <1>6, <3>0, <4>1
      <4>2. CASE i \in T
        BY <3>0, <4>2
      <4> QED
        BY <4>1, <4>2 DEF Cuts, T
    <3>4. a \in Cuts(msgs) /\ a <= a
      BY <1>2, <3>1
    <3> QED
      BY <3>1, <3>2, <3>3, <3>4 DEF a, T
  <2> QED
    BY <2>3, <2>4
<1> QED
  BY <1>0, <1>5, <1>6

(* Truncation: the recursion that drops turns has a solution. *)
LEMMA JumpsExist ==
  ASSUME NEW n \in Nat, NEW stop, NEW next,
         \A i \in 1 .. n + 1 : ~stop[i] => next[i] \in i + 1 .. n + 1
  PROVE  \E f : f = [i \in 1 .. n + 1 |-> IF stop[i] THEN i ELSE f[next[i]]]
<1> DEFINE Rest(k) == n + 1 - k .. n + 1
           Solved(k) == \E f : f = [i \in Rest(k) |-> IF stop[i] THEN i ELSE f[next[i]]]
           T == {k \in 0 .. n : ~Solved(k)}
<1>1. Solved(0)
  <2> DEFINE f == [i \in Rest(0) |-> i]
  <2>1. \A i \in Rest(0) : i = n + 1 /\ stop[i]
    OBVIOUS
  <2>2. f = [i \in Rest(0) |-> IF stop[i] THEN i ELSE f[next[i]]]
    BY <2>1
  <2> QED
    BY <2>2
<1>2. ASSUME NEW k \in 1 .. n, Solved(k - 1) PROVE Solved(k)
  <2> DEFINE D == Rest(k - 1)
             E == Rest(k)
             m == n + 1 - k
  <2>1. PICK f : f = [i \in D |-> IF stop[i] THEN i ELSE f[next[i]]]
    BY <1>2
  <2>2. /\ E = D \cup {m} /\ m \notin D /\ m \in 1 .. n + 1 /\ D \subseteq 1 .. n + 1
        /\ \A i \in D : ~stop[i] => next[i] \in D
        /\ ~stop[m] => next[m] \in D
    OBVIOUS
  <2> DEFINE g == [i \in E |-> IF i = m THEN IF stop[m] THEN m ELSE f[next[m]] ELSE f[i]]
  <2> HIDE DEF D, E, m
  <2>3. \A i \in E : g[i] = IF stop[i] THEN i ELSE g[next[i]]
    <3>1. \A i \in D : g[i] = f[i]
      BY <2>2
    <3>2. \A i \in D : f[i] = IF stop[i] THEN i ELSE f[next[i]]
      BY <2>1
    <3>3. g[m] = IF stop[m] THEN m ELSE f[next[m]]
      BY <2>2
    <3> HIDE DEF g
    <3> QED
      BY <2>2, <3>1, <3>2, <3>3
  <2>4. g = [i \in E |-> IF stop[i] THEN i ELSE g[next[i]]]
    BY <2>3
  <2> QED
    BY <2>4 DEF E
<1>3. T = {}
  <2> SUFFICES ASSUME T # {} PROVE FALSE
    OBVIOUS
  <2>1. T \in SUBSET Nat
    OBVIOUS
  <2>2. PICK k \in T : \A j \in T : k <= j
    <3> HIDE DEF T
    <3> QED
      BY <2>1, LeastNatural
  <2> HIDE DEF Solved
  <2>3. k \in 1 .. n
    BY <1>1, <2>2
  <2>4. k - 1 \in 0 .. n /\ k - 1 \notin T
    BY <2>2, <2>3
  <2> QED
    BY <1>2, <2>2, <2>3, <2>4
<1>4. Solved(n)
  <2> HIDE DEF Solved
  <2> QED
    BY <1>3
<1>5. Rest(n) = 1 .. n + 1
  OBVIOUS
<1> HIDE DEF Rest
<1> QED
  BY <1>4, <1>5

(* Whole turns go until the rest fits or only the turn in flight is left.  *)
LEMMA TruncateIsCut ==
  ASSUME NEW S, NEW msgs \in Seq(S), msgs # <<>>, NEW target
  PROVE  \E a \in Cuts(msgs) :
           /\ a \in DOMAIN msgs
           /\ TruncateLayer(msgs, target) = From(msgs, a)
           /\ EstimateTokens(From(msgs, a)) <= target \/ NextTurn(msgs, a) = {}
           /\ \A i \in Cuts(msgs) : i < a => ~(EstimateTokens(From(msgs, i)) <= target)
<1> DEFINE n == Len(msgs)
           Stops(i) == EstimateTokens(From(msgs, i)) <= target \/ NextTurn(msgs, i) = {}
           Next0(i) == Min(NextTurn(msgs, i))
           stop == [i \in 1 .. n + 1 |-> Stops(i)]
           next == [i \in 1 .. n + 1 |-> Next0(i)]
           start == CHOOSE f : f = [i \in 1 .. n + 1 |-> IF Stops(i) THEN i ELSE f[Next0(i)]]
<1>1. n \in Nat /\ DOMAIN msgs = 1 .. n /\ 1 \in 1 .. n
  OBVIOUS
<1>2. ASSUME NEW i \in 1 .. n + 1, NextTurn(msgs, i) # {}
      PROVE  /\ Next0(i) \in TurnStarts(msgs) /\ Next0(i) \in i + 1 .. n
             /\ \A j \in TurnStarts(msgs) : i < j => Next0(i) <= j
  <2>1. NextTurn(msgs, i) \in SUBSET Nat
    BY <1>1 DEF NextTurn, TurnStarts
  <2>2. Next0(i) \in NextTurn(msgs, i) /\ \A j \in NextTurn(msgs, i) : Next0(i) <= j
    BY <1>2, <2>1, LeastNatural
  <2> HIDE DEF Next0
  <2> QED
    BY <1>1, <2>2 DEF NextTurn, TurnStarts
<1> HIDE DEF Next0, n
<1>3. \A i \in 1 .. n + 1 : ~Stops(i) => Next0(i) \in i + 1 .. n + 1
  BY <1>1, <1>2
<1>4. start = [i \in 1 .. n + 1 |-> IF Stops(i) THEN i ELSE start[Next0(i)]]
  <2>1. \A i \in 1 .. n + 1 : ~stop[i] => next[i] \in i + 1 .. n + 1
    BY <1>3
  <2> HIDE DEF Stops
  <2>2. \A i \in 1 .. n + 1 : (stop[i] <=> Stops(i)) /\ next[i] = Next0(i)
    OBVIOUS
  <2>3. \E f : f = [i \in 1 .. n + 1 |-> IF stop[i] THEN i ELSE f[next[i]]]
    <3> HIDE DEF stop, next
    <3> QED
      BY <1>1, <2>1, JumpsExist
  <2>4. \E f : f = [i \in 1 .. n + 1 |-> IF Stops(i) THEN i ELSE f[Next0(i)]]
    <3>1. PICK f : f = [i \in 1 .. n + 1 |-> IF stop[i] THEN i ELSE f[next[i]]]
      BY <2>3
    <3> HIDE DEF stop, next
    <3>2. f = [i \in 1 .. n + 1 |-> IF Stops(i) THEN i ELSE f[Next0(i)]]
      BY <2>2, <3>1
    <3> QED
      BY <3>2
  <2> QED
    BY <2>4, Zenon
<1>5. TruncateLayer(msgs, target) = From(msgs, start[1])
  BY Zenon DEF TruncateLayer, n, Next0
<1> HIDE DEF start, stop, next
<1>6. \A i \in 1 .. n + 1 : start[i] = IF Stops(i) THEN i ELSE start[Next0(i)]
  BY <1>4
(* Where a drop from the i-th message on ends. *)
<1> DEFINE Ends(i) ==
      /\ start[i] \in i .. n + 1 /\ Stops(start[i])
      /\ start[i] = i \/ start[i] \in TurnStarts(msgs)
      /\ \A j \in TurnStarts(msgs) \cup {i} : i <= j /\ j < start[i] => ~Stops(j)
<1>7. ASSUME NEW i \in 1 .. n + 1, Stops(i) PROVE Ends(i)
  <2>1. start[i] = i
    BY <1>6, <1>7
  <2>2. \A j \in TurnStarts(msgs) \cup {i} : j \in Nat
    BY <1>1 DEF TurnStarts
  <2> HIDE DEF Stops
  <2> QED
    BY <1>1, <1>7, <2>1, <2>2
<1>8. ASSUME NEW i \in 1 .. n + 1, ~Stops(i), Ends(Next0(i)) PROVE Ends(i)
  <2>1. start[i] = start[Next0(i)]
    BY <1>6, <1>8
  <2>2. /\ Next0(i) \in TurnStarts(msgs) /\ Next0(i) \in i + 1 .. n
        /\ \A j \in TurnStarts(msgs) : i < j => Next0(i) <= j
    BY <1>2, <1>8
  <2>3. \A j \in TurnStarts(msgs) : j \in Nat
    BY <1>1 DEF TurnStarts
  <2> HIDE DEF Stops
  <2>4. \A j \in TurnStarts(msgs) \cup {i} : i <= j /\ j < start[i] => ~Stops(j)
    BY <1>1, <1>8, <2>1, <2>2, <2>3
  <2> QED
    BY <1>1, <1>8, <2>1, <2>2, <2>4
<1> DEFINE U == {u \in 0 .. n : ~Ends(n + 1 - u)}
<1>9. U = {}
  <2> SUFFICES ASSUME U # {} PROVE FALSE
    OBVIOUS
  <2>1. U \in SUBSET Nat
    OBVIOUS
  <2>2. PICK u \in U : \A w \in U : u <= w
    <3> HIDE DEF U
    <3> QED
      BY <2>1, LeastNatural
  <2> DEFINE i == n + 1 - u
  <2>3. u \in 0 .. n /\ i \in 1 .. n + 1 /\ ~Ends(i)
    BY <1>1, <2>2
  <2>4. ~Stops(i)
    BY <1>7, <2>3
  <2>5. Next0(i) \in i + 1 .. n + 1
    BY <1>3, <2>3, <2>4
  <2> HIDE DEF Ends, Stops
  <2>6. n + 1 - Next0(i) \in 0 .. n /\ n + 1 - Next0(i) < u
        /\ n + 1 - (n + 1 - Next0(i)) = Next0(i)
    BY <1>1, <2>3, <2>5
  <2>7. n + 1 - Next0(i) \notin U
    BY <2>2, <2>3, <2>6
  <2>8. Ends(Next0(i))
    BY <2>6, <2>7
  <2> QED
    BY <1>8, <2>3, <2>4, <2>8
<1>10. Ends(1)
  <2> HIDE DEF Ends
  <2>1. n \in 0 .. n /\ n + 1 - n = 1
    BY <1>1
  <2> QED
    BY <1>9, <2>1
<1> DEFINE a == start[1]
<1>11. a \in Cuts(msgs) /\ a \in DOMAIN msgs
  BY <1>1, <1>10 DEF Cuts, TurnStarts
<1>12. \A i \in Cuts(msgs) : i < a => ~Stops(i)
  <2>1. \A i \in Cuts(msgs) : 1 <= i
    BY <1>1 DEF Cuts, TurnStarts
  <2> HIDE DEF Stops
  <2> QED
    BY <1>10, <2>1 DEF Cuts
<1> QED
  BY <1>5, <1>10, <1>11, <1>12

(* The prompt is what is left of the conversation after dropping as few    *)
(* whole turns as window and budget ask for.                               *)
LEMMA BuildIsLongestFit ==
  ASSUME NEW S, NEW msgs \in Seq(S), TurnStarts(msgs) # {}, NEW tokens
  PROVE  /\ LongestFit(msgs, BuildLayeredPrompt(tokens, msgs), tokens)
         /\ \E a \in Cuts(msgs) :
              a \in DOMAIN msgs /\ BuildLayeredPrompt(tokens, msgs) = From(msgs, a)
<1> DEFINE n == Len(msgs)
           last == Max(TurnStarts(msgs))
           recent == RecentMessages(msgs)
           InRecent(i) == EstimateTokens(From(msgs, i)) <= RecentBudget
           InBudget(i) == InRecent(i) \/ ~OverBudget(tokens, From(msgs, i))
           part == BuildLayeredPrompt(tokens, msgs)
<1> USE ContextBuilderAssumption
<1>1. /\ TurnStarts(msgs) \in SUBSET (1 .. n) /\ DOMAIN msgs = 1 .. n /\ n \in Nat
      /\ TurnStarts(msgs) \subseteq 1 .. n
  BY DEF TurnStarts
<1>2. last \in TurnStarts(msgs) /\ last \in 1 .. n /\ \A m \in TurnStarts(msgs) : m <= last
  BY <1>1, GreatestNatural
<1>3. PICK a \in Cuts(msgs) :
        /\ a \in DOMAIN msgs /\ a <= last
        /\ recent = From(msgs, a)
        /\ a = last \/ InWindow(msgs, a)
        /\ \A i \in Cuts(msgs) : i < a => ~InWindow(msgs, i)
  BY RecentIsCut
<1>4. \A i \in Cuts(msgs) : i \in 1 .. n
  BY <1>1, <1>2 DEF Cuts
<1> HIDE DEF last
(* Enough to show of the cut that is made. *)
<1>5. ASSUME NEW f \in Cuts(msgs), f \in DOMAIN msgs, part = From(msgs, f), f <= last,
             f = last \/ (InWindow(msgs, f) /\ InBudget(f)),
             \A i \in Cuts(msgs) : i < f => ~(InWindow(msgs, i) /\ InRecent(i))
      PROVE  LongestFit(msgs, part, tokens)
  <2>1. Len(From(msgs, f)) = n - f + 1
    BY <1>5, FromFacts
  <2>2. Suffix(msgs, part) = f
    BY <1>1, <1>5, <2>1 DEF Suffix
  <2> HIDE DEF part
  <2> QED
    BY <1>5, <2>2, Zenon DEF LongestFit, Cuts, InWindow, last
<1>6. CASE ~OverBudget(tokens, recent)
  <2>1. part = From(msgs, a)
    BY <1>3, <1>6 DEF BuildLayeredPrompt
  <2>2. InBudget(a)
    BY <1>3, <1>6
  <2> HIDE DEF part, recent, InBudget, InRecent
  <2> QED
    BY <1>3, <1>5, <2>1, <2>2 DEF part
<1>7. CASE OverBudget(tokens, recent)
  <2>1. part = TruncateLayer(recent, RecentBudget)
    BY <1>7 DEF BuildLayeredPrompt
  <2>2. /\ recent \in Seq(S) /\ Len(recent) = n - a + 1 /\ DOMAIN recent = 1 .. n - a + 1
    BY <1>3, FromFacts
  <2>3. recent # <<>>
    BY <1>1, <1>3, <2>2
  <2> HIDE DEF recent
  <2>4. PICK b \in Cuts(recent) :
          /\ b \in DOMAIN recent
          /\ TruncateLayer(recent, RecentBudget) = From(recent, b)
          /\ EstimateTokens(From(recent, b)) <= RecentBudget \/ NextTurn(recent, b) = {}
          /\ \A i \in Cuts(recent) : i < b => ~(EstimateTokens(From(recent, i)) <= RecentBudget)
    BY <2>2, <2>3, TruncateIsCut
  <2> DEFINE f == a + b - 1
(* Positions in what is recent are positions in the conversation. *)
  <2>5. \A i \in DOMAIN recent : From(recent, i) = From(msgs, a + i - 1)
    BY <1>3, FromFrom
  <2>6. \A i \in DOMAIN recent : i \in TurnStarts(recent) <=> a + i - 1 \in TurnStarts(msgs)
    BY <1>3, FromTurns
  <2>7. a \in 1 .. n /\ b \in 1 .. n - a + 1 /\ f \in 1 .. n /\ a <= f
    BY <1>1, <1>3, <2>2, <2>4
  <2>8. part = From(msgs, f)
    BY <2>1, <2>4, <2>5
  <2>9. f = a \/ f \in TurnStarts(msgs)
    <3>1. b = 1 \/ b \in TurnStarts(recent)
      BY <2>4 DEF Cuts
    <3>2. b = 1 => f = a
      BY <2>7
    <3> QED
      BY <2>4, <2>6, <3>1, <3>2
  <2>10. f \in Cuts(msgs) /\ f <= last
    BY <1>2, <1>3, <2>9 DEF Cuts
  <2>11. NextTurn(recent, b) = {} => f = last
    <3> SUFFICES ASSUME NextTurn(recent, b) = {}, f # last PROVE FALSE
      OBVIOUS
    <3> DEFINE j == last - a + 1
    <3>1. last > f /\ last \in Nat
      BY <1>2, <2>7, <2>10
    <3>2. j \in 1 .. n - a + 1 /\ a + j - 1 = last /\ j > b
      BY <1>2, <2>7, <3>1
    <3> HIDE DEF j
    <3>3. j \in TurnStarts(recent)
      BY <1>2, <2>2, <2>6, <3>2
    <3> QED
      BY <3>2, <3>3 DEF NextTurn
  <2>12. f = last \/ (InWindow(msgs, f) /\ InBudget(f))
    <3>1. CASE NextTurn(recent, b) = {}
      BY <2>11, <3>1
    <3>2. CASE EstimateTokens(From(recent, b)) <= RecentBudget
      <4>1. InBudget(f)
        BY <2>4, <2>5, <3>2
      <4>2. a = last => f = last
        BY <1>2, <2>7, <2>10
      <4>3. InWindow(msgs, a) => InWindow(msgs, f)
        BY <1>1, <2>7 DEF InWindow
      <4> QED
        BY <1>3, <4>1, <4>2, <4>3
    <3> QED
      BY <2>4, <3>1, <3>2
  <2>13. ASSUME NEW i \in Cuts(msgs), i < f PROVE ~(InWindow(msgs, i) /\ InRecent(i))
    <3>1. CASE i < a
      BY <1>3, <3>1
    <3>2. CASE ~(i < a)
      <4> DEFINE j == i - a + 1
      <4>1. i \in 1 .. n /\ a <= i
        BY <1>4, <2>7, <3>2
      <4>2. j \in 1 .. n - a + 1 /\ a + j - 1 = i /\ j < b /\ (j = 1 <=> i = a)
        BY <1>1, <2>7, <2>13, <4>1
      <4>3. j \in Cuts(recent)
        <5>1. CASE i = a
          BY <4>2, <5>1 DEF Cuts
        <5>2. CASE i # a
          <6>1. i \in TurnStarts(msgs)
            BY <2>7, <4>1, <5>2 DEF Cuts
          <6> HIDE DEF j
          <6> QED
            BY <2>2, <2>6, <4>2, <6>1 DEF Cuts
        <5> QED
          BY <5>1, <5>2
      <4> HIDE DEF j
      <4>4. From(recent, j) = From(msgs, i)
        BY <2>2, <2>5, <4>2
      <4> QED
        BY <2>4, <4>2, <4>3, <4>4
    <3> QED
      BY <3>1, <3>2
  <2>14. f \in DOMAIN msgs
    BY <1>1, <2>7
  <2> HIDE DEF f, part, InBudget, InRecent
  <2> QED
    BY <1>5, <2>8, <2>10, <2>12, <2>13, <2>14 DEF part
<1> QED
  BY <1>6, <1>7

(* The first n messages: calls and their answers stand together. *)
WholeTo(msgs, n) ==
  \A i \in 1 .. n :
    /\ msgs[i].kind = "toolUse" =>
         /\ i < n
         /\ msgs[i + 1].kind = "toolResult" /\ msgs[i + 1].ids = msgs[i].ids
    /\ msgs[i].kind = "toolResult" => i > 1 /\ msgs[i - 1].kind = "toolUse"
    /\ msgs[i].kind \in {"user", "assistant"} => msgs[i].ids = <<>>

OpenAIRecord == [role : {"user", "assistant", "tool"}, ids : Seq(Nat \X Nat)]

AnsweredAt(out, i) ==
  \A k \in DOMAIN out[i].ids :
    i + k <= Len(out) /\ out[i + k] = [role |-> "tool", ids |-> <<out[i].ids[k]>>]

AnsweredTo(out, n) == \A i \in 1 .. n : out[i].role = "assistant" => AnsweredAt(out, i)

AnswersOnly(out) ==
  \A i \in DOMAIN out : out[i].role = "tool" =>
    \E j \in 1 .. i - 1 :
      /\ out[j].role = "assistant" /\ i - j \in DOMAIN out[j].ids
      /\ out[i].ids = <<out[j].ids[i - j]>>

(* What follows changes nothing of what is answered. *)
LEMMA ConcatKeeps ==
  ASSUME NEW out \in Seq(OpenAIRecord), NEW more \in Seq(OpenAIRecord), NEW n \in 0 .. Len(out),
         AnsweredTo(out, n), AnswersOnly(out)
  PROVE  /\ out \o more \in Seq(OpenAIRecord) /\ Len(out \o more) = Len(out) + Len(more)
         /\ \A i \in DOMAIN out : (out \o more)[i] = out[i] /\ i \in DOMAIN (out \o more)
         /\ \A i \in DOMAIN more : (out \o more)[Len(out) + i] = more[i]
         /\ AnsweredTo(out \o more, n)
         /\ \A i \in DOMAIN out : (out \o more)[i].role = "tool" =>
              \E j \in 1 .. i - 1 :
                /\ (out \o more)[j].role = "assistant" /\ i - j \in DOMAIN (out \o more)[j].ids
                /\ (out \o more)[i].ids = <<(out \o more)[j].ids[i - j]>>
<1> DEFINE t == out \o more
<1>1. /\ t \in Seq(OpenAIRecord) /\ Len(t) = Len(out) + Len(more)
      /\ DOMAIN t = 1 .. Len(t) /\ DOMAIN out = 1 .. Len(out) /\ DOMAIN more = 1 .. Len(more)
      /\ Len(out) \in Nat /\ Len(more) \in Nat
      /\ \A i \in DOMAIN out : t[i] = out[i]
      /\ \A i \in DOMAIN more : t[Len(out) + i] = more[i]
  OBVIOUS
<1> HIDE DEF t
<1>2. \A i \in DOMAIN out : i \in DOMAIN t
  BY <1>1
<1>3. AnsweredTo(t, n)
  <2> SUFFICES ASSUME NEW i \in 1 .. n, t[i].role = "assistant", NEW k \in DOMAIN t[i].ids
               PROVE  i + k <= Len(t) /\ t[i + k] = [role |-> "tool", ids |-> <<t[i].ids[k]>>]
    BY DEF AnsweredTo, AnsweredAt
  <2>1. i \in DOMAIN out /\ t[i] = out[i] /\ i \in Nat
    BY <1>1
  <2>2. i + k <= Len(out) /\ out[i + k] = [role |-> "tool", ids |-> <<t[i].ids[k]>>]
    BY <2>1 DEF AnsweredTo, AnsweredAt
  <2>3. k \in Nat /\ k >= 1
    <3>1. out[i] \in OpenAIRecord
      BY <2>1, ElementOfSeq
    <3>2. t[i].ids \in Seq(Nat \X Nat)
      BY <2>1, <3>1 DEF OpenAIRecord
    <3>3. DOMAIN t[i].ids = 1 .. Len(t[i].ids)
      BY <3>2, LenProperties
    <3> QED
      BY <3>3
  <2>4. i + k \in DOMAIN out
    <3>1. i + k >= 1 /\ i + k <= Len(out) /\ i + k \in Nat
      BY <2>1, <2>2, <2>3
    <3> QED
      BY <1>1, <3>1
  <2>5. t[i + k] = out[i + k]
    BY <1>1, <2>4
  <2>6. i + k <= Len(t)
    BY <1>1, <2>4
  <2> QED
    BY <2>2, <2>5, <2>6
<1>4. ASSUME NEW i \in DOMAIN out, t[i].role = "tool"
      PROVE  \E j \in 1 .. i - 1 :
               /\ t[j].role = "assistant" /\ i - j \in DOMAIN t[j].ids
               /\ t[i].ids = <<t[j].ids[i - j]>>
  <2>1. PICK j \in 1 .. i - 1 :
          /\ out[j].role = "assistant" /\ i - j \in DOMAIN out[j].ids
          /\ out[i].ids = <<out[j].ids[i - j]>>
    BY <1>1, <1>4 DEF AnswersOnly
  <2>2. j \in DOMAIN out
    BY <1>1
  <2> QED
    BY <1>1, <2>1, <2>2
<1> QED
  BY <1>1, <1>2, <1>3, <1>4 DEF t

(* One message more, when every call has its answer. *)
LEMMA OneMore ==
  ASSUME NEW out \in Seq(OpenAIRecord), NEW msg \in OpenAIRecord, msg.role # "tool",
         AnsweredTo(out, Len(out)), AnswersOnly(out)
  PROVE  LET t == out \o <<msg>>
         IN  /\ t \in Seq(OpenAIRecord) /\ Len(t) = Len(out) + 1 /\ t[Len(t)] = msg
             /\ AnsweredTo(t, Len(t) - 1) /\ AnswersOnly(t)
             /\ msg.ids = <<>> => AnsweredTo(t, Len(t))
<1> DEFINE t == out \o <<msg>>
<1>0. Len(out) \in Nat /\ Len(out) \in 0 .. Len(out) /\ <<msg>> \in Seq(OpenAIRecord)
      /\ Len(<<msg>>) = 1 /\ DOMAIN <<msg>> = {1} /\ <<msg>>[1] = msg
      /\ DOMAIN out = 1 .. Len(out)
  OBVIOUS
<1>1. /\ t \in Seq(OpenAIRecord) /\ Len(t) = Len(out) + 1
      /\ t[Len(out) + 1] = msg
      /\ AnsweredTo(t, Len(out))
      /\ \A i \in DOMAIN out : t[i].role = "tool" =>
           \E j \in 1 .. i - 1 :
             /\ t[j].role = "assistant" /\ i - j \in DOMAIN t[j].ids
             /\ t[i].ids = <<t[j].ids[i - j]>>
  <2> HIDE DEF t
  <2>1. t \in Seq(OpenAIRecord) /\ Len(t) = Len(out) + Len(<<msg>>)
        /\ \A i \in DOMAIN <<msg>> : t[Len(out) + i] = <<msg>>[i]
    BY <1>0, ConcatKeeps, Zenon DEF t
  <2>2. /\ AnsweredTo(t, Len(out))
        /\ \A i \in DOMAIN out : t[i].role = "tool" =>
             \E j \in 1 .. i - 1 :
               /\ t[j].role = "assistant" /\ i - j \in DOMAIN t[j].ids
               /\ t[i].ids = <<t[j].ids[i - j]>>
    BY <1>0, ConcatKeeps, Zenon DEF t
  <2> QED
    BY <1>0, <2>1, <2>2
<1> HIDE DEF t
<1>2. Len(t) - 1 = Len(out) /\ DOMAIN t = 1 .. Len(out) + 1
  BY <1>0, <1>1
<1>3. AnswersOnly(t)
  <2> SUFFICES ASSUME NEW i \in DOMAIN t, t[i].role = "tool"
               PROVE  \E j \in 1 .. i - 1 :
                        /\ t[j].role = "assistant" /\ i - j \in DOMAIN t[j].ids
                        /\ t[i].ids = <<t[j].ids[i - j]>>
    BY DEF AnswersOnly
  <2>1. i \in DOMAIN out
    BY <1>0, <1>1, <1>2
  <2> QED
    BY <1>1, <2>1
<1>4. msg.ids = <<>> => AnsweredTo(t, Len(t))
  <2> SUFFICES ASSUME msg.ids = <<>>, NEW i \in 1 .. Len(t), t[i].role = "assistant"
               PROVE  AnsweredAt(t, i)
    BY DEF AnsweredTo
  <2>1. CASE i \in 1 .. Len(out)
    BY <1>1, <2>1 DEF AnsweredTo
  <2>2. CASE i = Len(out) + 1
    BY <1>1, <2>2 DEF AnsweredAt
  <2> QED
    BY <1>0, <1>1, <2>1, <2>2
<1> QED
  BY <1>1, <1>2, <1>3, <1>4, Zenon DEF t

LEMMA InParts ==
  ASSUME NEW n \in Nat, NEW m \in Nat, NEW i \in 1 .. n + m + 1
  PROVE  i \in 1 .. n \/ i \in n + 1 .. n + m \/ i = n + m + 1
OBVIOUS

(* The answers, when only the last message waits for them. *)
LEMMA AnswersMore ==
  ASSUME NEW out \in Seq(OpenAIRecord), NEW ids \in Seq(Nat \X Nat), Len(out) >= 1,
         out[Len(out)] = OpenAI("assistant", ids),
         AnsweredTo(out, Len(out) - 1), AnswersOnly(out)
  PROVE  LET t == out \o ([k \in DOMAIN ids |-> OpenAI("tool", <<ids[k]>>)] \o <<OpenAI("user", <<>>)>>)
         IN  t \in Seq(OpenAIRecord) /\ AnsweredTo(t, Len(t)) /\ AnswersOnly(t)
<1> DEFINE tools == [k \in DOMAIN ids |-> OpenAI("tool", <<ids[k]>>)]
           user == OpenAI("user", <<>>)
           more == tools \o <<user>>
           t == out \o more
           n == Len(out)
           m == Len(ids)
<1>1. n \in Nat /\ m \in Nat /\ DOMAIN out = 1 .. n /\ DOMAIN ids = 1 .. m /\ n - 1 \in 0 .. n
      /\ n >= 1
  OBVIOUS
<1>2. user \in OpenAIRecord /\ user.role = "user"
  BY DEF OpenAI, OpenAIRecord
<1>3. \A k \in 1 .. m : OpenAI("tool", <<ids[k]>>) \in OpenAIRecord
  <2> SUFFICES ASSUME NEW k \in 1 .. m PROVE OpenAI("tool", <<ids[k]>>) \in OpenAIRecord
    OBVIOUS
  <2>1. <<ids[k]>> \in Seq(Nat \X Nat)
    OBVIOUS
  <2> QED
    BY <2>1 DEF OpenAI, OpenAIRecord
<1>4. /\ tools \in Seq(OpenAIRecord) /\ Len(tools) = m
      /\ \A k \in 1 .. m : tools[k] = OpenAI("tool", <<ids[k]>>)
  BY <1>1, <1>3
<1> HIDE DEF tools, user
<1>5. /\ more \in Seq(OpenAIRecord) /\ Len(more) = m + 1 /\ DOMAIN more = 1 .. m + 1
      /\ \A k \in 1 .. m : more[k] = OpenAI("tool", <<ids[k]>>)
      /\ more[m + 1] = user
  BY <1>1, <1>2, <1>4
<1> HIDE DEF more, n
<1>6. /\ t \in Seq(OpenAIRecord) /\ Len(t) = n + Len(more)
      /\ \A i \in DOMAIN out : t[i] = out[i]
      /\ \A i \in DOMAIN more : t[n + i] = more[i]
      /\ AnsweredTo(t, n - 1)
  BY <1>1, <1>5, ConcatKeeps DEF n
<1>7. \A i \in DOMAIN out : t[i].role = "tool" =>
           \E j \in 1 .. i - 1 :
             /\ t[j].role = "assistant" /\ i - j \in DOMAIN t[j].ids
             /\ t[i].ids = <<t[j].ids[i - j]>>
  <2> HIDE DEF t
  <2> QED
    BY <1>1, <1>5, ConcatKeeps, Zenon DEF t, n
<1> HIDE DEF t, m
<1>8. /\ DOMAIN t = 1 .. n + m + 1 /\ Len(t) = n + m + 1
      /\ \A k \in 1 .. m : t[n + k] = OpenAI("tool", <<ids[k]>>)
      /\ t[n + m + 1] = user
      /\ t[n].role = "assistant" /\ t[n].ids = ids
  <2>1. Len(t) = n + m + 1 /\ DOMAIN t = 1 .. Len(t)
    BY <1>1, <1>5, <1>6
  <2>2. \A k \in 1 .. m : t[n + k] = OpenAI("tool", <<ids[k]>>)
    <3> SUFFICES ASSUME NEW k \in 1 .. m PROVE t[n + k] = OpenAI("tool", <<ids[k]>>)
      OBVIOUS
    <3>1. k \in DOMAIN more
      BY <1>1, <1>5
    <3>2. t[n + k] = more[k] /\ more[k] = OpenAI("tool", <<ids[k]>>)
      BY <1>5, <1>6, <3>1
    <3> QED
      BY <3>2
  <2>3. t[n + m + 1] = user
    <3>1. m + 1 \in DOMAIN more
      BY <1>1, <1>5
    <3>2. t[n + (m + 1)] = user
      BY <1>5, <1>6, <3>1
    <3>3. n + (m + 1) = n + m + 1
      BY <1>1
    <3> QED
      BY <3>2, <3>3
  <2>4. t[n] = out[n]
    BY <1>1, <1>6
  <2> QED
    BY <2>1, <2>2, <2>3, <2>4 DEF OpenAI, n
<1>9. AnsweredTo(t, Len(t))
  <2> SUFFICES ASSUME NEW i \in 1 .. Len(t), t[i].role = "assistant"
               PROVE  AnsweredAt(t, i)
    BY DEF AnsweredTo
  <2>1. CASE i \in 1 .. n - 1
    BY <1>6, <2>1 DEF AnsweredTo
  <2>2. CASE i = n
    <3> SUFFICES ASSUME NEW k \in 1 .. m
                 PROVE  n + k <= Len(t) /\ t[n + k] = [role |-> "tool", ids |-> <<ids[k]>>]
      BY <1>1, <1>8, <2>2 DEF AnsweredAt
    <3> QED
      BY <1>1, <1>8 DEF OpenAI
  <2>3. CASE i \in n + 1 .. n + m
    <3>1. i - n \in 1 .. m /\ n + (i - n) = i
      BY <1>1, <2>3
    <3>2. t[n + (i - n)] = OpenAI("tool", <<ids[i - n]>>)
      BY <1>8, <3>1
    <3>3. t[i].role = "tool"
      BY <3>1, <3>2 DEF OpenAI
    <3> QED
      BY <3>3
  <2>4. CASE i = n + m + 1
    BY <1>2, <1>8, <2>4
  <2> QED
    BY <1>1, <1>8, <2>1, <2>2, <2>3, <2>4
<1>10. AnswersOnly(t)
  <2> SUFFICES ASSUME NEW i \in DOMAIN t, t[i].role = "tool"
               PROVE  \E j \in 1 .. i - 1 :
                        /\ t[j].role = "assistant" /\ i - j \in DOMAIN t[j].ids
                        /\ t[i].ids = <<t[j].ids[i - j]>>
    BY DEF AnswersOnly
  <2>1. CASE i \in DOMAIN out
    BY <1>7, <2>1
  <2>2. CASE i \in n + 1 .. n + m
    <3>1. i - n \in 1 .. m /\ n + (i - n) = i /\ n \in 1 .. i - 1
      BY <1>1, <2>2
    <3>2. t[n + (i - n)] = OpenAI("tool", <<ids[i - n]>>)
      BY <1>8, <3>1
    <3>3. t[i].ids = <<ids[i - n]>>
      BY <3>1, <3>2 DEF OpenAI
    <3>4. i - n \in DOMAIN t[n].ids /\ t[i].ids = <<t[n].ids[i - n]>>
      BY <1>1, <1>8, <3>1, <3>3
    <3> QED
      BY <1>8, <3>1, <3>4
  <2>3. CASE i = n + m + 1
    BY <1>2, <1>8, <2>3
  <2>4. i \in DOMAIN out \/ i \in n + 1 .. n + m \/ i = n + m + 1
    <3>1. n \in Nat /\ m \in Nat /\ i \in 1 .. n + m + 1
      <4>1. i \in DOMAIN t /\ DOMAIN t = 1 .. n + m + 1
        BY <1>8
      <4> QED
        BY <1>1, <4>1
    <3>2. i \in 1 .. n \/ i \in n + 1 .. n + m \/ i = n + m + 1
      BY <3>1, InParts
    <3> QED
      BY <1>1, <3>2
  <2> QED
    BY <2>1, <2>2, <2>3, <2>4
<1> QED
  BY <1>6, <1>9, <1>10, Zenon DEF t, more, tools, user

(* The recursion that appends the converted messages has a solution. *)
LEMMA AppendsExist ==
  ASSUME NEW n \in Nat, NEW conv
  PROVE  \E f : f = [i \in 0 .. n |-> IF i = 0 THEN <<>> ELSE f[i - 1] \o conv[i]]
<1> DEFINE Solved(k) == \E f : f = [i \in 0 .. k |-> IF i = 0 THEN <<>> ELSE f[i - 1] \o conv[i]]
           T == {k \in Nat : ~Solved(k)}
<1>1. Solved(0)
  <2> DEFINE f == [i \in 0 .. 0 |-> <<>>]
  <2>1. f = [i \in 0 .. 0 |-> IF i = 0 THEN <<>> ELSE f[i - 1] \o conv[i]]
    OBVIOUS
  <2> QED
    BY <2>1
<1>2. ASSUME NEW k \in Nat, k # 0, Solved(k - 1) PROVE Solved(k)
  <2>1. PICK f : f = [i \in 0 .. k - 1 |-> IF i = 0 THEN <<>> ELSE f[i - 1] \o conv[i]]
    BY <1>2
  <2> DEFINE g == [i \in 0 .. k |-> IF i = k THEN f[k - 1] \o conv[k] ELSE f[i]]
  <2>2. \A i \in 0 .. k : g[i] = IF i = 0 THEN <<>> ELSE g[i - 1] \o conv[i]
    <3>1. \A i \in 0 .. k - 1 : g[i] = f[i]
      BY <1>2
    <3>2. \A i \in 0 .. k - 1 : f[i] = IF i = 0 THEN <<>> ELSE f[i - 1] \o conv[i]
      BY <2>1
    <3>3. g[k] = f[k - 1] \o conv[k]
      <4>1. k \in 0 .. k
        BY <1>2
      <4> QED
        BY <4>1, Zenon
    <3> HIDE DEF g
    <3>4. \A i \in 0 .. k : i # 0 => i - 1 \in 0 .. k - 1
      BY <1>2
    <3> SUFFICES ASSUME NEW i \in 0 .. k PROVE g[i] = IF i = 0 THEN <<>> ELSE g[i - 1] \o conv[i]
      OBVIOUS
    <3>5. CASE i = k
      BY <1>2, <3>1, <3>3, <3>4, <3>5
    <3>6. CASE i \in 0 .. k - 1
      <4>1. i # 0 => g[i - 1] = f[i - 1]
        BY <3>1, <3>4
      <4> QED
        BY <3>1, <3>2, <3>6, <4>1
    <3> QED
      BY <1>2, <3>5, <3>6
  <2>3. g = [i \in 0 .. k |-> IF i = 0 THEN <<>> ELSE g[i - 1] \o conv[i]]
    BY <2>2
  <2> QED
    BY <2>3
<1>3. T = {}
  <2> SUFFICES ASSUME T # {} PROVE FALSE
    OBVIOUS
  <2>1. PICK k \in T : \A j \in T : k <= j
    <3>1. T \in SUBSET Nat
      OBVIOUS
    <3> HIDE DEF T
    <3> QED
      BY <3>1, LeastNatural
  <2> HIDE DEF Solved
  <2>2. k \in Nat /\ k # 0
    BY <1>1, <2>1
  <2>3. k - 1 \in Nat /\ k - 1 \notin T
    BY <2>1, <2>2
  <2> QED
    BY <1>2, <2>1, <2>2, <2>3
<1>4. Solved(n)
  <2> HIDE DEF Solved
  <2> QED
    BY <1>3
<1> QED
  BY <1>4

(* After so many messages everything is answered, but for the calls of the *)
(* last one.                                                               *)
SoFar(out, msgs, m) ==
  /\ out \in Seq(OpenAIRecord) /\ AnswersOnly(out)
  /\ IF m > 0 /\ msgs[m].kind = "toolUse"
     THEN /\ Len(out) >= 1 /\ out[Len(out)] = OpenAI("assistant", msgs[m].ids)
          /\ AnsweredTo(out, Len(out) - 1)
     ELSE AnsweredTo(out, Len(out))

LEMMA SoFarStep ==
  ASSUME NEW msgs \in Seq(Message), WholeTo(msgs, Len(msgs)),
         NEW m \in 1 .. Len(msgs), NEW out, SoFar(out, msgs, m - 1)
  PROVE  SoFar(out \o Converted(msgs[m]), msgs, m)
<1> DEFINE msg == msgs[m]
           t == out \o Converted(msg)
<1>1. /\ m \in Nat /\ m > 0 /\ m - 1 \in Nat /\ (m - 1 > 0 <=> m > 1)
      /\ m - 1 > 0 => m - 1 \in 1 .. Len(msgs) /\ (m - 1) + 1 = m
      /\ out \in Seq(OpenAIRecord) /\ AnswersOnly(out)
  BY DEF SoFar
<1>2. msg \in Message /\ msg.kind \in Kinds /\ msg.ids \in Seq(Nat \X Nat)
  <2>1. msg \in Message
    BY ElementOfSeq
  <2> QED
    BY <2>1 DEF Message
<1>3. /\ msg.kind = "toolResult" => m > 1 /\ msgs[m - 1].kind = "toolUse"
      /\ msg.kind \in {"user", "assistant"} => msg.ids = <<>>
  BY DEF WholeTo
<1>4. m > 1 /\ msgs[m - 1].kind = "toolUse" => msg.kind = "toolResult" /\ msg.ids = msgs[m - 1].ids
  BY <1>1 DEF WholeTo
<1> HIDE DEF msg, t
<1>5. CASE msg.kind = "toolResult"
  <2>1. Converted(msg) = [k \in DOMAIN msg.ids |-> OpenAI("tool", <<msg.ids[k]>>)]
                           \o <<OpenAI("user", <<>>)>>
    BY <1>5 DEF Converted
  <2>2. /\ Len(out) >= 1 /\ out[Len(out)] = OpenAI("assistant", msg.ids)
        /\ AnsweredTo(out, Len(out) - 1)
    BY <1>1, <1>3, <1>4, <1>5 DEF SoFar
  <2>3. t \in Seq(OpenAIRecord) /\ AnsweredTo(t, Len(t)) /\ AnswersOnly(t)
    BY <1>1, <1>2, <2>1, <2>2, AnswersMore, Zenon DEF t
  <2> QED
    BY <1>5, <2>3 DEF SoFar, t, msg
<1>6. CASE msg.kind # "toolResult"
  <2>1. ~(m - 1 > 0 /\ msgs[m - 1].kind = "toolUse")
    BY <1>1, <1>4, <1>6
  <2>2. AnsweredTo(out, Len(out))
    BY <2>1, Zenon DEF SoFar
  <2>3. PICK one \in OpenAIRecord :
          /\ Converted(msg) = <<one>> /\ one.role # "tool" /\ one.ids = msg.ids
          /\ msg.kind = "toolUse" => one = OpenAI("assistant", msg.ids)
    <3>1. CASE msg.kind = "user"
      <4>1. Converted(msg) = <<OpenAI("user", <<>>)>> /\ msg.ids = <<>>
        BY <1>3, <3>1 DEF Converted
      <4>2. OpenAI("user", <<>>) \in OpenAIRecord
        BY DEF OpenAI, OpenAIRecord
      <4> QED
        BY <3>1, <4>1, <4>2 DEF OpenAI
    <3>2. CASE msg.kind \in {"assistant", "toolUse"}
      <4>1. Converted(msg) = <<OpenAI("assistant", msg.ids)>>
        BY <3>2 DEF Converted
      <4>2. OpenAI("assistant", msg.ids) \in OpenAIRecord
        BY <1>2 DEF OpenAI, OpenAIRecord
      <4> QED
        BY <4>1, <4>2 DEF OpenAI
    <3> QED
      BY <1>2, <1>6, <3>1, <3>2 DEF Kinds
  <2>4. /\ t \in Seq(OpenAIRecord) /\ Len(t) = Len(out) + 1 /\ t[Len(t)] = one
        /\ AnsweredTo(t, Len(t) - 1) /\ AnswersOnly(t)
        /\ one.ids = <<>> => AnsweredTo(t, Len(t))
    BY <1>1, <2>2, <2>3, OneMore DEF t
  <2>5. Len(t) >= 1
    BY <1>1, <2>4
  <2>6. msg.kind # "toolUse" => msg.ids = <<>>
    BY <1>2, <1>3, <1>6 DEF Kinds
  <2> QED
    BY <1>1, <2>3, <2>4, <2>5, <2>6 DEF SoFar, t, msg
<1> QED
  BY <1>5, <1>6

LEMMA OpenAIAnswers ==
  ASSUME NEW msgs \in Seq(Message), WholeTo(msgs, Len(msgs))
  PROVE  LET out == OpenAIMessages(msgs)
         IN  out \in Seq(OpenAIRecord) /\ AnsweredTo(out, Len(out)) /\ AnswersOnly(out)
<1> DEFINE n == Len(msgs)
           conv == [i \in 1 .. n |-> Converted(msgs[i])]
           out == CHOOSE f : f = [i \in 0 .. n |-> IF i = 0 THEN <<>>
                                                  ELSE f[i - 1] \o Converted(msgs[i])]
<1>0. n \in Nat
  OBVIOUS
<1>1. out = [i \in 0 .. n |-> IF i = 0 THEN <<>> ELSE out[i - 1] \o Converted(msgs[i])]
  <2>1. PICK f : f = [i \in 0 .. n |-> IF i = 0 THEN <<>> ELSE f[i - 1] \o conv[i]]
    <3> HIDE DEF n, conv
    <3> QED
      BY <1>0, AppendsExist
  <2>2. \A i \in 0 .. n : i # 0 => conv[i] = Converted(msgs[i])
    OBVIOUS
  <2> HIDE DEF conv
  <2>3. f = [i \in 0 .. n |-> IF i = 0 THEN <<>> ELSE f[i - 1] \o Converted(msgs[i])]
    BY <2>1, <2>2
  <2> QED
    BY <2>3, Zenon
<1>2. OpenAIMessages(msgs) = out[n]
  BY Zenon DEF OpenAIMessages
<1> HIDE DEF out, n
<1>3. out[0] = <<>> /\ \A i \in 1 .. n : out[i] = out[i - 1] \o Converted(msgs[i])
  <2>1. \A i \in 0 .. n : out[i] = IF i = 0 THEN <<>> ELSE out[i - 1] \o Converted(msgs[i])
    BY <1>1
  <2>2. 0 \in 0 .. n /\ \A i \in 1 .. n : i \in 0 .. n /\ i # 0
    BY <1>0
  <2> QED
    BY <2>1, <2>2, Zenon
<1>4. SoFar(out[0], msgs, 0)
  <2>1. <<>> \in Seq(OpenAIRecord) /\ Len(<<>>) = 0 /\ DOMAIN <<>> = {}
    OBVIOUS
  <2>2. AnswersOnly(<<>>) /\ AnsweredTo(<<>>, Len(<<>>))
    BY <2>1 DEF AnswersOnly, AnsweredTo
  <2> QED
    BY <1>3, <2>1, <2>2 DEF SoFar
<1>5. ASSUME NEW i \in 1 .. n, SoFar(out[i - 1], msgs, i - 1) PROVE SoFar(out[i], msgs, i)
  BY <1>3, <1>5, SoFarStep DEF n
<1> DEFINE T == {i \in 0 .. n : ~SoFar(out[i], msgs, i)}
<1>6. T = {}
  <2> SUFFICES ASSUME T # {} PROVE FALSE
    OBVIOUS
  <2>1. PICK i \in T : \A j \in T : i <= j
    <3>1. T \in SUBSET Nat
      OBVIOUS
    <3> HIDE DEF T
    <3> QED
      BY <3>1, LeastNatural
  <2>2. i \in 1 .. n
    BY <1>0, <1>4, <2>1
  <2>3. i - 1 \in 0 .. n /\ i - 1 \notin T
    BY <1>0, <2>1, <2>2
  <2> QED
    BY <1>5, <2>1, <2>2, <2>3
<1>7. SoFar(out[n], msgs, n)
  BY <1>0, <1>6
<1>8. n > 0 => msgs[n].kind # "toolUse"
  BY <1>0 DEF WholeTo, n
<1> QED
  BY <1>2, <1>7, <1>8 DEF SoFar

(* A part of a whole conversation that begins with a turn is whole. *)
LEMMA PartIsWhole ==
  ASSUME NEW msgs \in Seq(Message), NEW n \in DOMAIN msgs, NEW i \in 1 .. n,
         WholeTo(msgs, n), i = 1 \/ IsTurnStart(msgs[i])
  PROVE  LET part == SubSeq(msgs, i, n)
         IN  /\ part \in Seq(Message) /\ WholeTo(part, Len(part)) /\ DOMAIN part = 1 .. Len(part)
             /\ IsTurnStart(part[1]) \/ IsPrefix(part, msgs)
<1> DEFINE part == SubSeq(msgs, i, n)
           m == n - i + 1
<1>1. /\ part \in Seq(Message) /\ Len(part) = m /\ DOMAIN part = 1 .. m
      /\ n \in 1 .. Len(msgs) /\ Len(msgs) \in Nat /\ i \in Nat /\ n \in Nat
      /\ \A q \in 1 .. m : part[q] = msgs[i + q - 1]
  OBVIOUS
<1> HIDE DEF part
<1>2. WholeTo(part, m)
  <2> SUFFICES ASSUME NEW q \in 1 .. m
               PROVE  /\ part[q].kind = "toolUse" =>
                           /\ q < m
                           /\ part[q + 1].kind = "toolResult" /\ part[q + 1].ids = part[q].ids
                      /\ part[q].kind = "toolResult" => q > 1 /\ part[q - 1].kind = "toolUse"
                      /\ part[q].kind \in {"user", "assistant"} => part[q].ids = <<>>
    BY DEF WholeTo
  <2> DEFINE r == i + q - 1
  <2>1. r \in 1 .. n /\ part[q] = msgs[r] /\ r \in Nat
    BY <1>1
  <2>2. /\ msgs[r].kind = "toolUse" =>
             /\ r < n
             /\ msgs[r + 1].kind = "toolResult" /\ msgs[r + 1].ids = msgs[r].ids
        /\ msgs[r].kind = "toolResult" => r > 1 /\ msgs[r - 1].kind = "toolUse"
        /\ msgs[r].kind \in {"user", "assistant"} => msgs[r].ids = <<>>
    BY <2>1 DEF WholeTo
  <2>3. r < n => q < m /\ part[q + 1] = msgs[r + 1]
    <3> SUFFICES ASSUME r < n PROVE q < m /\ part[q + 1] = msgs[r + 1]
      OBVIOUS
    <3>1. q + 1 \in 1 .. m /\ i + (q + 1) - 1 = r + 1 /\ q < m
      <4>1. q \in Nat /\ i \in Nat /\ n \in Nat /\ m \in Int /\ q >= 1
        BY <1>1
      <4> QED
        BY <4>1
    <3>2. part[q + 1] = msgs[i + (q + 1) - 1]
      BY <1>1, <3>1
    <3> QED
      BY <3>1, <3>2
  <2>4. q = 1 => r = i
    BY <1>1
  <2>5. q > 1 => part[q - 1] = msgs[r - 1]
    <3> SUFFICES ASSUME q > 1 PROVE part[q - 1] = msgs[r - 1]
      OBVIOUS
    <3>1. q - 1 \in 1 .. m /\ i + (q - 1) - 1 = r - 1
      BY <1>1
    <3>2. part[q - 1] = msgs[i + (q - 1) - 1]
      BY <1>1, <3>1
    <3> QED
      BY <3>1, <3>2
  <2>6. msgs[r].kind = "toolResult" => q > 1
    <3> SUFFICES ASSUME msgs[r].kind = "toolResult", q = 1 PROVE FALSE
      BY <1>1
    <3>1. i # 1 /\ r = i
      BY <2>2, <2>4
    <3> QED
      BY <3>1 DEF IsTurnStart
  <2> HIDE DEF r
  <2> QED
    BY <2>1, <2>2, <2>3, <2>5, <2>6
<1>3. IsTurnStart(part[1]) \/ IsPrefix(part, msgs)
  <2>1. CASE i = 1
    <3>1. SubSeq(part, 1, m) = part /\ SubSeq(msgs, 1, m) = part /\ m <= Len(msgs)
      BY <1>1, <2>1 DEF part
    <3> QED
      BY <1>1, <3>1 DEF IsPrefix
  <2>2. CASE i # 1
    <3>1. 1 \in 1 .. m /\ part[1] = msgs[i]
      BY <1>1
    <3> QED
      BY <2>2, <3>1
  <2> QED
    BY <2>1, <2>2
<1> QED
  BY <1>1, <1>2, <1>3 DEF part

(* The last message asks for the calls in progress. *)
Waiting(msgs) ==
  LET n == Len(msgs)
  IN  /\ n >= 1 /\ WholeTo(msgs, n - 1)
      /\ msgs[n].kind = "toolUse"
      /\ DOMAIN msgs[n].ids = DOMAIN calls
      /\ \A k \in DOMAIN calls : msgs[n].ids[k] = calls[k].id

(* A prompt is whole turns up to an answer of the conversation. *)
IsPart(part, msgs) ==
  \E n \in DOMAIN msgs : \E i \in 1 .. n :
    /\ part = SubSeq(msgs, i, n) /\ WholeTo(msgs, n)
    /\ i = 1 \/ IsTurnStart(msgs[i])

MessagesOK ==
  /\ messages \in Seq(Message)
  /\ task = "none" => prompt = <<>>
  /\ task \in {"plan", "tools"} => TurnStarts(messages) # {}
  /\ task = "plan" => WholeTo(messages, Len(messages))
  /\ task = "tools" => Waiting(messages)
  /\ prompt = <<>> \/ IsPart(prompt, messages)

LEMMA MessagesOKValid == MessagesOK => PromptIsValid
<1> SUFFICES ASSUME MessagesOK PROVE PromptIsValid
  OBVIOUS
<1>1. /\ prompt \in Seq(Message) /\ WholeTo(prompt, Len(prompt)) /\ DOMAIN prompt = 1 .. Len(prompt)
      /\ prompt = <<>> \/ IsTurnStart(prompt[1]) \/ IsPrefix(prompt, messages)
  <2>1. CASE prompt = <<>>
    BY <2>1 DEF WholeTo
  <2>2. CASE IsPart(prompt, messages)
    BY <2>2, PartIsWhole DEF MessagesOK, IsPart
  <2> QED
    BY <2>1, <2>2 DEF MessagesOK
<1>2. PairsAreWhole
  BY <1>1 DEF PairsAreWhole, WholeTo
<1>3. ToolMessagesAnswer
  <2> DEFINE out == OpenAIMessages(prompt)
  <2>1. out \in Seq(OpenAIRecord) /\ AnsweredTo(out, Len(out)) /\ AnswersOnly(out)
    BY <1>1, OpenAIAnswers
  <2> HIDE DEF out
  <2>2. DOMAIN out = 1 .. Len(out)
    BY <2>1
  <2>3. \A i \in DOMAIN out : \A k \in DOMAIN out[i].ids :
          out[i].role = "assistant" =>
            /\ i + k <= Len(out)
            /\ out[i + k] = [role |-> "tool", ids |-> <<out[i].ids[k]>>]
    BY <2>1, <2>2, Zenon DEF AnsweredTo, AnsweredAt
  <2> QED
    BY <2>1, <2>3, Zenon DEF ToolMessagesAnswer, AnswersOnly, out
<1> QED
  BY <1>2, <1>3 DEF PromptIsValid

(* A message more changes nothing of what came before. *)
LEMMA AppendMessage ==
  ASSUME NEW msgs \in Seq(Message), NEW msg \in Message, NEW t, t = Append(msgs, msg)
  PROVE  /\ t \in Seq(Message) /\ Len(t) = Len(msgs) + 1 /\ Len(msgs) \in Nat
         /\ t[Len(msgs) + 1] = msg /\ \A i \in DOMAIN msgs : t[i] = msgs[i]
         /\ TurnStarts(msgs) # {} => TurnStarts(t) # {}
         /\ \A n \in 0 .. Len(msgs) : WholeTo(msgs, n) => WholeTo(t, n)
         /\ \A part : IsPart(part, msgs) => IsPart(part, t)
<1>1. /\ t \in Seq(Message) /\ Len(t) = Len(msgs) + 1 /\ Len(msgs) \in Nat
      /\ t[Len(msgs) + 1] = msg /\ \A i \in DOMAIN msgs : t[i] = msgs[i]
      /\ DOMAIN msgs = 1 .. Len(msgs) /\ DOMAIN t = 1 .. Len(msgs) + 1
  OBVIOUS
<1>2. TurnStarts(msgs) # {} => TurnStarts(t) # {}
  <2>1. DOMAIN msgs \subseteq DOMAIN t
    BY <1>1
  <2> QED
    BY <1>1, <2>1 DEF TurnStarts
<1>3. ASSUME NEW n \in 0 .. Len(msgs), WholeTo(msgs, n) PROVE WholeTo(t, n)
  <2> SUFFICES ASSUME NEW i \in 1 .. n
               PROVE  /\ t[i].kind = "toolUse" =>
                           /\ i < n
                           /\ t[i + 1].kind = "toolResult" /\ t[i + 1].ids = t[i].ids
                      /\ t[i].kind = "toolResult" => i > 1 /\ t[i - 1].kind = "toolUse"
                      /\ t[i].kind \in {"user", "assistant"} => t[i].ids = <<>>
    BY DEF WholeTo
  <2>1. /\ i \in DOMAIN msgs /\ i < n => i + 1 \in DOMAIN msgs
        /\ i > 1 => i - 1 \in DOMAIN msgs
    BY <1>1
  <2>2. /\ t[i] = msgs[i] /\ i < n => t[i + 1] = msgs[i + 1]
        /\ i > 1 => t[i - 1] = msgs[i - 1]
    BY <1>1, <2>1
  <2> QED
    BY <1>3, <2>2 DEF WholeTo
<1>4. ASSUME NEW part, IsPart(part, msgs) PROVE IsPart(part, t)
  <2>0. PICK n \in DOMAIN msgs :
          \E i \in 1 .. n :
            /\ part = SubSeq(msgs, i, n) /\ WholeTo(msgs, n)
            /\ i = 1 \/ IsTurnStart(msgs[i])
    BY <1>4 DEF IsPart
  <2>1. PICK i \in 1 .. n :
          /\ part = SubSeq(msgs, i, n) /\ WholeTo(msgs, n)
          /\ i = 1 \/ IsTurnStart(msgs[i])
    BY <2>0
  <2>2. n \in DOMAIN t /\ i \in DOMAIN msgs /\ n \in 0 .. Len(msgs)
    BY <1>1
  <2>3. SubSeq(t, i, n) = SubSeq(msgs, i, n)
    BY <1>1
  <2>4. WholeTo(t, n)
    BY <1>3, <2>1, <2>2
  <2> QED
    BY <1>1, <2>1, <2>2, <2>3, <2>4 DEF IsPart
<1> QED
  BY <1>1, <1>2, <1>3, <1>4

LEMMA InitMessages == Init => MessagesOK
<1> SUFFICES ASSUME Init PROVE MessagesOK
  OBVIOUS
<1>1. messages = <<>> /\ prompt = <<>> /\ task = "none"
  BY DEF Init
<1> QED
  BY <1>1 DEF MessagesOK

(* A conversation as it is posted is whole: it has no tool calls.          *)
LEMMA PostMessages ==
  ASSUME MessagesOK, NEW history \in Histories, Post(history)
  PROVE  MessagesOK'
<1>1. /\ task = "none" /\ task' = "plan" /\ messages' = history /\ Last(history).kind = "user"
      /\ UNCHANGED prompt
  BY DEF Post
<1>2. PICK n \in 1 .. MaxHistory :
        history \in [1 .. n -> {Plain(role, 1) : role \in {"user", "assistant"}}]
  BY DEF Histories
<1>3. \A i \in 1 .. n : /\ history[i] \in Message
                        /\ history[i].kind \in {"user", "assistant"} /\ history[i].ids = <<>>
  <2> SUFFICES ASSUME NEW i \in 1 .. n
               PROVE  /\ history[i] \in Message
                      /\ history[i].kind \in {"user", "assistant"} /\ history[i].ids = <<>>
    OBVIOUS
  <2>1. PICK role \in {"user", "assistant"} : history[i] = Plain(role, 1)
    BY <1>2
  <2>2. <<>> \in Seq(Nat \X Nat)
    OBVIOUS
  <2> QED
    BY <2>1, <2>2 DEF Plain, Message, Kinds
<1>4. n \in Nat /\ n >= 1
  BY AgentLoopAssumption
<1>5. history \in Seq(Message) /\ Len(history) = n /\ DOMAIN history = 1 .. n
  BY <1>2, <1>3, <1>4
<1>6. WholeTo(history, Len(history))
  BY <1>3, <1>5 DEF WholeTo
<1>7. n \in TurnStarts(history)
  BY <1>1, <1>4, <1>5 DEF TurnStarts, IsTurnStart, Last
<1> QED
  BY <1>1, <1>5, <1>6, <1>7 DEF MessagesOK

(* The planner's prompt is the whole conversation or whole turns of it.    *)
LEMMA AsksPart ==
  ASSUME MessagesOK, Asks
  PROVE  IsPart(prompt', messages)
<1>1. /\ task = "plan" /\ messages \in Seq(Message) /\ WholeTo(messages, Len(messages))
      /\ TurnStarts(messages) # {} /\ prompt' = BuildLayeredPrompt(layers', messages)
  BY DEF Asks, Running, MessagesOK
<1>2. PICK a \in Cuts(messages) : a \in DOMAIN messages /\ prompt' = From(messages, a)
  BY <1>1, BuildIsLongestFit
<1>3. a = 1 \/ IsTurnStart(messages[a])
  BY <1>2 DEF Cuts, TurnStarts
<1>4. Len(messages) \in DOMAIN messages /\ a \in 1 .. Len(messages)
  BY <1>1, <1>2
<1> QED
  BY <1>1, <1>2, <1>3, <1>4 DEF IsPart, From

LEMMA PlanMessages ==
  ASSUME IInv, MessagesOK, Plan
  PROVE  MessagesOK'
<1>1. task = "plan"
  BY DEF Plan, PlanFinished, PlanLimit, PlanFails, PlanAnswered, Asks, Running
<1>2. CASE PlanFinished \/ PlanLimit
  <2>1. UNCHANGED <<messages, prompt>> /\ task' = "report"
    BY <1>2 DEF PlanFinished, PlanLimit
  <2> QED
    BY <1>1, <2>1 DEF MessagesOK
<1>3. CASE PlanFails
  <2>1. UNCHANGED messages /\ task' = "done" /\ Asks
    BY <1>3 DEF PlanFails, Fail, Leave
  <2>2. IsPart(prompt', messages)
    BY <2>1, AsksPart
  <2> QED
    BY <2>1, <2>2 DEF MessagesOK
<1>4. ASSUME NEW n \in 0 .. MaxCalls, NEW pieces \in 0 .. MaxPieces,
             NEW kinds \in [1 .. n -> {"tool", "skill", "other"}], PlanAnswered(kinds, pieces)
      PROVE  MessagesOK'
  <2> DEFINE ids == [k \in DOMAIN kinds |-> <<iterations + 1, k>>]
             msg == IF kinds = <<>> THEN Plain("assistant", 1) ELSE ToolUse(ids, 1)
  <2>1. /\ Asks /\ messages' = Append(messages, msg)
        /\ calls' = [k \in DOMAIN kinds |->
                      [id |-> ids[k], kind |-> kinds[k], at |-> "queued", text |-> 0]]
        /\ task' = IF kinds = <<>> THEN "report" ELSE "tools"
    BY <1>4, Zenon DEF PlanAnswered
  <2>2. IsPart(prompt', messages)
    BY <2>1, AsksPart
  <2>3. n \in Nat /\ DOMAIN kinds = 1 .. n /\ iterations + 1 \in Nat
    BY AgentLoopAssumption DEF IInv, Counts
  <2>4. ids \in Seq(Nat \X Nat) /\ DOMAIN ids = DOMAIN kinds
    BY <2>3
  <2>5. DOMAIN calls' = DOMAIN kinds /\ \A k \in DOMAIN calls' : calls'[k].id = ids[k]
    BY <2>1
  <2> HIDE DEF ids
  <2>6. msg \in Message /\ (kinds # <<>> => msg.kind = "toolUse" /\ msg.ids = ids)
    BY <2>4 DEF Plain, ToolUse, Message, Kinds
  <2> HIDE DEF msg
  <2>7. /\ messages \in Seq(Message) /\ WholeTo(messages, Len(messages))
        /\ TurnStarts(messages) # {}
    BY <1>1 DEF MessagesOK
  <2>8. /\ messages' \in Seq(Message) /\ Len(messages') = Len(messages) + 1
        /\ Len(messages) \in Nat /\ Len(messages) \in 0 .. Len(messages)
        /\ messages'[Len(messages) + 1] = msg
        /\ TurnStarts(messages') # {}
        /\ WholeTo(messages', Len(messages))
        /\ IsPart(prompt', messages')
    <3>1. /\ messages' \in Seq(Message) /\ Len(messages') = Len(messages) + 1
          /\ Len(messages) \in Nat /\ messages'[Len(messages) + 1] = msg
          /\ TurnStarts(messages) # {} => TurnStarts(messages') # {}
          /\ \A j \in 0 .. Len(messages) : WholeTo(messages, j) => WholeTo(messages', j)
          /\ \A part : IsPart(part, messages) => IsPart(part, messages')
      BY <2>1, <2>6, <2>7, AppendMessage, Zenon
    <3>2. Len(messages) \in 0 .. Len(messages)
      BY <3>1
    <3>3. IsPart(prompt', messages')
      BY <2>2, <3>1, Zenon
    <3> QED
      BY <2>7, <3>1, <3>2, <3>3
  <2>9. ASSUME kinds # <<>> PROVE Waiting(messages)'
    <3>1. Len(messages') - 1 = Len(messages) /\ Len(messages') >= 1
      BY <2>8
    <3> QED
      BY <2>4, <2>5, <2>6, <2>8, <2>9, <3>1 DEF Waiting
  <2> QED
    BY <2>1, <2>8, <2>9 DEF MessagesOK
<1> QED
  BY <1>2, <1>3, <1>4 DEF Plan

(* All results go back for the calls that were made, in their order.       *)
LEMMA GatherMessages ==
  ASSUME IInv, MessagesOK, Gather
  PROVE  MessagesOK'
<1>1. CASE ToolsFail
  <2>1. UNCHANGED <<messages, prompt>> /\ task' = "done"
    BY <1>1 DEF ToolsFail, state, Fail, Leave
  <2> QED
    BY <2>1 DEF MessagesOK
<1>2. ASSUME NEW size \in Sizes, ToolsDone(size) PROVE MessagesOK'
  <2> DEFINE ids == [k \in DOMAIN calls |-> calls[k].id]
             msg == ToolResult(ids, size)
             n == Len(messages)
  <2>1. /\ task = "tools" /\ task' = "plan" /\ messages' = Append(messages, msg)
        /\ UNCHANGED prompt
    BY <1>2 DEF ToolsDone, Running
  <2>2. messages \in Seq(Message) /\ Waiting(messages) /\ TurnStarts(messages) # {} /\ n \in Nat
    BY <2>1 DEF MessagesOK
  <2>3. messages[n] \in Message /\ n >= 1 /\ n \in DOMAIN messages
    BY <2>2 DEF Waiting
  <2>4. ids = messages[n].ids
    <3>1. messages[n].ids \in Seq(Nat \X Nat)
      BY <2>3 DEF Message
    <3>2. DOMAIN messages[n].ids = DOMAIN calls /\ \A k \in DOMAIN calls : messages[n].ids[k] = calls[k].id
      BY <2>2 DEF Waiting
    <3>3. messages[n].ids = [k \in DOMAIN messages[n].ids |-> messages[n].ids[k]]
      BY <3>1
    <3> QED
      BY <3>2, <3>3
  <2>5. msg \in Message /\ msg.kind = "toolResult" /\ msg.ids = messages[n].ids
    <3>1. messages[n].ids \in Seq(Nat \X Nat) /\ size \in Nat
      BY <2>3, AgentLoopAssumption DEF Message
    <3> HIDE DEF ids
    <3> QED
      BY <2>4, <3>1 DEF ToolResult, Message, Kinds
  <2> HIDE DEF msg, ids, n
  <2>6. /\ messages' \in Seq(Message) /\ Len(messages') = n + 1
        /\ messages'[n + 1] = msg /\ \A i \in DOMAIN messages : messages'[i] = messages[i]
        /\ TurnStarts(messages') # {}
        /\ WholeTo(messages, n - 1) => WholeTo(messages', n - 1)
        /\ \A part : IsPart(part, messages) => IsPart(part, messages')
    <3>1. /\ messages' \in Seq(Message) /\ Len(messages') = n + 1
          /\ messages'[n + 1] = msg /\ \A i \in DOMAIN messages : messages'[i] = messages[i]
          /\ TurnStarts(messages) # {} => TurnStarts(messages') # {}
          /\ \A j \in 0 .. n : WholeTo(messages, j) => WholeTo(messages', j)
          /\ \A part : IsPart(part, messages) => IsPart(part, messages')
      <4>1. messages \in Seq(Message) /\ msg \in Message /\ messages' = Append(messages, msg)
        BY <2>1, <2>2, <2>5
      <4>2. /\ messages' \in Seq(Message) /\ Len(messages') = Len(messages) + 1
            /\ Len(messages) \in Nat /\ messages'[Len(messages) + 1] = msg
            /\ \A i \in DOMAIN messages : messages'[i] = messages[i]
            /\ TurnStarts(messages) # {} => TurnStarts(messages') # {}
            /\ \A j \in 0 .. Len(messages) : WholeTo(messages, j) => WholeTo(messages', j)
            /\ \A part : IsPart(part, messages) => IsPart(part, messages')
        BY <4>1, AppendMessage, Zenon
      <4> QED
        BY <4>2 DEF n
    <3>2. n - 1 \in 0 .. n
      BY <2>2, <2>3
    <3> QED
      BY <2>2, <3>1, <3>2, Zenon
  <2>7. WholeTo(messages', n + 1)
    <3>1. WholeTo(messages', n - 1) /\ messages[n].kind = "toolUse"
      BY <2>2, <2>6 DEF Waiting, n
    <3>2. messages'[n] = messages[n] /\ messages'[n + 1] = msg
      BY <2>3, <2>6
    <3> SUFFICES ASSUME NEW i \in 1 .. n + 1
                 PROVE  /\ messages'[i].kind = "toolUse" =>
                             /\ i < n + 1
                             /\ messages'[i + 1].kind = "toolResult"
                             /\ messages'[i + 1].ids = messages'[i].ids
                        /\ messages'[i].kind = "toolResult" =>
                             i > 1 /\ messages'[i - 1].kind = "toolUse"
                        /\ messages'[i].kind \in {"user", "assistant"} => messages'[i].ids = <<>>
      BY DEF WholeTo
    <3>3. CASE i \in 1 .. n - 1
      <4>1. i < n - 1 => i < n + 1
        BY <2>2
      <4> QED
        BY <3>1, <3>3, <4>1 DEF WholeTo
    <3>4. CASE i = n
      BY <2>2, <2>5, <3>1, <3>2, <3>4
    <3>5. CASE i = n + 1
      <4>1. i - 1 = n /\ i > 1
        BY <2>2, <2>3, <3>5
      <4> QED
        BY <2>5, <3>1, <3>2, <3>5, <4>1
    <3> QED
      BY <2>2, <3>3, <3>4, <3>5
  <2> QED
    BY <2>1, <2>6, <2>7 DEF MessagesOK
<1> QED
  BY <1>1, <1>2 DEF Gather

(* Every other step leaves the messages alone. *)
LEMMA OtherMessages ==
  ASSUME IInv, MessagesOK,
         Call \/ ReportStart \/ ReportToken \/ Cancel \/ Reject \/ EventGen \/ Disconnect
  PROVE  MessagesOK'
<1>1. UNCHANGED <<messages, prompt>>
  BY DEF Call, StartCall, EndCall, SkillRaises, ReportStart, ReportToken, Cancel, Reject, EventGen,
         StartReading, CloseStream, Disconnect, state
<1>2. UNCHANGED task \/ task' \in {"tokens", "done"}
  BY DEF Call, StartCall, EndCall, SkillRaises, ReportStart, ReportToken, Cancel, Leave, Reject,
         EventGen, StartReading, CloseStream, Disconnect
<1>3. ASSUME task = "tools", task' = "tools" PROVE Waiting(messages)'
  <2>1. Waiting(messages)
    BY <1>3 DEF MessagesOK
  <2>2. DOMAIN calls' = DOMAIN calls /\ \A k \in DOMAIN calls : calls'[k].id = calls[k].id
    <3>1. CASE Call
      BY <3>1, CallKeepsIds DEF Call
    <3>2. CASE ~Call
      <4>1. UNCHANGED calls
        BY <1>3, <3>2 DEF ReportStart, ReportToken, Cancel, Leave, Reject, EventGen,
             StartReading, CloseStream, Disconnect, state
      <4> QED
        BY <4>1
    <3> QED
      BY <3>1, <3>2
  <2> QED
    BY <1>1, <2>1, <2>2 DEF Waiting, WholeTo
<1> QED
  BY <1>1, <1>2, <1>3 DEF MessagesOK

LEMMA StutterMessages == MessagesOK /\ UNCHANGED vars => MessagesOK'
<1> SUFFICES ASSUME MessagesOK, UNCHANGED vars PROVE MessagesOK'
  OBVIOUS
<1>1. UNCHANGED <<task, messages, prompt, calls>>
  BY DEF vars, state
<1>2. Waiting(messages) => Waiting(messages)'
  BY <1>1 DEF Waiting
<1> QED
  BY <1>1, <1>2 DEF MessagesOK

LEMMA NextMessages == IInv /\ MessagesOK /\ [Next]_vars => MessagesOK'
BY PostMessages, PlanMessages, GatherMessages, OtherMessages, StutterMessages
   DEF Next, RunAgent

(* For every window, budget and length of a conversation: what              *)
(* build_layered_prompt leaves of it never holds a tool call without its    *)
(* result or a result without its call, in the form for Anthropic and in    *)
(* the one convert_to_openai_format makes.                                  *)
THEOREM PromptValid == Spec => []PromptIsValid
BY InitIInv, InitMessages, NextIInv, NextMessages, MessagesOKValid, PTL DEF Spec

(* For every window and budget the prompt is the longest rest of the        *)
(* conversation, cut at a turn, that fits both.                             *)
THEOREM PromptLongest == Spec => PromptIsLongestFit
<1>1. ASSUME IInv, MessagesOK, [Next]_vars, prompt' # prompt
      PROVE  LongestFit(messages, prompt', layers')
  <2>1. Asks
    BY <1>1 DEF vars, state, Next, RunAgent, Plan, PlanFinished, PlanLimit, PlanFails, PlanAnswered,
         Call, StartCall, EndCall, SkillRaises, Gather, ToolsDone, ToolsFail, ReportStart,
         ReportToken, Cancel, Reject, EventGen, StartReading, CloseStream, Disconnect, Post
  <2>2. /\ messages \in Seq(Message) /\ TurnStarts(messages) # {}
        /\ prompt' = BuildLayeredPrompt(layers', messages)
    BY <1>1, <2>1 DEF Asks, Running, MessagesOK
  <2> QED
    BY <2>2, BuildIsLongestFit
<1>2. IInv /\ MessagesOK /\ [Next]_vars =>
        [prompt' # prompt => LongestFit(messages, prompt', layers')]_vars
  BY <1>1
<1> QED
  BY <1>2, InitIInv, InitMessages, NextIInv, NextMessages, PTL DEF Spec, PromptIsLongestFit
===============================================================================
