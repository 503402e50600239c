------------------------------- MODULE AgentLoop -------------------------------
(***************************************************************************)
(* One chat request (src/backend/src: app.py, agent/graph.py,              *)
(* agent/nodes.py, tools/base.py, skills/loader.py, safety/tool_guard.py): *)
(* the task that plans and calls tools in turn, the tool calls it gathers, *)
(* the events all of them put on the request's queue, and the generator    *)
(* that streams the queue to a client, which may go away.                  *)
(*                                                                         *)
(* What the model answers, what tools return and which of the two fails is *)
(* chosen freely.  Texts, costs and the contents of events are left out.   *)
(* The client has read some prefix of the stream up to its sentinel.  The  *)
(* graph library would raise for want of steps; NeverOutOfSteps says that  *)
(* it does not, so its raising is no action.                               *)
(***************************************************************************)
EXTENDS ContextBuilder, FiniteSets

CONSTANTS
  MaxIterations,  \* MAX_ITERATIONS
  RecursionLimit, \* steps the graph library runs before it raises
  Layers,         \* tokens the system layers may take
  Sizes,          \* tokens the results of tools may take; other messages take one
  MaxHistory,     \* bound: messages of a request
  MaxCalls,       \* bound: tool calls of an answer
  MaxPieces,      \* bound: pieces a report is streamed in
  None            \* absent value

ASSUME AgentLoopAssumption ==
  /\ MaxIterations \in Nat /\ RecursionLimit \in Nat
  /\ RecursionLimit >= 2 * MaxIterations + 1
  /\ Layers \subseteq Nat /\ Sizes \subseteq Nat
  /\ MaxHistory \in Nat /\ MaxCalls \in Nat /\ MaxPieces \in Nat

VARIABLES
  task,        \* run_agent: where it is
  consumer,    \* event_gen: where it is
  cancelled,   \* the task has been cancelled
  messages,    \* AgentState.messages
  calls,       \* pending_tool_calls and how far each is
  iterations,  \* AgentState.iterations
  report,      \* AgentState.final_report: None, "" or pieces it is sent in
  layers,      \* early_summary, user_profile, long_term_memory: None until read
  steps,       \* steps of the graph so far
  prompt,      \* messages of the last prompt
  stream       \* everything put on the queue

state == <<messages, calls, iterations, report, layers, steps, prompt>>
vars == <<task, consumer, cancelled, state, stream>>

-------------------------------------------------------------------------------
(* The request *)

Init ==
  /\ task = "none" /\ consumer = "none" /\ cancelled = FALSE
  /\ messages = <<>> /\ calls = <<>> /\ iterations = 0
  /\ report = None /\ layers = None /\ steps = 0
  /\ prompt = <<>> /\ stream = <<>>

Histories ==
  UNION {[1 .. n -> {Plain(role, 1) : role \in {"user", "assistant"}}] : n \in 1 .. MaxHistory}

(* POST /api/chat: the last message is the user's, within the rate limit   *)
(* and not blocked; the task and the generator are created.                *)
Post(history) ==
  /\ task = "none" /\ consumer = "none"
  /\ Last(history).kind = "user"
  /\ messages' = history
  /\ task' = "plan" /\ consumer' = "fresh"
  /\ UNCHANGED <<cancelled, calls, iterations, report, layers, steps, prompt, stream>>

(* 429 or 400: nothing is started. *)
Reject ==
  /\ task = "none" /\ consumer = "none"
  /\ consumer' = "closed"
  /\ UNCHANGED <<task, cancelled, state, stream>>

-------------------------------------------------------------------------------
(* Events *)

Event(name, id) == [event |-> name, id |-> id]

Sentinel == Event("None", None)

Put(events) == stream' = stream \o events

(* Mutant of Leave: only a run that ends well puts the sentinel. *)
LeaveSilently(events) ==
  /\ task' = "done"
  /\ Put(events \o IF events # <<>> /\ Last(events).event = "done" THEN <<Sentinel>> ELSE <<>>)

(* run_agent ends: its last event, and the sentinel of the finally clause. *)
Leave(events) ==
  /\ task' = "done"
  /\ Put(events \o <<Sentinel>>)

Fail == Leave(<<Event("error", None)>>)

Running(where) == task = where /\ ~cancelled

-------------------------------------------------------------------------------
(* plan_node *)

HasReport == report # None /\ report > 0

(* A skill has already written the report. *)
PlanFinished ==
  /\ Running("plan")
  /\ HasReport
  /\ steps' = steps + 1
  /\ calls' = <<>>
  /\ task' = "report"
  /\ UNCHANGED <<consumer, cancelled, messages, iterations, report, layers, prompt, stream>>

(* Mutant of OutOfIterations: rounds are not counted. *)
NeverOutOfIterations == FALSE

OutOfIterations == iterations >= MaxIterations

PlanLimit ==
  /\ Running("plan")
  /\ ~HasReport /\ OutOfIterations
  /\ steps' = steps + 1
  /\ report' = 1
  /\ calls' = <<>>
  /\ task' = "report"
  /\ UNCHANGED <<consumer, cancelled, messages, iterations, layers, prompt, stream>>

(* The memory layers are read once in a request; reads that fail leave     *)
(* their layers out.                                                       *)
ReadLayers ==
  IF layers = None THEN layers' \in Layers ELSE layers' = layers

Asks ==
  /\ Running("plan")
  /\ ~HasReport /\ ~OutOfIterations
  /\ ReadLayers
  /\ prompt' = BuildLayeredPrompt(layers', messages)

(* The model makes the calls, of the kinds in kinds, or answers with a     *)
(* text of that many pieces, or both, or neither.                          *)
PlanAnswered(kinds, pieces) ==
  LET ids == [k \in DOMAIN kinds |-> <<iterations + 1, k>>]
  IN  /\ Asks
      /\ steps' = steps + 1
      /\ iterations' = iterations + 1
      /\ messages' = Append(messages,
                            IF kinds = <<>> THEN Plain("assistant", 1) ELSE ToolUse(ids, 1))
      /\ calls' = [k \in DOMAIN kinds |->
                     [id |-> ids[k], kind |-> kinds[k], at |-> "queued", text |-> 0]]
      /\ report' = IF kinds = <<>> /\ pieces > 0 THEN pieces ELSE report
      /\ task' = IF kinds = <<>> THEN "report" ELSE "tools"
      /\ UNCHANGED <<consumer, cancelled, stream>>

(* The model, or parsing its arguments, raises. *)
PlanFails ==
  /\ Asks
  /\ Fail
  /\ UNCHANGED <<consumer, cancelled, messages, calls, iterations, report, steps>>

-------------------------------------------------------------------------------
(* call_tools_node: the calls of one answer run concurrently *)

Set(k, at) == calls' = [calls EXCEPT ![k].at = at]

(* The tasks of gather begin in the order of the calls; one outside the    *)
(* registry is answered at once.                                           *)
StartCall(k) ==
  /\ calls[k].at = "queued"
  /\ \A j \in 1 .. k - 1 : calls[j].at # "queued"
  /\ IF calls[k].kind = "other"
     THEN Set(k, "refused") /\ Put(<<Event("tool_blocked", calls[k].id)>>)
     ELSE Set(k, "running") /\ Put(<<Event("tool_start", calls[k].id)>>)
  /\ UNCHANGED <<task, consumer, cancelled, messages, iterations, report, layers, steps, prompt>>

(* A tool's exceptions become its result (ToolRegistry.call). *)
EndCall(k) ==
  /\ calls[k].at = "running"
  /\ \E pieces \in IF calls[k].kind = "skill" THEN 0 .. MaxPieces ELSE {0} :
       calls' = [calls EXCEPT ![k].at = "ended", ![k].text = pieces]
  /\ Put(<<Event("tool_end", calls[k].id)>>)
  /\ UNCHANGED <<task, consumer, cancelled, messages, iterations, report, layers, steps, prompt>>

(* A skill's do not. *)
SkillRaises(k) ==
  /\ calls[k].at = "running" /\ calls[k].kind = "skill"
  /\ Set(k, "raised")
  /\ UNCHANGED <<task, consumer, cancelled, messages, iterations, report, layers, steps, prompt,
                 stream>>

Ended(k) == calls[k].at \in {"ended", "refused"}

Skills == {k \in DOMAIN calls : calls[k].kind = "skill"}

(* Mutant of Gathered: the first result ends the wait. *)
GatheredFirst == \E k \in DOMAIN calls : Ended(k)

Gathered == \A k \in DOMAIN calls : Ended(k)

(* All results go back in one message, in the order of the calls; the text *)
(* of the first skill is the report.                                       *)
ToolsDone(size) ==
  /\ Running("tools")
  /\ Gathered
  /\ steps' = steps + 1
  /\ messages' = Append(messages, ToolResult([k \in DOMAIN calls |-> calls[k].id], size))
  /\ \/ Skills = {} /\ UNCHANGED report
     \/ \E first \in Skills :
          (\A k \in Skills : first <= k) /\ report' = calls[first].text
  /\ calls' = <<>>
  /\ task' = "plan"
  /\ UNCHANGED <<consumer, cancelled, iterations, layers, prompt, stream>>

(* gather raises the first exception; the other calls keep running.        *)
ToolsFail ==
  /\ Running("tools")
  /\ \E k \in DOMAIN calls : calls[k].at = "raised"
  /\ Fail
  /\ UNCHANGED <<consumer, cancelled, state>>

-------------------------------------------------------------------------------
(* The report *)

Pieces == IF report = None THEN 0 ELSE report

Token == Event("token", None)

(* Nothing waits between the start of a report and its first piece, nor    *)
(* between the last event and the sentinel.                                *)
ReportStart ==
  /\ Running("report")
  /\ IF Pieces = 0
     THEN Leave(<<Event("report_start", None), Event("done", None)>>)
     ELSE task' = "tokens" /\ Put(<<Event("report_start", None), Token>>)
  /\ UNCHANGED <<consumer, cancelled, state>>

Sent == Len(SelectSeq(stream, LAMBDA e : e = Token))

ReportToken ==
  /\ Running("tokens")
  /\ IF Sent < Pieces
     THEN Put(<<Token>>) /\ UNCHANGED task
     ELSE Leave(<<Event("done", None)>>)
  /\ UNCHANGED <<consumer, cancelled, state>>

-------------------------------------------------------------------------------
(* The client *)

StartReading ==
  /\ consumer = "fresh"
  /\ consumer' = "reading"
  /\ UNCHANGED <<task, cancelled, state, stream>>

Closed == Sentinel \in ToSet(stream)

(* The generator meets the sentinel and returns. *)
CloseStream ==
  /\ consumer = "reading" /\ Closed
  /\ consumer' = "closed"
  /\ UNCHANGED <<task, cancelled, state, stream>>

(* The client goes: a generator that has begun cancels a task that still   *)
(* runs, one that has not is dropped and the task goes on unread.          *)
Disconnect ==
  /\ consumer \in {"fresh", "reading"}
  /\ cancelled' = (consumer = "reading" /\ task # "done")
  /\ consumer' = "gone"
  /\ UNCHANGED <<task, state, stream>>

(* CancelledError is no Exception: no error event.  The calls gathered are *)
(* cancelled with the task.                                                *)
Cancel ==
  /\ cancelled /\ task # "done"
  /\ calls' = [k \in DOMAIN calls |->
                 IF calls[k].at \in {"queued", "running"}
                 THEN [calls[k] EXCEPT !.at = "cancelled"] ELSE calls[k]]
  /\ Leave(<<>>)
  /\ UNCHANGED <<consumer, cancelled, messages, iterations, report, layers, steps, prompt>>

-------------------------------------------------------------------------------
(* Specification *)

Plan ==
  \/ PlanFinished \/ PlanLimit \/ PlanFails
  \/ \E n \in 0 .. MaxCalls, pieces \in 0 .. MaxPieces :
       \E kinds \in [1 .. n -> {"tool", "skill", "other"}] : PlanAnswered(kinds, pieces)

Call == \E k \in DOMAIN calls : StartCall(k) \/ EndCall(k) \/ SkillRaises(k)

Gather == ToolsFail \/ \E size \in Sizes : ToolsDone(size)

RunAgent ==
  Plan \/ Gather \/ ReportStart \/ ReportToken \/ Cancel

EventGen == StartReading \/ CloseStream

Next ==
  \/ \E history \in Histories : Post(history)
  \/ Reject \/ RunAgent \/ Call \/ EventGen \/ Disconnect

Spec == Init /\ [][Next]_vars

(* The event loop runs every task that can run, the clients of the model   *)
(* and of the tools have timeouts, and the server drives a generator until *)
(* the client has gone.                                                    *)
Fairness == WF_vars(RunAgent) /\ WF_vars(Call) /\ WF_vars(EventGen)

FairSpec == Spec /\ Fairness

-------------------------------------------------------------------------------
(* Properties *)

CallKinds == {"tool", "skill", "other"}

CallStates == {"queued", "running", "ended", "refused", "raised", "cancelled"}

(* Types: what a request and its task are made of. *)
TypeOK ==
  /\ task \in {"none", "plan", "tools", "report", "tokens", "done"}
  /\ consumer \in {"none", "fresh", "reading", "closed", "gone"}
  /\ cancelled \in BOOLEAN
  /\ iterations \in 0 .. MaxIterations /\ steps \in Nat
  /\ report \in Nat \cup {None} /\ layers \in Nat \cup {None}
  /\ \A k \in DOMAIN calls :
       /\ calls[k].kind \in CallKinds /\ calls[k].at \in CallStates
       /\ calls[k].text \in Nat

(* "Otherwise both APIs reject the request": in the prompt every message of *)
(* tool calls is followed by the message that answers them, in order, no    *)
(* other message answers calls, and it begins with a turn unless nothing    *)
(* was cut off.                                                             *)
PairsAreWhole ==
  /\ \A i \in DOMAIN prompt :
       /\ prompt[i].kind = "toolUse" =>
            /\ i < Len(prompt)
            /\ prompt[i + 1].kind = "toolResult" /\ prompt[i + 1].ids = prompt[i].ids
       /\ prompt[i].kind = "toolResult" => i > 1 /\ prompt[i - 1].kind = "toolUse"
  /\ prompt = <<>> \/ IsTurnStart(prompt[1]) \/ IsPrefix(prompt, messages)

(* The same in the form for OpenAI: the calls of a message are answered by  *)
(* the tool messages that follow it, and those answer nothing else.         *)
ToolMessagesAnswer ==
  LET out == OpenAIMessages(prompt)
  IN  /\ \A i \in DOMAIN out : \A k \in DOMAIN out[i].ids :
           out[i].role = "assistant" =>
             /\ i + k <= Len(out)
             /\ out[i + k] = [role |-> "tool", ids |-> <<out[i].ids[k]>>]
      /\ \A i \in DOMAIN out : out[i].role = "tool" =>
           \E j \in 1 .. i - 1 :
             /\ out[j].role = "assistant" /\ i - j \in DOMAIN out[j].ids
             /\ out[i].ids = <<out[j].ids[i - j]>>

(* However long the loop runs and whatever is cut from the conversation,    *)
(* the model is never asked with half a tool round.                         *)
PromptIsValid == PairsAreWhole /\ ToolMessagesAnswer

(* What is left of the history after dropping whole turns from the front.   *)
Suffix(msgs, part) == Len(msgs) - Len(part) + 1

LongestFit(msgs, part, tokens) ==
  LET first       == Suffix(msgs, part)
      last        == Max(TurnStarts(msgs))
      InWindow(i) == WindowSize = 0 \/ Len(msgs) - i < 2 * WindowSize
      InRecent(i) == EstimateTokens(From(msgs, i)) <= RecentBudget
      InBudget(i) == InRecent(i) \/ ~OverBudget(tokens, From(msgs, i))
  IN  /\ part = From(msgs, first)
      /\ first \in {1} \cup TurnStarts(msgs) /\ first <= last
      /\ first = last \/ (InWindow(first) /\ InBudget(first))
      /\ \A i \in {1} \cup TurnStarts(msgs) : i < first => ~(InWindow(i) /\ InRecent(i))

(* "Drops whole conversation turns from the front" and "never drops the     *)
(* final in-flight turn": the prompt begins with a turn, holds the turn in  *)
(* flight, keeps to window and budget unless that turn alone does not, and  *)
(* leaves nothing out that fits both.                                       *)
PromptIsLongestFit == [][prompt' # prompt => LongestFit(messages, prompt', layers')]_vars

(* What the client can read. *)
Delivered ==
  IF Closed THEN SubSeq(stream, 1, Min({i \in DOMAIN stream : stream[i] = Sentinel}))
  ELSE stream

(* The stream is one the frontend can follow: a tool ends after it began,   *)
(* a report begins when every tool that began has ended and nothing of      *)
(* them comes after, and one done or error is the last event - also when a  *)
(* skill raises while other tools run on.  Only a cancelled task says       *)
(* nothing.                                                                 *)
StreamIsWellFormed ==
  LET At(name) == {i \in DOMAIN Delivered : Delivered[i].event = name}
      Same(i, j) == Delivered[i].id = Delivered[j].id
  IN  /\ \A i \in At("tool_end") : \E j \in At("tool_start") : j < i /\ Same(i, j)
      /\ \A r \in At("report_start"), i \in At("tool_start") :
           \E j \in At("tool_end") : i < j /\ j < r /\ Same(i, j)
      /\ Cardinality(At("report_start")) <= 1
      /\ \A i \in At("done") \cup At("error") : \A j \in DOMAIN Delivered : j > i => j \in At("None")
      /\ Closed /\ ~cancelled => At("done") \cup At("error") # {}

(* The limit of the loop comes before that of the graph library, so that a  *)
(* question that needs many rounds ends with the text for it and not with   *)
(* an exception.                                                            *)
NeverOutOfSteps == task \in {"plan", "tools"} => steps < RecursionLimit

(* Every request that was accepted ends, whatever fails and whenever the    *)
(* client goes: the task is over, and no client waits for a sentinel.       *)
EveryRequestEnds == task = "plan" ~> (task = "done" /\ consumer \in {"closed", "gone"})
===============================================================================
