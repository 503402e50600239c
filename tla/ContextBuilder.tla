---------------------------- MODULE ContextBuilder ----------------------------
(***************************************************************************)
(* The layered prompt of the agent (src/backend/src/agent:                 *)
(* context_builder.py, prompts.py build_context_sections; infra/llm.py     *)
(* convert_to_openai_format): which messages of a conversation reach the   *)
(* model, and in which form.                                               *)
(*                                                                         *)
(* A message is its kind, the ids of the tool calls it makes or answers    *)
(* and its estimated tokens; texts, and how tokens are estimated from      *)
(* them, are left out.  Layers L0-L4 only matter by their tokens.          *)
(***************************************************************************)
EXTENDS Integers, Sequences, SequencesExt

CONSTANTS
  WindowSize,   \* memory_window_size, in rounds; 0 keeps everything
  TotalBudget,  \* context_total_budget, in tokens; 0 turns the budget off
  RecentBudget  \* CONTEXT_BUDGET["recent_messages"]

ASSUME ContextBuilderAssumption ==
  /\ WindowSize \in Nat
  /\ TotalBudget \in Int
  /\ RecentBudget \in Nat \ {0}

-------------------------------------------------------------------------------
(* Messages *)

Plain(role, size) == [kind |-> role, ids |-> <<>>, size |-> size]

ToolUse(ids, size) == [kind |-> "toolUse", ids |-> ids, size |-> size]

ToolResult(ids, size) == [kind |-> "toolResult", ids |-> ids, size |-> size]

(* A user message without tool results. *)
IsTurnStart(msg) == msg.kind = "user"

TurnStarts(msgs) == {i \in DOMAIN msgs : IsTurnStart(msgs[i])}

(* Layers are never estimated at zero tokens. *)
EstimateTokens(msgs) ==
  LET total == FoldLeft(LAMBDA sum, msg : sum + msg.size, 0, msgs)
  IN  Max({1, total})

From(msgs, i) == SubSeq(msgs, i, Len(msgs))

-------------------------------------------------------------------------------
(* L5: the recent messages *)

(* Mutant of WindowMessages: the newest messages, wherever that cuts. *)
WindowCutAnywhere(msgs, maxMsgs) ==
  IF maxMsgs <= 0 \/ Len(msgs) <= maxMsgs THEN msgs
  ELSE From(msgs, Len(msgs) - maxMsgs + 1)

(* The newest maxMsgs messages from the next turn on, or from the turn the  *)
(* cut falls in when no other begins after it.                              *)
WindowMessages(msgs, maxMsgs) ==
  LET cut   == Len(msgs) - maxMsgs
      later == {i \in TurnStarts(msgs) : i > cut}
  IN  CASE maxMsgs <= 0 \/ cut <= 0 -> msgs
        [] OTHER ->
             IF later # {} THEN From(msgs, Min(later))
             ELSE IF TurnStarts(msgs) # {} THEN From(msgs, Max(TurnStarts(msgs)))
             ELSE msgs

(* Mutant of NextTurn: every message may begin what is kept. *)
NextMessage(msgs, i) == {j \in DOMAIN msgs : j > i}

(* _next_turn_start after the i-th message: the turns a truncation may     *)
(* continue at, empty when only the turn in flight is left.                *)
NextTurn(msgs, i) == {j \in TurnStarts(msgs) : j > i}

(* Whole turns are dropped from the front until the rest fits; the last    *)
(* one is never dropped.                                                   *)
TruncateLayer(msgs, target) ==
  LET start[i \in 1 .. Len(msgs) + 1] ==
        IF EstimateTokens(From(msgs, i)) <= target \/ NextTurn(msgs, i) = {}
        THEN i
        ELSE start[Min(NextTurn(msgs, i))]
  IN  From(msgs, start[1])

(* build_context_sections: the window is counted in rounds of two. *)
RecentMessages(msgs) ==
  IF WindowSize > 0 THEN WindowMessages(msgs, WindowSize * 2) ELSE msgs

-------------------------------------------------------------------------------
(* The prompt *)

OverBudget(layers, msgs) ==
  TotalBudget > 0 /\ layers + EstimateTokens(msgs) > TotalBudget

(* build_layered_prompt, for system layers of that many tokens.  No caller *)
(* makes an L6 section, so only L5 is ever cut.                            *)
BuildLayeredPrompt(layers, msgs) ==
  LET recent == RecentMessages(msgs)
  IN  IF OverBudget(layers, recent) THEN TruncateLayer(recent, RecentBudget) ELSE recent

OpenAI(role, ids) == [role |-> role, ids |-> ids]

(* A message becomes one tool message per result, and the user message     *)
(* that carried them stays behind, empty; system messages go.              *)
Converted(msg) ==
  CASE msg.kind = "system" -> <<>>
    [] msg.kind = "toolResult" ->
         [k \in DOMAIN msg.ids |-> OpenAI("tool", <<msg.ids[k]>>)] \o <<OpenAI("user", <<>>)>>
    [] msg.kind = "user" -> <<OpenAI("user", <<>>)>>
    [] OTHER -> <<OpenAI("assistant", msg.ids)>>

(* convert_to_openai_format *)
OpenAIMessages(msgs) ==
  LET out[n \in 0 .. Len(msgs)] ==
        IF n = 0 THEN <<>> ELSE out[n - 1] \o Converted(msgs[n])
  IN  out[Len(msgs)]
===============================================================================
