----------------------------- MODULE TurnItems -----------------------------
(***************************************************************************)
(* The items of the Responses API that one answer of the upstream becomes, *)
(* and the chat messages that a list of items becomes again when a later   *)
(* request sends it upstream (internal/adapters/openai/responses).         *)
(*                                                                         *)
(* A text is the sequence of the fragments it came in, the empty sequence  *)
(* if it is empty.  An answer of the upstream is a record                  *)
(*   [reasoning |-> text, content |-> text, calls |-> <<call, ...>>]       *)
(* with calls [id |-> ..., arguments |-> text].  GLM knows only functions;  *)
(* a custom tool of the Responses API is sent to it as a function of one    *)
(* text, "input" (NormalizeCustomTool).  The ids that the server makes for  *)
(* the items themselves are left out; a turn is the value of                *)
(* _upstream_turn_id, 0 if the item has none.                              *)
(***************************************************************************)
EXTENDS Integers, Sequences

CONSTANTS
  IsCustom(_),   \* whether the tool that a call names was declared as a custom one
  InputIn(_)     \* the text under "input" in arguments, as ContentToText reads it, or
                 \* none: a set of one, or empty if they are no JSON object or hold no "input"

Reasoning(text) == [type |-> "reasoning", summary |-> text]

Message(role, content, reasoning, turn) ==
  [type |-> "message", role |-> role, content |-> content, reasoning |-> reasoning, turn |-> turn]

WithArguments(call, arguments) == [id |-> call.id, arguments |-> arguments]

\* What a custom tool is given: all of the arguments if they hold no input.
Input(arguments) ==
  IF InputIn(arguments) = {} THEN arguments ELSE CHOOSE text \in InputIn(arguments) : TRUE

\* The object that holds a text as its input, and nothing else.
AsInput(text) == << <<"input", text>> >>

\* UpstreamToolCallToResponseItem: the item of a custom tool has its input in place
\* of arguments.
CallItem(call, reasoning, turn) ==
  [ type      |-> IF IsCustom(call) THEN "custom_tool_call" ELSE "function_call",
    call      |-> IF IsCustom(call) THEN WithArguments(call, Input(call.arguments)) ELSE call,
    reasoning |-> reasoning, turn |-> turn ]

CallOutput(id, output) == [type |-> "function_call_output", call_id |-> id, output |-> output]

-----------------------------------------------------------------------------
(* From the upstream's answer to items.                                    *)

\* The item of a text that is there.
OfText(text, item) == IF text = <<>> THEN <<>> ELSE <<item>>

\* The reasoning of the turn rides on its first call.
CallItems(calls, reasoning, turn) ==
  [ n \in DOMAIN calls |-> CallItem(calls[n], IF n = 1 THEN reasoning ELSE <<>>, turn) ]

\* Every item of the turn is given the turn's reasoning and id, whether it has
\* calls or not.
OutputItemsMutantAlwaysTurn(answer, turn, textFirst) ==
  LET reasoning == OfText(answer.reasoning, Reasoning(answer.reasoning))
      message   == OfText(answer.content, Message("assistant", answer.content, <<>>, turn))
  IN  (IF textFirst THEN message \o reasoning ELSE reasoning \o message)
        \o CallItems(answer.calls, answer.reasoning, turn)

\* OutputItemsFromChatCompletion, with textFirst FALSE.  A stream makes the same
\* items, but when the text began before the reasoning, the message comes first.
OutputItems(answer, turn, textFirst) ==
  LET id        == IF answer.calls = <<>> THEN 0 ELSE turn
      reasoning == OfText(answer.reasoning, Reasoning(answer.reasoning))
      message   == OfText(answer.content, Message("assistant", answer.content, answer.reasoning, id))
  IN  (IF textFirst THEN message \o reasoning ELSE reasoning \o message)
        \o CallItems(answer.calls, answer.reasoning, id)

\* PublicItem: what a client is shown of an item.
PublicItem(item) ==
  IF "turn" \in DOMAIN item THEN [item EXCEPT !.turn = 0, !.reasoning = <<>>] ELSE item

PublicItems(items) == [n \in DOMAIN items |-> PublicItem(items[n])]

-----------------------------------------------------------------------------
(* From items to chat messages.                                            *)

Said(role, content, reasoning, calls) ==
  [role |-> role, content |-> content, reasoning |-> reasoning, calls |-> calls]

Answered(item) == [role |-> "tool", tool_call_id |-> item.call_id, content |-> item.output]

IsToolCallItem(item) == item.type \in {"function_call", "custom_tool_call"}

\* The input of a custom tool goes upstream without its object.
FunctionCallToToolCallMutantBare(item) == item.call

FunctionCallToToolCall(item) ==
  IF item.type = "custom_tool_call" THEN WithArguments(item.call, AsInput(item.call.arguments))
                                    ELSE item.call

\* The first of the texts that is there.
FirstText(texts) ==
  LET there == { n \in DOMAIN texts : texts[n] # <<>> }
  IN  IF there = {} THEN <<>> ELSE texts[CHOOSE n \in there : \A k \in there : n <= k]

\* AssistantToolCallMessage: the reasoning is the message's own, or else the
\* first that a call carries.
AssistantToolCallMessage(calls, content, reasoning) ==
  Said("assistant", content,
       FirstText(<<reasoning>> \o [n \in DOMAIN calls |-> calls[n].reasoning]),
       [n \in DOMAIN calls |-> FunctionCallToToolCall(calls[n])])

\* Calls join a message only if both have a turn, and the same one.
JoinsMutantStrict(item, candidate) ==
  IsToolCallItem(candidate) /\ item.turn # 0 /\ item.turn = candidate.turn

\* Whether a later item belongs to the assistant message that item begins.  A
\* message without a turn takes every call after it; a call without a turn takes
\* every call, and a call with one takes the calls without.
Joins(item, candidate) ==
  /\ IsToolCallItem(candidate)
  /\ item.turn # 0 =>
       \/ item.turn = candidate.turn
       \/ IsToolCallItem(item) /\ candidate.turn = 0

\* The place after the calls that join items[i]; j is scanned from i + 1.
AfterCalls(items, i) ==
  LET ends == { j \in (i + 1)..(Len(items) + 1) :
                  j = Len(items) + 1 \/ ~Joins(items[i], items[j]) }
  IN  CHOOSE j \in ends : \A k \in ends : j <= k

IsAssistant(item) == item.type = "message" /\ item.role = "assistant"

\* The place of the item that is looked at after items[i].
After(items, i) ==
  IF IsToolCallItem(items[i]) \/ IsAssistant(items[i]) THEN AfterCalls(items, i) ELSE i + 1

\* The message that items[i] becomes, with the calls that join it.  Items of
\* another type say nothing.
MessageAt(items, i) ==
  LET item  == items[i]
      calls == SubSeq(items, i + 1, After(items, i) - 1)
  IN  CASE IsToolCallItem(item) -> <<AssistantToolCallMessage(<<item>> \o calls, <<>>, <<>>)>>
        [] item.type = "message" ->
             <<IF calls = <<>> THEN Said(item.role, item.content, item.reasoning, <<>>)
               ELSE AssistantToolCallMessage(calls, item.content, item.reasoning)>>
        [] item.type = "function_call_output" -> <<Answered(item)>>
        [] OTHER -> <<>>

InputItemsToChatMessages(items) ==
  LET from[i \in 1..(Len(items) + 1)] ==
        IF i > Len(items) THEN <<>> ELSE MessageAt(items, i) \o from[After(items, i)]
  IN  from[1]
=============================================================================
