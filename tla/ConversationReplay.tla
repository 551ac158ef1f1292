------------------------- MODULE ConversationReplay -------------------------
(***************************************************************************)
(* A conversation over several requests: the client brings items, the      *)
(* upstream answers, the answer is stored as items, and the next request   *)
(* turns all the items so far back into the chat messages that GLM sees    *)
(* (Prepare and InputItemsToChatMessages of adapters/openai/responses).    *)
(* What GLM sees should be the conversation that it had.                   *)
(*                                                                         *)
(* Two clients are followed at once: one leaves the history to the server, *)
(* which keeps the private fields _upstream_turn_id and                    *)
(* _upstream_reasoning_content, and one with "store": false sends back the *)
(* items it was shown, from which they were removed.  Two more clients have *)
(* the same conversation with the Anthropic and the Gemini endpoint, which *)
(* store nothing: they keep the blocks they were shown.                    *)
(***************************************************************************)
EXTENDS MessageBlocks, FiniteSets

CONSTANTS
  MaxCalls,      \* bound: the tool calls of one answer
  MaxSteps,      \* bound: what is said in one conversation
  Arguments(_, _) \* GLM's arguments for the n-th call of a step: whatever it likes

ASSUME ReplayAssumption == MaxCalls \in Nat /\ MaxSteps \in Nat

VARIABLES
  history,       \* what was said, in order
  items          \* the items of the conversation as the server stores them

replayVars == <<history, items>>

Now == Len(history) + 1

\* Fragments and ids are told apart by the step that brought them.
Texts(tag) == {<<>>, << <<tag, Now>> >>}

CallsOf(count) == [ n \in 1..count |-> [id |-> <<Now, n>>, arguments |-> Arguments(Now, n)] ]

Answers ==
  [ reasoning : Texts("reasoning"), content : Texts("content"),
    calls : { CallsOf(count) : count \in 0..MaxCalls } ]

ReplayInit == history = <<>> /\ items = <<>>

Record(entry, new) ==
  /\ Len(history) < MaxSteps
  /\ history' = Append(history, entry)
  /\ items' = items \o new

\* A message among the input items of a request, with a picture or without.
UserSays ==
  \E content \in { << <<"user", Now>> >>, << <<"user", Now>>, <<"image", Now>> >> } :
    LET message == Message("user", content, <<>>, 0)
    IN  Record([by |-> "client", item |-> message], <<message>>)

\* The result of a call among the input items of a request.
ToolAnswers ==
  \E id \in UNION { {history[s].answer.calls[n].id : n \in DOMAIN history[s].answer.calls} :
                     s \in {k \in DOMAIN history : history[k].by = "upstream"} } :
    LET output == CallOutput(id, << <<"result", Now>> >>)
    IN  Record([by |-> "client", item |-> output], <<output>>)

\* The upstream answers, in one piece or streamed; only a stream can bring text
\* before reasoning.  A request may follow another without bringing an item.
UpstreamAnswers ==
  \E answer \in Answers, textFirst \in BOOLEAN :
    /\ textFirst => answer.reasoning # <<>> /\ answer.content # <<>>
    /\ Record([by |-> "upstream", answer |-> answer, textFirst |-> textFirst],
              OutputItems(answer, Now, textFirst))

ReplayNext == UserSays \/ ToolAnswers \/ UpstreamAnswers

ReplaySpec == ReplayInit /\ [][ReplayNext]_replayVars

-----------------------------------------------------------------------------

ItemsOf(n) ==
  IF history[n].by = "client" THEN <<history[n].item>>
  ELSE OutputItems(history[n].answer, n, history[n].textFirst)

\* GLM kept to the schema it was given for a custom tool.
KeepsToSchema(call) == call.arguments = AsInput(Input(call.arguments))

\* How a call may be repeated to GLM: as it was, unless it went outside the schema
\* of a custom tool; then as the call of that tool with the text that was run.
Repeated(call) ==
  IF IsCustom(call) /\ ~KeepsToSchema(call)
    THEN WithArguments(call, AsInput(Input(call.arguments))) ELSE call

RepeatedCalls(calls) == [n \in DOMAIN calls |-> Repeated(calls[n])]

\* The chat message an answer is: nothing, if it only reasoned.
Spoken(answer) ==
  IF answer.content = <<>> /\ answer.calls = <<>> THEN <<>>
  ELSE <<Said("assistant", answer.content, answer.reasoning, RepeatedCalls(answer.calls))>>

SpokenAt(n) ==
  IF history[n].by = "upstream" THEN Spoken(history[n].answer)
  ELSE InputItemsToChatMessages(<<history[n].item>>)

Conversation == SeqOps!FlattenSeq([n \in DOMAIN history |-> SpokenAt(n)])

\* What a client without private fields can still be asked to say again.
WithoutReasoning(messages) ==
  [ n \in DOMAIN messages |->
      IF messages[n].role = "assistant" THEN [messages[n] EXCEPT !.reasoning = <<>>]
                                        ELSE messages[n] ]

IsAnswer(n) == history[n].by = "upstream"

\* A streamed answer with its reasoning between its text and its calls.
Torn(n) == IsAnswer(n) /\ history[n].textFirst /\ history[n].answer.calls # <<>>

CallsOnly(n) == IsAnswer(n) /\ ItemsOf(n) # <<>> /\ IsToolCallItem(ItemsOf(n)[1])

\* The item that comes right before those of step n, as a sequence.
ItemBefore(n) ==
  LET before == SeqOps!FlattenSeq([k \in 1..(n - 1) |-> ItemsOf(k)])
  IN  IF before = <<>> THEN <<>> ELSE <<before[Len(before)]>>

\* The items of an answer are told from those of the answer before it: it does
\* not consist of calls alone, or what comes before them is a client's item, a
\* reasoning, or (when turns are kept) an item of another turn.
Apart(n, turnsKept) ==
  CallsOnly(n) => \A k \in DOMAIN ItemBefore(n) :
    LET item == ItemBefore(n)[k]
    IN  ~(IsAssistant(item) \/ IsToolCallItem(item)) \/ (turnsKept /\ item.turn # 0)

Replayable(turnsKept) == \A n \in DOMAIN history : ~Torn(n) /\ Apart(n, turnsKept)

\* GLM is shown the conversation it had: every answer is one message again, with
\* its text, its reasoning and its calls in their order, and none takes a call
\* or a reasoning that belongs to another, whatever came between the answers
\* (InputItemsToChatMessages over stored context).  Torn answers, and calls
\* alone right after a text alone, are the exceptions.  A call has the arguments
\* that GLM gave it, although an item of a custom tool holds only its input; if they
\* were not what the tool asked for, GLM sees the text that the tool was given.
StoredReplayIsConversation ==
  Replayable(TRUE) => InputItemsToChatMessages(items) = Conversation

\* The client that keeps its own history from public items gets the same
\* messages but for their reasoning, as long as it brings an item of its own
\* between an answer and one that is calls alone.
PublicReplayIsConversation ==
  Replayable(FALSE) =>
    InputItemsToChatMessages(PublicItems(items)) = WithoutReasoning(Conversation)

-----------------------------------------------------------------------------
(* The clients that are shown blocks.                                        *)

\* The messages for a model that cannot see the user's pictures, but is told of each.
Blind(messages) ==
  [ n \in DOMAIN messages |->
      [messages[n] EXCEPT !.content =
         [k \in DOMAIN @ |-> IF IsImage(@[k]) THEN <<"image omitted">> ELSE @[k]]] ]

\* A model is sent the messages that were had, as it can see them.
Reaches(messages, had) ==
  /\ MessagesForGLMModel(messages, TRUE) = had
  /\ MessagesForGLMModel(messages, FALSE) = Blind(had)

\* The blocks of step n, of a client that keeps the ids of calls or leaves them out,
\* with arguments of the kinds in kept left as they are.
BlocksOf(n, keepsIds, kept) ==
  LET Kept(id) == IF keepsIds THEN id ELSE <<>>
      entry == history[n]
  IN  IF entry.by = "upstream"
        THEN LET blocks == ContentBlocks(entry.answer, kept)
             IN  [ k \in DOMAIN blocks |-> IF blocks[k].type = "tool_use"
                                             THEN [blocks[k] EXCEPT !.call.id = Kept(@)]
                                             ELSE blocks[k] ]
      ELSE IF entry.item.type = "message"
        THEN [ k \in DOMAIN entry.item.content |->
                 IF IsImage(entry.item.content[k]) THEN Image(entry.item.content[k])
                                                   ELSE Text(<<entry.item.content[k]>>) ]
      ELSE <<ToolResult(Kept(entry.item.call_id), entry.item.output)>>

\* The messages the client sends: what one side said without the other speaking
\* in between is one message.
Grouped(keepsIds, kept) ==
  LET Role(n) == IF IsAnswer(n) THEN "assistant" ELSE "user"
      Take(messages, n) ==
        IF messages # <<>> /\ messages[Len(messages)].role = Role(n)
          THEN [messages EXCEPT ![Len(messages)].blocks = @ \o BlocksOf(n, keepsIds, kept)]
          ELSE Append(messages, [role |-> Role(n), blocks |-> BlocksOf(n, keepsIds, kept)])
  IN  SeqOps!FoldLeftDomain(Take, <<>>, history)

\* What the upstream is sent for them.
SentBy(Messages(_, _), keepsIds, kept) ==
  LET sent == Grouped(keepsIds, kept)
  IN  SeqOps!FlattenSeq([n \in DOMAIN sent |-> Messages(sent[n].role, sent[n].blocks)])

\* Messages of one role that follow each other, as one; those of tools stay apart.
Joined(messages) ==
  LET Together(m, n) ==
        IF m.role = "assistant"
          THEN Said(m.role, m.content \o n.content, m.reasoning \o n.reasoning, m.calls \o n.calls)
          ELSE Said(m.role, m.content \o n.content, <<>>, <<>>)
      Take(done, message) ==
        IF done # <<>> /\ done[Len(done)].role = message.role /\ message.role # "tool"
          THEN [done EXCEPT ![Len(done)] = Together(@, message)]
          ELSE Append(done, message)
  IN  SeqOps!FoldLeft(Take, <<>>, messages)

WithObjects(calls, kept) ==
  [n \in DOMAIN calls |-> WithArguments(calls[n], AsObject(calls[n].arguments, kept))]

\* The conversation with each answer as one message, made by Answer.
Had(Answer(_)) ==
  SeqOps!FlattenSeq([ n \in DOMAIN history |->
                        IF IsAnswer(n) THEN <<Answer(history[n].answer)>> ELSE SpokenAt(n) ])

AnthropicAnswer(answer) ==
  Said("assistant", answer.content, answer.reasoning, WithObjects(answer.calls, AnthropicKeeps))

GeminiAnswer(answer) ==
  Said("assistant", answer.reasoning \o answer.content, <<>>,
       WithObjects(answer.calls, GeminiKeeps))

WithoutIds(messages) ==
  [ n \in DOMAIN messages |->
      IF messages[n].role = "tool" THEN [messages[n] EXCEPT !.tool_call_id = <<>>]
      ELSE [messages[n] EXCEPT !.calls = [k \in DOMAIN @ |-> [@[k] EXCEPT !.id = <<>>]]] ]

\* An Anthropic client brings back everything that was said, thinking and pictures
\* included, in its order and with the ids that link results to calls, however the
\* texts, calls and results of one side are put together into messages; although
\* each answer comes back as several messages (ContentToChatMessages).
AnthropicReplayIsConversation ==
  Reaches(Joined(SentBy(AnthropicMessages, TRUE, AnthropicKeeps)), Joined(Had(AnthropicAnswer)))

\* The same of a Gemini client, but for two things: what the model thought comes
\* back as text that it said, and a client that leaves out the optional ids loses
\* the link between results and calls.
GeminiReplayIsConversation ==
  LET had == Joined(Had(GeminiAnswer))
  IN  /\ Reaches(Joined(SentBy(GeminiMessages, TRUE, GeminiKeeps)), had)
      /\ Reaches(WithoutIds(Joined(SentBy(GeminiMessages, FALSE, GeminiKeeps))), WithoutIds(had))
=============================================================================
