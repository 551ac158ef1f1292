---------------------------- MODULE MessageBlocks ----------------------------
(***************************************************************************)
(* The content blocks of Anthropic's Messages and the parts of Gemini's    *)
(* contents: what an answer of the upstream becomes, and what the client's *)
(* messages become when they are sent upstream (adapters/anthropic/messages *)
(* and adapters/gemini/generate), with the last step of both and of the    *)
(* OpenAI endpoints, MessagesForGLMModel.                                  *)
(*                                                                         *)
(* Texts, answers and chat messages are those of TurnItems.  A fragment of *)
(* a text is a sequence whose first element is its kind; a picture among   *)
(* the content of a message is a fragment of kind "image".  Arguments of a  *)
(* call that are JSON are one fragment, of a kind in Objects or of kind     *)
(* "array", which stands for every JSON value but objects and null.         *)
(***************************************************************************)
EXTENDS TurnItems

Text(text) == [type |-> "text", text |-> text]

\* Anthropic's thinking block, and Gemini's part with "thought": true.
Thinking(text) == [type |-> "thinking", text |-> text]

Image(fragment) == [type |-> "image", fragment |-> fragment]

\* tool_use, functionCall
ToolUse(call) == [type |-> "tool_use", call |-> call]

\* tool_result, functionResponse
ToolResult(id, output) == [type |-> "tool_result", call_id |-> id, output |-> output]

\* Objects: with an input alone, with an input among others, and without.
Objects == {"input", "mixed", "object"}

\* The kinds of JSON that an adapter takes for the input of a call as they are.
AnthropicKeeps == Objects \cup {"array"}
GeminiKeeps == Objects

\* Both protocols want an object: other arguments are wrapped in one.
AsObject(arguments, kept) ==
  IF arguments = <<>> THEN << <<"object">> >>
  ELSE IF arguments[1][1] \in kept THEN arguments
  ELSE AsInput(arguments)

\* ContentBlocksFromMessage, ContentFromMessage
ContentBlocks(answer, kept) ==
  LET blocks == OfText(answer.reasoning, Thinking(answer.reasoning))
                  \o OfText(answer.content, Text(answer.content))
                  \o [ n \in DOMAIN answer.calls |->
                         ToolUse([answer.calls[n] EXCEPT !.arguments = AsObject(@, kept)]) ]
  IN  IF blocks = <<>> THEN <<Text(<<>>)>> ELSE blocks

-----------------------------------------------------------------------------
(* The blocks of one message as chat messages.  Texts and pictures are       *)
(* gathered until a block comes that is a message of its own.                *)

SeqOps == INSTANCE SequencesExt

\* ContentToChatMessages of both adapters: Own is the message a block is, none if
\* it is gathered, and Part what is gathered of it.
Split(role, blocks, Own(_, _), Part(_, _)) ==
  LET Flushed(state) == state.messages \o OfText(state.parts, Said(role, state.parts, <<>>, <<>>))
      Take(state, block) ==
        IF Own(role, block) = <<>>
          THEN [state EXCEPT !.parts = @ \o Part(role, block)]
          ELSE [messages |-> Flushed(state) \o Own(role, block), parts |-> <<>>]
      messages == Flushed(SeqOps!FoldLeft(Take, [messages |-> <<>>, parts |-> <<>>], blocks))
  IN  IF messages = <<>> THEN <<Said(role, <<>>, <<>>, <<>>)>> ELSE messages

\* Each call is an assistant message of its own, and each result one of a tool.
ToolMessage(block) ==
  CASE block.type = "tool_use"    -> <<Said("assistant", <<>>, <<>>, <<block.call>>)>>
    [] block.type = "tool_result" -> <<[role |-> "tool", tool_call_id |-> block.call_id,
                                        content |-> block.output]>>
    [] OTHER -> <<>>

\* A picture that the role cannot have is described in words.
Shown(role, block) ==
  IF role = "user" THEN <<block.fragment>> ELSE << <<"description", block.fragment>> >>

\* What the assistant thought is left out.
AnthropicMutantForgetsThinking(role, block) == ToolMessage(block)

\* What the assistant thought is a message with nothing but reasoning_content.
AnthropicOwn(role, block) ==
  IF block.type = "thinking" /\ role = "assistant"
    THEN <<Said("assistant", <<>>, block.text, <<>>)>> ELSE ToolMessage(block)

AnthropicPart(role, block) ==
  CASE block.type = "text"  -> block.text
    [] block.type = "image" -> Shown(role, block)
    [] OTHER -> <<>>

AnthropicMessages(role, blocks) == Split(role, blocks, AnthropicOwn, AnthropicPart)

\* Gemini's parts with a text are text, those with "thought": true like the others.
GeminiOwn(role, part) == ToolMessage(part)

GeminiPart(role, part) ==
  CASE part.type \in {"text", "thinking"} -> part.text
    [] part.type = "image" -> Shown(role, part)
    [] OTHER -> <<>>

\* The client's id is not looked at.
WithIdMutantAlwaysNew(part, n) ==
  IF part.type = "tool_use" THEN [part EXCEPT !.call.id = <<0, n>>] ELSE part

\* The id is optional.  A call without one gets a new id, and its response none.
WithId(part, n) ==
  IF part.type = "tool_use" /\ part.call.id = <<>> THEN [part EXCEPT !.call.id = <<0, n>>]
                                                   ELSE part

GeminiMessages(role, parts) ==
  Split(role, [n \in DOMAIN parts |-> WithId(parts[n], n)], GeminiOwn, GeminiPart)

-----------------------------------------------------------------------------
(* The models.                                                               *)

IsImage(fragment) == fragment[1] = "image"

\* ContentForGLMModel: pictures are for models that see, and only the user has any.
\* For the other models a line in the text says that one was there.
ContentForGLMModel(content, role, supportsMultimodal) ==
  CASE role # "user"      -> SelectSeq(content, LAMBDA fragment : ~IsImage(fragment))
    [] supportsMultimodal -> content
    [] OTHER -> [ n \in DOMAIN content |->
                    IF IsImage(content[n]) THEN <<"image omitted">> ELSE content[n] ]

MessagesForGLMModel(messages, supportsMultimodal) ==
  [ n \in DOMAIN messages |->
      [messages[n] EXCEPT !.content = ContentForGLMModel(@, messages[n].role, supportsMultimodal)] ]
=============================================================================
