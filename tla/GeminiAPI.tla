----------------------------- MODULE GeminiAPI -----------------------------
(***************************************************************************)
(* generateContent and streamGenerateContent (handleGeminiModels of        *)
(* internal/httpapi/router.go, streamGeminiContent of sse_gemini.go) on    *)
(* the upstream call of GLMClient.  Unlike its siblings this stream keeps  *)
(* nothing between two chunks: each is converted as if it were an answer.  *)
(***************************************************************************)
EXTENDS GLMClient

VARIABLES
  pc,            \* "serving" until the handler has returned
  connected,     \* the client is still there
  told           \* what it got

vars == <<clientVars, pc, connected, told>>

Init == ClientInit /\ pc = "serving" /\ connected = TRUE /\ told = <<>>

Part(kind, id, of) == [kind |-> kind, id |-> id, of |-> of]

None == -1

\* The calls that began before: the upstream names a call in its first fragment.
Begun(n) == UNION { sent[k].calls : k \in DOMAIN sent \cap 1..(n - 1) }

FunctionCalls(chunk, n) ==
  LET nth(k) == CHOOSE i \in chunk.calls : Cardinality({ j \in chunk.calls : j < i }) = k - 1
  IN  [ k \in 1..Cardinality(chunk.calls) |->
          Part("functionCall", IF nth(k) \in Begun(n) THEN None ELSE nth(k), <<n>>) ]

\* Text beside reasoning is left out.
ContentMutantThoughtOnly(chunk, n) ==
  (IF chunk.reasoning THEN <<Part("thought", None, <<n>>)>>
   ELSE IF chunk.content THEN <<Part("text", None, <<n>>)>> ELSE <<>>)
     \o FunctionCalls(chunk, n)

\* ContentFromMessage.  A piece is the number of the chunk it came in.  The
\* arguments of a fragment become an object of their own, {"input": piece} if
\* they are none; an id that did not come is null.  No parts are one empty text.
ContentFromMessage(chunk, n) ==
  LET parts == (IF chunk.reasoning THEN <<Part("thought", None, <<n>>)>> ELSE <<>>)
                 \o (IF chunk.content THEN <<Part("text", None, <<n>>)>> ELSE <<>>)
                 \o FunctionCalls(chunk, n)
  IN  IF parts = <<>> THEN <<Part("text", None, <<>>)>> ELSE parts

FinishReason(finish) ==
  CASE finish \in {"stop", "", "tool_calls"} -> "STOP"
    [] finish = "length" -> "MAX_TOKENS"
    [] finish = "content_filter" -> "SAFETY"

Told(parts, finish, error) == [parts |-> parts, finish |-> finish, error |-> error]

\* StreamChunkFromUpstream and ResponseFromUpstream.  A chunk without choices,
\* such as one with an error object, is told like an empty one.
Content(chunk, n) == Told(ContentFromMessage(chunk, n), FinishReason(chunk.finish), "")

ErrorType(code) ==
  CASE code = 401 -> "authentication_error"
    [] code >= 500 -> "server_error"
    [] OTHER -> "invalid_request_error"

Error(code) == Told(<<>>, "", ErrorType(code))

Tell(new) == told' = IF connected THEN Append(told, new) ELSE told

-----------------------------------------------------------------------------

Proceed == pc = "serving" /\ CallProceeds /\ UNCHANGED <<pc, connected, told>>

\* The callback of streamGeminiContent: one event per chunk.
HandleChunk(chunk) ==
  /\ pc = "serving"
  /\ ScanChunk(chunk, connected)
  /\ Tell(Content(chunk, Len(sent) + 1))
  /\ UNCHANGED <<pc, connected>>

GetAnswer(chunk) ==
  /\ pc = "serving"
  /\ ReadAnswer(chunk)
  /\ UNCHANGED <<pc, connected, told>>

Chunked == \E chunk \in Chunks : HandleChunk(chunk)

Answered == \E chunk \in Chunks : GetAnswer(chunk)

\* The handler is left: with the error if there is one, otherwise with the answer,
\* which a stream has told already; nothing marks its end.
HandlerReturns ==
  /\ pc = "serving" /\ state \in {"ended", "failed"}
  /\ pc' = "returned"
  /\ IF state = "failed" THEN Tell(Error(status))
     ELSE IF streaming THEN UNCHANGED told
     ELSE Tell(Content(sent[1], 1))
  /\ UNCHANGED <<clientVars, connected>>

ClientLeaves ==
  /\ connected /\ pc = "serving"
  /\ connected' = FALSE
  /\ UNCHANGED <<clientVars, pc, told>>

Next == Proceed \/ Chunked \/ Answered \/ HandlerReturns \/ ClientLeaves

Spec == Init /\ [][Next]_vars

-----------------------------------------------------------------------------

Served == pc = "returned" /\ connected

SeqX == INSTANCE SequencesExt

AllParts == SeqX!FlattenSeq([ n \in DOMAIN told |-> told[n].parts ])

\* The pieces in the parts of a kind, end to end.
PutBy(part, kind) == IF part.kind = kind THEN part.of ELSE <<>>

Put(kind) ==
  LET parts == AllParts
  IN  SeqX!FlattenSeq([ n \in DOMAIN parts |-> PutBy(parts[n], kind) ])

\* What a Gemini client puts together from the parts it was told is what the
\* upstream said, in order and once: the thoughts, the text, and every call that
\* came in one fragment, under its id.  Fragments of one call come as calls of
\* their own; they can be put together if it is the only call.  The reason why
\* the answer stopped is among those told, though "STOP" comes with every chunk.
PartsAreTheAnswer ==
  Served /\ ~wrong =>
    /\ Put("thought") = Call!Answer.reasoning
    /\ Put("text") = Call!Answer.content
    /\ \A n \in DOMAIN Call!Answer.calls :
         LET call == Call!Answer.calls[n]
         IN  /\ Len(call.arguments) = 1 =>
                  \E p \in DOMAIN AllParts : AllParts[p] = Part("functionCall", call.id, call.arguments)
             /\ Len(Call!Answer.calls) = 1 => Put("functionCall") = call.arguments
    /\ sent # <<>> => \E n \in DOMAIN told : told[n].finish = FinishReason(Call!FinishReason)

\* A client that stays learns whether its answer is whole: if anything went wrong
\* on the way, from the key to the last line, the last thing it is told is an
\* error, and it is told of no error otherwise.
FailureIsTold ==
  Served =>
    /\ wrong => told # <<>> /\ told[Len(told)].error # ""
    /\ \A n \in DOMAIN told : told[n].error # "" => wrong /\ n = Len(told)

\* The lines make the call that StreamChat describes and the other streaming
\* handlers are modelled on: chunks in order, then one end, and nothing after it.
ImplementsStreamChat == Call!StreamSpec
=============================================================================
