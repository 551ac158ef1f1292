--------------------------- MODULE AnthropicStream ---------------------------
(***************************************************************************)
(* The streaming handler of POST /v1/messages (streamAnthropicMessage of   *)
(* internal/httpapi/sse_anthropic.go): the chunks of the upstream become   *)
(* content blocks of the Anthropic protocol, "thinking", "text" and one    *)
(* "tool_use" per call.  It is the Responses handler's sibling with rules  *)
(* of its own for where a block goes and for why the message stopped.      *)
(*                                                                         *)
(* Events are recorded as the client gets them, each with the index of the *)
(* block it is about and what it puts there: a piece of text, or the call. *)
(***************************************************************************)
EXTENDS StreamChat

VARIABLES
  pc,            \* where the handler is
  connected,     \* the client is still there
  events,        \* the events it got
  local          \* the variables of streamAnthropicMessage

vars == <<streamVars, pc, connected, events, local>>

Event(what, kind, index, puts) == [what |-> what, kind |-> kind, index |-> index, puts |-> puts]

Plain(what, puts) == Event(what, "", -1, puts)

Init ==
  /\ StreamInit
  /\ pc = "start"
  /\ connected = TRUE
  /\ events = <<>>
  /\ local = [ thinkingStarted |-> FALSE, textStarted |-> FALSE, textIndex |-> 0,
               stopReason |-> "end_turn", toolCalls |-> [i \in {} |-> NoCall] ]

Write(new) == events' = IF connected THEN events \o new ELSE events

Start ==
  /\ pc = "start"
  /\ Write(<<Plain("message_start", <<>>)>>)
  /\ pc' = IF connected THEN "stream" ELSE "closed"
  /\ UNCHANGED <<streamVars, connected, local>>

-----------------------------------------------------------------------------

\* StopReason(finish, nil)
FinishToStop(finish) ==
  CASE finish = "length" -> "max_tokens"
    [] finish = "tool_calls" -> "tool_use"
    [] finish \in {"stop", ""} -> "end_turn"
    [] OTHER -> finish

\* StopReason(finish, blocks) of an answer in one piece: calls come first.
StopReason(finish, calls) == IF calls # <<>> THEN "tool_use" ELSE FinishToStop(finish)

\* Tool calls do not change the stop reason.
StopAfterMutantFinishOnly(stop, chunk) ==
  IF chunk.finish # "" THEN FinishToStop(chunk.finish) ELSE stop

\* A finish_reason sets the stop reason, and then calls in the same chunk do.  (An
\* empty list of calls would too; GLM sends none, and no chunk here has one.)
StopAfter(stop, chunk) ==
  IF chunk.calls # {} THEN "tool_use"
  ELSE IF chunk.finish # "" THEN FinishToStop(chunk.finish)
  ELSE stop

\* The text block keeps index 0 when thinking has begun.
TextIndexMutantZero(chunk) == 0

\* textIndex is 1 from the first reasoning on, even if text has begun at 0.
TextIndex(chunk) ==
  IF chunk.reasoning /\ ~local.thinkingStarted THEN 1 ELSE local.textIndex

Begin(begun, kind, index) == IF begun THEN <<>> ELSE <<Event("start", kind, index, <<>>)>>

Handle(chunk) ==
  LET n == Len(chunks) + 1
      new == (IF chunk.reasoning
                THEN Begin(local.thinkingStarted, "thinking", 0) \o <<Event("delta", "thinking", 0, <<n>>)>>
                ELSE <<>>)
          \o (IF chunk.content
                THEN Begin(local.textStarted, "text", TextIndex(chunk))
                       \o <<Event("delta", "text", TextIndex(chunk), <<n>>)>>
                ELSE <<>>)
  IN  /\ pc = "stream"
      /\ NextChunk(chunk, connected \/ new = <<>>)
      /\ local' = [ thinkingStarted |-> local.thinkingStarted \/ chunk.reasoning,
                    textStarted |-> local.textStarted \/ chunk.content,
                    textIndex |-> TextIndex(chunk),
                    stopReason |-> StopAfter(local.stopReason, chunk),
                    toolCalls |-> MergeCalls(local.toolCalls, chunk.calls, n) ]
      /\ Write(new)
      /\ UNCHANGED <<pc, connected>>

UpstreamEnds ==
  /\ pc = "stream"
  /\ EndOfStream \/ StreamBreaks
  /\ UNCHANGED <<pc, connected, events, local>>

Fail ==
  /\ pc = "stream" /\ upstream = "failed"
  /\ Write(<<Plain("error", <<>>)>>)
  /\ pc' = "closed"
  /\ UNCHANGED <<streamVars, connected, local>>

-----------------------------------------------------------------------------

Stops ==
  (IF local.thinkingStarted THEN <<Event("stop", "thinking", 0, <<>>)>> ELSE <<>>)
    \o (IF local.textStarted THEN <<Event("stop", "text", local.textIndex, <<>>)>> ELSE <<>>)

\* nextIndex: as many blocks as have begun.
NextIndex == Cardinality({ started \in {<<"thinking", local.thinkingStarted>>,
                                        <<"text", local.textStarted>>} : started[2] })

\* Each call is one block, started whole and stopped.
ToolBlocks(calls) ==
  [ n \in 1..(2 * Len(calls)) |->
      LET index == NextIndex + (n - 1) \div 2
      IN  IF n % 2 = 1 THEN Event("start", "tool_use", index, calls[(n + 1) \div 2])
                       ELSE Event("stop", "tool_use", index, <<>>) ]

Finish ==
  /\ pc = "stream" /\ upstream = "ended"
  /\ Write(Stops \o ToolBlocks(Reached(local.toolCalls))
             \o <<Plain("message_delta", local.stopReason), Plain("message_stop", <<>>)>>)
  /\ pc' = "closed"
  /\ UNCHANGED <<streamVars, connected, local>>

ClientLeaves ==
  /\ connected /\ pc # "closed"
  /\ connected' = FALSE
  /\ UNCHANGED <<streamVars, pc, events, local>>

Chunked == \E chunk \in Chunks : Handle(chunk)

Next == Start \/ Chunked \/ UpstreamEnds \/ Fail \/ Finish \/ ClientLeaves

Spec == Init /\ [][Next]_vars

-----------------------------------------------------------------------------

\* README.md:275, "Anthropic Messages SSE events": a client can follow the blocks.
\* Each is started once, under the next free index, gets its pieces while it is
\* open, and is stopped once; unless reasoning begins after text, when the code
\* starts a second block 0 and moves the text to a block 1 it never started.
BlocksAreFollowable ==
  TextFirst \/ \A n \in DOMAIN events :
    LET e == events[n]
        before == { k \in 1..(n - 1) : events[k].index = e.index }
    IN  /\ e.what = "start" =>
             /\ before = {}
             /\ \A i \in 0..(e.index - 1) :
                  \E k \in 1..(n - 1) : events[k].what = "start" /\ events[k].index = i
        /\ e.what \in {"delta", "stop"} =>
             /\ \A k \in before : events[k].kind = e.kind /\ events[k].what # "stop"
             /\ \E k \in before : events[k].what = "start"

SeqX == INSTANCE SequencesExt

\* What event e adds to the blocks of a kind: pieces of text, or a whole call.
PutBy(e, kind) ==
  IF e.kind = kind /\ e.what = "delta" THEN e.puts
  ELSE IF e.kind = kind /\ e.what = "start" /\ kind = "tool_use" THEN <<e.puts>>
  ELSE <<>>

PutInto(kind) == SeqX!FlattenSeq([ n \in DOMAIN events |-> PutBy(events[n], kind) ])

IsComplete == \E n \in DOMAIN events : events[n].what = "message_stop"

\* What a client has put together when the message stops is the answer that the
\* call would have got without streaming: its thinking, its text and its calls,
\* whole and in order, however they were cut and interleaved.
BlocksAreTheAnswer ==
  IsComplete /\ Numbered =>
    /\ PutInto("thinking") = Answer.reasoning
    /\ PutInto("text") = Answer.content
    /\ PutInto("tool_use") = Answer.calls

LastCall ==
  LET withCalls == { n \in DOMAIN chunks : chunks[n].calls # {} }
  IN  IF withCalls = {} THEN 0 ELSE Latest(withCalls)

\* A finish_reason other than "tool_calls" that comes after the last call.
OtherFinishAfterCalls ==
  Answer.calls # <<>> /\ \E n \in DOMAIN chunks :
    n > LastCall /\ chunks[n].finish \notin {"", "tool_calls"}

\* The stop_reason of a stream is that of the same answer in one piece, which is
\* "tool_use" whenever there are calls, unless the upstream names another reason
\* after its last call.
StopReasonAgrees ==
  ~OtherFinishAfterCalls =>
    \A n \in DOMAIN events : events[n].what = "message_delta" =>
      events[n].puts = StopReason(FinishReason, Answer.calls)
=============================================================================
