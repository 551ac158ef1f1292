--------------------------- MODULE ResponseStream ---------------------------
(***************************************************************************)
(* The streaming handler of POST /v1/responses (streamResponse of          *)
(* internal/httpapi/sse_openai.go): the chunks of the upstream become the  *)
(* events of the Responses protocol, and at the end the response is put    *)
(* together, saved and announced as complete.                              *)
(*                                                                         *)
(* Events are recorded as the client gets them.  Of an event only what it  *)
(* is, the item it is about and its output_index are kept; the items are   *)
(* the reasoning, the message and the tool calls by their id.  The client   *)
(* may go at any time: writes fail from then on.                           *)
(***************************************************************************)
EXTENDS StreamChat, TurnItems

VARIABLES
  pc,            \* where the handler is
  connected,     \* the client is still there
  events,        \* the events it got
  local,         \* the variables of streamResponse
  saved          \* what SaveResponse was called with: nothing or one record

vars == <<streamVars, pc, connected, events, local, saved>>

Event(what, item, index) == [what |-> what, item |-> item, index |-> index]

Plain(what) == Event(what, <<>>, 0)

ReasoningItem == <<"reasoning">>
MessageItem == <<"message">>
Call(id) == <<"call", id>>

Init ==
  /\ StreamInit
  /\ pc = "start"
  /\ connected = TRUE
  /\ events = <<>>
  /\ local = [ reasoningStarted |-> FALSE, textStarted |-> FALSE,
               reasoningOutputIndex |-> 0, textOutputIndex |-> 0,
               reasoning |-> <<>>, content |-> <<>>, finishReason |-> "",
               toolCalls |-> [i \in {} |-> NoCall] ]
  /\ saved = {}

Write(new) == events' = IF connected THEN events \o new ELSE events

\* response.created and response.in_progress; without a client the handler
\* returns before the upstream is called.
Start ==
  /\ pc = "start"
  /\ Write(<<Plain("response.created"), Plain("response.in_progress")>>)
  /\ pc' = IF connected THEN "stream" ELSE "closed"
  /\ UNCHANGED <<streamVars, connected, local, saved>>

-----------------------------------------------------------------------------
(* The handler of a chunk: first its reasoning, then its text, then its     *)
(* tool calls, of which nothing is written yet.                             *)

\* Where the reasoning goes is not looked at: it is always the first item.
OnReasoningMutantFirst(l, n) ==
  [ l EXCEPT !.reasoningStarted = TRUE,
             !.reasoningOutputIndex = 0,
             !.textOutputIndex = IF l.reasoningStarted \/ l.textStarted THEN @ ELSE 1,
             !.reasoning = Append(@, n) ]

OnReasoning(l, n) ==
  [ l EXCEPT !.reasoningStarted = TRUE,
             !.reasoningOutputIndex = IF l.reasoningStarted THEN @
                                      ELSE IF l.textStarted THEN 1 ELSE 0,
             !.textOutputIndex = IF l.reasoningStarted \/ l.textStarted THEN @ ELSE 1,
             !.reasoning = Append(@, n) ]

OnContent(l, n) ==
  [ l EXCEPT !.textStarted = TRUE,
             !.textOutputIndex = IF ~l.textStarted /\ l.reasoningStarted THEN 1 ELSE @,
             !.content = Append(@, n) ]

\* The announcements of a piece of text: the item and its part, if it is the
\* first, and the piece.
Announce(begun, item, index) ==
  (IF begun THEN <<>> ELSE <<Event("item.added", item, index), Event("part.added", item, index)>>)
    \o <<Event("delta", item, index)>>

Handle(chunk) ==
  LET n == Len(chunks) + 1
      afterReasoning == IF chunk.reasoning THEN OnReasoning(local, n) ELSE local
      afterContent   == IF chunk.content THEN OnContent(afterReasoning, n) ELSE afterReasoning
      new == (IF chunk.reasoning
                THEN Announce(local.reasoningStarted, ReasoningItem,
                              afterReasoning.reasoningOutputIndex)
                ELSE <<>>)
          \o (IF chunk.content
                THEN Announce(local.textStarted, MessageItem, afterContent.textOutputIndex)
                ELSE <<>>)
  IN  /\ pc = "stream"
      /\ NextChunk(chunk, connected \/ new = <<>>)
      /\ local' = [ afterContent EXCEPT
                      !.finishReason = IF chunk.finish = "" THEN @ ELSE chunk.finish,
                      !.toolCalls = MergeCalls(@, chunk.calls, n) ]
      /\ Write(new)
      /\ UNCHANGED <<pc, connected, saved>>

UpstreamEnds ==
  /\ pc = "stream"
  /\ EndOfStream \/ StreamBreaks
  /\ UNCHANGED <<pc, connected, events, local, saved>>

\* A failed call closes the stream without a word.
FailMutantSilent ==
  /\ pc = "stream" /\ upstream = "failed"
  /\ pc' = "closed"
  /\ UNCHANGED <<streamVars, connected, events, local, saved>>

\* response.failed; nothing is saved.
Fail ==
  /\ pc = "stream" /\ upstream = "failed"
  /\ Write(<<Plain("response.failed")>>)
  /\ pc' = "closed"
  /\ UNCHANGED <<streamVars, connected, local, saved>>

-----------------------------------------------------------------------------
(* After the last chunk: the open items are closed, the tool calls are      *)
(* announced, and the response is saved.  Failing writes are ignored.       *)

Close(item, index) ==
  <<Event("text.done", item, index), Event("part.done", item, index), Event("item.done", item, index)>>

Closing(l) ==
  (IF l.reasoningStarted THEN Close(ReasoningItem, l.reasoningOutputIndex) ELSE <<>>)
    \o (IF l.textStarted THEN Close(MessageItem, l.textOutputIndex) ELSE <<>>)

\* The calls are numbered from 0, whatever came before them.
CallEventsMutantFirst(calls, first) ==
  [ n \in 1..(2 * Len(calls)) |->
      Event(IF n % 2 = 1 THEN "item.added" ELSE "item.done",
            Call(calls[(n + 1) \div 2].id), (n - 1) \div 2) ]

\* Each call is added and done, the n-th under output index first + n - 1.
CallEvents(calls, first) ==
  [ n \in 1..(2 * Len(calls)) |->
      Event(IF n % 2 = 1 THEN "item.added" ELSE "item.done",
            Call(calls[(n + 1) \div 2].id), first + (n - 1) \div 2) ]

\* outputItems: the reasoning before or after the message, then the calls.  The
\* turn is 1 if there are calls at all.
TextItems(l, turn) ==
  LET reasoning == IF l.reasoningStarted THEN <<Reasoning(l.reasoning)>> ELSE <<>>
      message   == IF l.textStarted THEN <<Message("assistant", l.content, l.reasoning, turn)>>
                                    ELSE <<>>
  IN  IF l.textStarted /\ l.reasoningOutputIndex > l.textOutputIndex
        THEN message \o reasoning ELSE reasoning \o message

StatusFromFinishReason(finish) ==
  IF finish \in {"length", "content_filter"} THEN "incomplete" ELSE "completed"

\* What came before the call broke off is taken for the answer.
FinishMutantPartial ==
  LET texts == TextItems(local, 0)
  IN  /\ pc = "stream" /\ upstream # "open"
      /\ Write(Closing(local))
      /\ saved' = { [ output |-> texts, status |-> StatusFromFinishReason(local.finishReason) ] }
      /\ pc' = "complete"
      /\ UNCHANGED <<streamVars, connected, local>>

Finish ==
  LET calls == Reached(local.toolCalls)
      turn  == IF DOMAIN local.toolCalls = {} THEN 0 ELSE 1
      texts == TextItems(local, turn)
      \* the reasoning goes to the call with index 0
      items == [ n \in DOMAIN calls |->
                   CallItem(calls[n], IF calls[n].id = 0 THEN local.reasoning ELSE <<>>, turn) ]
  IN  /\ pc = "stream" /\ upstream = "ended"
      /\ Write(Closing(local) \o CallEvents(calls, Len(texts)))
      /\ saved' = { [ output |-> texts \o items,
                      status |-> StatusFromFinishReason(local.finishReason) ] }
      /\ pc' = "complete"
      /\ UNCHANGED <<streamVars, connected, local>>

Complete ==
  /\ pc = "complete"
  /\ Write(<<Plain("response.completed")>>)
  /\ pc' = "closed"
  /\ UNCHANGED <<streamVars, connected, local, saved>>

ClientLeaves ==
  /\ connected /\ pc # "closed"
  /\ connected' = FALSE
  /\ UNCHANGED <<streamVars, pc, events, local, saved>>

Chunked == \E chunk \in Chunks : Handle(chunk)

Next == Start \/ Chunked \/ UpstreamEnds \/ Fail \/ Finish \/ Complete \/ ClientLeaves

Spec == Init /\ [][Next]_vars

\* The handler runs on, and the call ends: its HTTP client has a timeout that
\* covers the body.  Chunks need not come.
FairSpec ==
  Spec /\ WF_vars(Start \/ Fail \/ Finish \/ Complete) /\ WF_vars(UpstreamEnds)

-----------------------------------------------------------------------------

Ended == { "response.completed", "response.failed" }

\* A client can follow the events without looking ahead: an item is added once,
\* before anything else about it, keeps its output_index, and gets nothing after
\* it is done; two items never share an index; and nothing comes after the end.
EventsAreFollowable ==
  \A n \in DOMAIN events :
    LET e == events[n] IN
    /\ \A k \in 1..(n - 1) : events[k].what \notin Ended
    /\ e.item # <<>> =>
         /\ \E k \in 1..n : events[k] = Event("item.added", e.item, e.index)
         /\ \A k \in 1..(n - 1) :
              /\ events[k].item = e.item =>
                   events[k].what # "item.done" /\ events[k].index = e.index /\ e.what # "item.added"
              /\ events[k].item \notin {<<>>, e.item} => events[k].index # e.index

ItemOf(item) ==
  CASE item.type = "reasoning" -> ReasoningItem
    [] item.type = "message" -> MessageItem
    [] IsToolCallItem(item) -> Call(item.call.id)

\* When the client is told that the response is complete, the items it was told
\* of are the output of the response, each done, and each at the place that its
\* output_index said before anyone knew what else would come.
IndexesAreFinalPlaces ==
  \A n \in DOMAIN events : events[n].what = "response.completed" =>
    \A response \in saved :
      { e \in { events[k] : k \in DOMAIN events } : e.what = "item.done" } =
        { Event("item.done", ItemOf(response.output[p]), p - 1) : p \in DOMAIN response.output }

\* What the same call would have stored without streaming.
WholeOutput == OutputItems(Answer, 1, FALSE)

\* An output of reasoning, message and calls with its message before its reasoning.
MessageFirst(output) == <<output[2], output[1]>> \o SubSeq(output, 3, Len(output))

StreamedOutput == IF TextFirst THEN MessageFirst(WholeOutput) ELSE WholeOutput

\* What is stored is what the same call would have stored without streaming, but
\* for one thing: if the text began before the reasoning, the message comes first.
\* However text, reasoning and the fragments of several calls were cut and
\* interleaved, each is whole and in order, with the turn and the reasoning where
\* a replay looks for them.  Calls must be numbered without a gap: one that comes
\* after a gap may be lost, and nothing is said of it.
StoredIsTheAnswer ==
  Numbered => \A response \in saved :
    /\ response.output = StreamedOutput
    /\ response.status = StatusFromFinishReason(FinishReason)

\* A response is stored exactly if the upstream ended well, and before the client
\* is told that it is complete; a failed one leaves nothing, and a client that
\* went away does not undo one that the upstream finished.
SavedIfEnded ==
  /\ saved # {} => upstream = "ended"
  /\ pc = "closed" /\ upstream = "ended" => saved # {}
  /\ \A n \in DOMAIN events :
       (events[n].what = "response.completed" => saved # {})
         /\ (events[n].what = "response.failed" => saved = {})

\* A client that stays gets the end of its stream, one way or the other.
StreamIsEnded ==
  <>(~connected \/ \E n \in DOMAIN events : events[n].what \in Ended)
=============================================================================
