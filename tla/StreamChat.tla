----------------------------- MODULE StreamChat -----------------------------
(***************************************************************************)
(* One streamed call of the upstream (StreamChat of                        *)
(* internal/upstream/glm/client.go) as the handlers see it: chunks in      *)
(* order, and then the end.  [DONE] and a connection that is closed        *)
(* cleanly without it are the same end; lines that hold no chunk are       *)
(* skipped and change nothing.  Everything else is an error: a failing     *)
(* status, a broken or timed-out connection, a line over 1 MB, a cancelled *)
(* request, or an error that the handler of a chunk returns.               *)
(*                                                                         *)
(* The handlers that stream add their own variables and actions.           *)
(***************************************************************************)
EXTENDS Integers, Sequences, FiniteSets

CONSTANTS
  Chunks,        \* the chunks that may come
  MaxChunks      \* bound: the chunks of one call

\* What the handlers read from a chunk: whether it holds a piece of reasoning,
\* a piece of text, for which tool calls it holds a fragment, and its
\* finish_reason, "" if it has none.
Finishes == {"", "stop", "tool_calls", "length", "content_filter"}

Chunk(indexes) ==
  [reasoning : BOOLEAN, content : BOOLEAN, calls : SUBSET indexes, finish : Finishes]

ASSUME ChunksAssumption ==
  /\ Chunks \subseteq Chunk(Nat) /\ \A chunk \in Chunks : IsFiniteSet(chunk.calls)
  /\ MaxChunks \in Nat

VARIABLES
  chunks,        \* the chunks handled so far
  upstream       \* "open" until the call has ended or failed

streamVars == <<chunks, upstream>>

StreamInit == chunks = <<>> /\ upstream = "open"

\* A chunk is handled.  With a client that has gone, a handler that writes
\* returns the error of its write, and that ends the call.
NextChunk(chunk, handled) ==
  /\ upstream = "open"
  /\ Len(chunks) < MaxChunks
  /\ chunks' = Append(chunks, chunk)
  /\ upstream' = IF handled THEN "open" ELSE "failed"

EndOfStream == upstream = "open" /\ upstream' = "ended" /\ UNCHANGED chunks

StreamBreaks == upstream = "open" /\ upstream' = "failed" /\ UNCHANGED chunks

\* The call by itself: what GLMClient is shown to implement.
StreamSpec ==
  /\ StreamInit
  /\ [][ \/ \E chunk \in Chunks, handled \in BOOLEAN : NextChunk(chunk, handled)
         \/ EndOfStream \/ StreamBreaks ]_streamVars

-----------------------------------------------------------------------------
(* Tool calls arrive in fragments: the first brings the id, each a piece of *)
(* the arguments.  The n-th chunk brings the fragments numbered n.          *)

NoCall == [id |-> -1, arguments |-> <<>>]

\* The arguments of a fragment replace those so far.
MergeMutantReplaces(existing, index, n) == [id |-> index, arguments |-> <<n>>]

\* MergeStreamToolCall; the id of the call with index i is i.  The code takes the id
\* from every fragment that has one, here from each: they bring the same, or none.
MergeStreamToolCall(existing, index, n) ==
  [id |-> index, arguments |-> Append(existing.arguments, n)]

\* The map toolCalls of a handler, after the fragments of a chunk.
MergeCalls(toolCalls, indexes, n) ==
  [ i \in DOMAIN toolCalls \cup indexes |->
      LET existing == IF i \in DOMAIN toolCalls THEN toolCalls[i] ELSE NoCall
      IN  IF i \in indexes THEN MergeStreamToolCall(existing, i, n) ELSE existing ]

\* The numbers of S, a finite set, from the least to the greatest.
InOrder(S) ==
  [ k \in 1..Cardinality(S) |-> CHOOSE i \in S : Cardinality({ j \in S : j < i }) = k - 1 ]

\* The loop `for i := 0; i < len(toolCalls); i++` over a map: a call whose index
\* is not below their number is not reached.
Reached(toolCalls) ==
  LET order == InOrder({ i \in DOMAIN toolCalls : i < Cardinality(DOMAIN toolCalls) })
  IN  [ n \in DOMAIN order |-> toolCalls[order[n]] ]

-----------------------------------------------------------------------------
(* What the upstream said, put together from the chunks by itself: the      *)
(* answer that the same call would have got without streaming.              *)

ReasoningAt == { n \in DOMAIN chunks : chunks[n].reasoning }
ContentAt == { n \in DOMAIN chunks : chunks[n].content }
CallAt(i) == { n \in DOMAIN chunks : i \in chunks[n].calls }
FinishAt == { n \in DOMAIN chunks : chunks[n].finish # "" }

CallIndexes == UNION { chunks[n].calls : n \in DOMAIN chunks }

\* The greatest of S.
Latest(S) == CHOOSE n \in S : \A m \in S : m <= n

FinishReason == IF FinishAt = {} THEN "" ELSE chunks[Latest(FinishAt)].finish

Answer ==
  [ reasoning |-> InOrder(ReasoningAt),
    content   |-> InOrder(ContentAt),
    calls     |-> LET order == InOrder(CallIndexes)
                  IN  [ k \in DOMAIN order |->
                          [id |-> order[k], arguments |-> InOrder(CallAt(order[k]))] ] ]

\* The calls are numbered from 0 without a gap.
Numbered == CallIndexes = 0..(Cardinality(CallIndexes) - 1)

\* Text that began before any reasoning, with reasoning after it.
TextFirst == ReasoningAt # {} /\ \E n \in ContentAt : \A m \in ReasoningAt : n < m
=============================================================================
