# GLM-Compatible: TLA+ models, checks and proofs

GLM-Compatible is one HTTP server that speaks the OpenAI Responses, Chat
Completions and Conversations APIs, the Anthropic Messages API and the Gemini
API, and answers all of them with one upstream, the GLM chat API. GLM keeps no
state; what the OpenAI APIs promise to keep (responses, conversations, stored
completions) is kept by this server, in memory. This directory models the parts
where that is hard: the store, the handlers that share it, and the handlers
that turn a stream of chunks into a protocol of events.

Line numbers are those of the sources in `src/`.

## 1. The system

| Component | State it keeps | Operations | Modelled by |
| --- | --- | --- | --- |
| State store (`state/state.go`) | tables of responses, chat completions, conversations; their item slices; access times; save order; item index with reference counts; time of the last prune; one mutex | save, overwrite, read (touches), update, delete, evict, expire, prune | `StoreOps`, `Store`, `StoreLoops`, `StoreLemmas`, `StoreProofs` |
| Responses and Conversations endpoints (`httpapi/router.go`, `openai/responses`) | per request: context, input, output, status | Prepare, upstream call, SaveResponse; get, delete, cancel, update | `ResponsesAPI`, `ResponsesProofs` |
| Responses streaming (`httpapi/sse_openai.go`) | per stream: what has started, output indexes, text, tool calls | one handler per chunk, closing, save | `StreamChat`, `ResponseStream`, `ResponseStreamProofs` |
| Conversation replay (`openai/responses`, `anthropic/messages`, `gemini/generate`, `openai/chat/multimodal.go`) | none; private fields in items, blocks kept by clients | an answer as items, blocks or parts; these as chat messages again | `TurnItems`, `MessageBlocks`, `ConversationReplay`, `AdapterProofs` |
| Tool names (`openai/shared`, all adapters) | per request: names used, tools by upstream name | name, choose, filter, restore, replay | `ToolNames`, `AdapterProofs` |
| Chat Completions endpoints (`router.go`, `openai/chat`) | per request | create (stored or not, streamed or not), get, update, delete, list | `ChatCompletionsAPI`, `ChatCompletionsProofs` |
| Anthropic Messages (`httpapi/sse_anthropic.go`, `anthropic/messages`) | per stream: blocks begun, textIndex, stop reason, tool calls | one handler per chunk, closing | `StreamChat`, `AnthropicStream`, `AnthropicStreamProofs` |
| Gemini endpoints (`router.go`, `httpapi/sse_gemini.go`, `gemini/generate`) | none, also not between two chunks | generateContent, streamGenerateContent | `GeminiAPI`, `GeminiProofs` |
| GLM client (`upstream/glm/client.go`) | none | Chat, StreamChat, Tokenize | `GLMClient`, `StreamChat`, `GeminiProofs`; one action elsewhere |
| Shared helpers (`openai/shared`) | none | Paginate, sort, PublicItem | inside `ChatCompletionsAPI`, `TurnItems` |
| SSE formatting, JSON/auth/debug plumbing, configuration, `main` | none between requests | conversions, parsing | not modelled (section 8) |

**How they interact.** `net/http` runs one goroutine per request. `serveHTTP`
calls `PruneIfDue` and dispatches. A handler of the OpenAI endpoints makes several
calls of the store, each a critical section of its own under the mutex, with
the upstream call, seconds long, between the reads and the save. Streaming
handlers give `StreamChat` a callback that runs once per chunk, in the request's
own goroutine, and writes events to the client; an error of a write comes back
as the callback's error and ends the call. There are no background goroutines:
expiry happens on request paths. Nothing is persisted: a restart is `Init`.

**What is hard.**

- *Interleaving*: between the calls of one handler any other request can delete,
  extend, overwrite, evict or expire the object it is about.
- *Shared ownership*: an item can be in the input and context of many responses
  and in conversations; the index must hold it exactly as long as one of them is
  left.
- *Clock and capacity*: lazy expiry on an interval, reads that make entries
  young, eviction in save order, all deleting through the same code.
- *Streams*: text, reasoning and fragments of several tool calls come in any cut
  and order, and indexes are announced before it is known what else will come.
- *Failure*: the upstream breaks after half an answer was sent; the client goes
  away at any point.
- *Loss of information*: a client that is shown public items, blocks or parts
  sends them back without the private fields that said which calls belong to
  which answer, and in which message.
- *Names*: GLM knows one flat list of short tool names; namespaces and long names
  have to be squeezed into it without two tools meeting, and brought back.

**What makes each component correct** is listed with the runs in section 4.

## 2. The modules

`StoreOps` is the store as pure operators on one record: every exported method of
`Store` holds the mutex for all of its body, so each is one operator, built from
the `*Locked` helpers it calls in the order it calls them. The three tables,
three copies of the same code, are one table keyed by `<<kind, id>>`. The slices
`responseOrder` etc. are kept as the relation "stands before" (`before`), which
is all that eviction and re-saving look at, and which makes the operators free of
recursion. That the loops of the Go code compute these closed forms is not
assumed: `StoreLoops` runs the loops, over slices, beside the closed forms;
`LoopsAgree` compares, and is proved. Go ranges over two maps there. The map of access
times is walked in any order by the action itself. The ids of a slice that is released are
walked in one fixed order in the run; that any other order leaves the same is proved
(`ReleaseOrderIsFree`). Each loop is a recursive function from the turns taken to the store
they leave, which the provers can use where a RECURSIVE operator would stop them.

`Store` makes the operators a state machine with a clock: any sequence of calls
with any arguments. The endpoint modules EXTEND `StoreOps` too and change `store` only
by its operators. What the operators do to a store is proved once, in `StoreLemmas`,
for any store and any arguments; `StoreProofs`, `ResponsesProofs` and
`ChatCompletionsProofs` build on it.

`ResponsesAPI` has the requests. `req[q]` holds the local variables of the
goroutine of request `q` and its `pc`; an action is one critical section of the
store or one event of the upstream call: `ArrivePostResponse` (PruneIfDue),
`LookupConversation` or `LookupPrevious` then `FetchContext`
(contextItemsForPayload), `NormalizeInput` (references resolved),
`UpstreamAnswers`/`UpstreamFails`, `SaveTurn` (SaveResponse), and one action for
each endpoint that makes one call. Conversations are created with or without
items, and a POST on one may bring items too (`ArriveUpdate`), of which the handler
takes no notice. Streaming and non-streaming requests make the same store calls in the
same order, so they share the actions.

`ChatCompletionsAPI` does the same for stored completions, plus one client that
walks the list page by page. The upstream chooses ids and times. `stayed` and
`walk.lost` are history variables: they only record what the property is about.

`StreamChat` is the upstream side of a stream: which chunks came, how it ended,
the merging of tool-call fragments, and `Answer`, the answer as it would have
been without streaming. A chunk is what the handlers look at: does it hold
reasoning, text, fragments of which calls, which finish_reason. A piece of text
is the number of the chunk that brought it, so a text is the sequence of its
pieces, and loss, doubling and reordering all show. `InOrder`, the numbers of a finite
set from the least on, is what a loop over chunks or call indexes lists. `ResponseStream` and
`AnthropicStream` EXTEND it with the handlers and the events written.

`GLMClient` is the same call one level down, for `StreamChat` and `Chat` alike: the
key, the connection, the status, then line after line, or one body to decode. What
really happened (`sent`, `lines`, `wrong`) and what the client makes of it
(`state`, `status`) are separate variables. `GeminiAPI` EXTENDS it with the handlers of
`generateContent` and `streamGenerateContent`, which share the conversion of an answer.
`Call == INSTANCE StreamChat WITH chunks <- sent, upstream <- Outcome, ...` is the
refinement mapping, and `ImplementsStreamChat` the refinement: the abstract
call on which `ResponseStream` and `AnthropicStream` stand is the one the lines make.

`TurnItems` holds the pure conversions: an upstream answer to items
(`OutputItems`), items to public items, items to chat messages
(`InputItemsToChatMessages`). `MessageBlocks` holds those of Anthropic's blocks and
Gemini's parts, which share one operator `Split` for the loop that gathers text and
pictures and flushes them before a block that is a message of its own, and the
last step of all adapters, `MessagesForGLMModel`. `ConversationReplay` runs one
conversation through them for four clients at once. It takes `OutputItems` for streamed
answers too, which `StoredIsTheAnswer` of `ResponseStream` shows it may. Which calls are of
custom tools, what GLM gives each call as arguments, and what text arguments hold as
"input" are constants (`IsCustom`, `Arguments`, `InputIn`); `MCConversationReplay` gives them
values of every kind. An answer's text before its reasoning (`textFirst`) exists in streams only.

`ToolNames` follows a client of one of the four adapters through a request, the call
that answers it and, for Responses, a second request with that call in its history.
Names are sequences of words, for words joined by `__`; what a name is cut and hashed to is
the constant `Candidate(raw, k)`, the k-th name that `UniqueUpstreamToolName` tries.
Any two names may share any candidate: nothing is assumed of the digest, which is
4 bytes of a xor (`shortHash`). Only the candidates of one name differ, by their suffix.

`MC*` modules only give constants. Operators whose name holds `Mutant` are wrong
variants of the definition after them, the mistake in their comment; each
property of section 4 is known to notice at least one.

Correspondence of definitions to source lines is in `PROJECT.json`, "map".

## 3. Abstractions that matter

- What objects and items say is dropped where no step looks at it; items are ids
  in the store models. So a model of the store cannot show that re-registering an
  id replaces the indexed copy (`state.go:135`); it is listed as a hazard.
- An empty `id` is never saved (ids come from `NewID`, or from the upstream with
  `NewID` as a default), so the branches for it are left out.
- Clock: `now` is a natural number; `TTL` and `PruneInterval` are in its units.
  A `time.Time` that is zero is `Never`.
- A client's write fails for good once it left; a client that left is noticed
  only by a write.
- `[DONE]` and a clean end of the body are one action, as in the code. Lines that
  are no JSON, which the client skips, are `Skip` of `GLMClient` and leave no trace in
  `StreamChat`.
- Function and custom tool calls behave alike wherever a property of a stream
  looks; `TurnItems` and `ToolNames` tell them apart.
- A text is a sequence of fragments, so joining is concatenation; separators that
  are put between parts are left out. A picture stands for every medium.
- Arguments of a call are nothing, no JSON, JSON that is no object, or an object
  with an input alone, with an input among others, or without one. They are equal if they
  say the same JSON: spaces and the order of fields, which a conversion may change, are not
  seen. Arguments that are a bare `null`, which the Responses adapter takes for none, are left out.
- `NormalizeInput` leaves out a response with neither input nor context in words (its
  items are reasoning only), and items to which the client gives an id in use.
- `MergeStreamToolCall` sets the id of a call with every fragment; the code does
  so with the fragments that have one.
- GLM's chunks carry at least one fragment if they carry `tool_calls`. An empty
  list would set Anthropic's stop_reason to `tool_use` (`sse_anthropic.go:81`).

## 4. Runs

All are exhaustive within their bounds.

| Run | Instance | Checks |
| --- | --- | --- |
| `store` | 3 responses (limit 2), 2 conversations (limit 1), 2 items, TTL 0, clock to 1 | `RefCountExact`, `IndexExact`, `OrderIsQueue`, `CapacityRespected` |
| `store_loops` | one response, two completions (limits 1), one conversation, one item, TTL 1, prune interval 2, clock to 3, `RegisterItems` included | `LoopsAgree`, `OrderSlicesExact`, `HeldIsIndexed`, `NothingIdleTooLong`, `RemovedForAReason` |
| `responses_mixed` | 3 requests of any kind, references, limits 1 | `ConversationIsWholeTurns`, `ContextIsPrefix`, `DeletedIsGone`, `StoredAsAnswered`, `PreviousContextWholeOrNone`, `StoredItemsCanBeReferenced`, `NothingBeforeTheSave`, `AnsweredIsStored` |
| `responses_live` | 2 requests of any kind, TTL and clock | `EveryRequestIsAnswered` |
| `responses_previous` | 3 requests | violates `PreviousContextCarried` |
| `replay` | conversations of 4 steps, up to 2 calls per answer of functions and custom tools, arguments of six kinds, four clients | `StoredReplayIsConversation`, `PublicReplayIsConversation`, `AnthropicReplayIsConversation`, `GeminiReplayIsConversation` |
| `stream_responses` | up to 4 of 10 kinds of chunk, call indexes 0..2 | `EventsAreFollowable`, `IndexesAreFinalPlaces`, `StoredIsTheAnswer`, `SavedIfEnded`, `StreamIsEnded` |
| `stream_anthropic` | up to 4 of 10 kinds of chunk | `BlocksAreFollowable`, `BlocksAreTheAnswer`, `StopReasonAgrees` |
| `stream_gemini` | up to 5 lines, 9 kinds of chunk, statuses 200, 401, 404, 500 | `PartsAreTheAnswer`, `FailureIsTold`, `ImplementsStreamChat` |
| `chat_list` | 3 requests, 3 ids, 2 times, limit 2, page size 1, TTL 1 | `WalkListsWhatStayed`, `CompletionIsOneAnswer` |
| `chat_streamed` | 2 requests | violates `StoredWhenAsked` |
| `tool_names` | 4 adapters, lists of up to 3 tools whose names collide in every way, two requests | `NamesAreDistinct`, `CallComesBackAsItsTool`, `ReplayNamesTheTool`, `ChoiceIsMeant`, `OnlyAllowedAreSent` |

What they show, in the order of the system:

- *The store keeps its books.* Through any sequence of calls over full tables the
  count of every item is the number of slices that hold it, the index is exactly
  what is held, the save order is a queue of what is live, and an entry goes only
  because it idled too long, because the step is the deletion of just this entry (the store is
  `delete(store, key)` afterwards), or because it was the oldest saved of its
  kind in a full table. Expiry is neither early nor later than the interval allows.
- *Requests do not tear each other.* A conversation is its opening items and the
  whole turns of the responses answered on it, each once, in some order, and nothing
  else, also when updates bring items; what a
  request sent upstream was a prefix of it; a deletion is final, also for requests
  that looked the object up before. What was answered can be retrieved, even from a table
  of one entry; a stored response never changes, a failed
  request leaves nothing, a reference to a stored item always resolves.
- *Streams say what was said.* An item or block is announced once, under an index
  that no other has and that turns out to be its place; the stored answer is the
  one the call would have stored without streaming, but with the message first if its text
  came first; it is stored exactly if the upstream finished, and before the client is told.
  A Gemini client gets every part, and every client that stays learns whether its
  answer is whole, whatever went wrong between the key and the last line.
- *Replay is faithful.* GLM is shown the conversation it had, by a client that left its
  history to the server, and by those that keep their own items, blocks or parts. The
  arguments of a call come back as they were; those of a custom tool are taken out of their
  object and put back on the way, and only if GLM gave the tool something else than its
  input does it see what the tool was given instead (`Repeated`).
- *Tools keep their names.* Tools that differ are sent under names that differ, a call
  comes back as the tool it is of, also from the history of a later request, and a
  choice or a list of allowed tools reaches GLM as the tools the client meant.
- *A walk through the list* shows each entry that stayed in it exactly once.

**Bounds.** Three responses with a limit of two make eviction choose; two items
in lists of up to three give shared, repeated and overwritten references;
a conversation limit of one evicts on the second. In `store_loops` the prune interval
(2) exceeds the TTL (1), so an entry can outlive its TTL and be revived by a read,
and the clock (3) lets it pass both. Three requests are a creation and two turns
that race on the conversation, or a creation, a turn and a deletion; what two turns
and a deletion do to each other beyond that is what each does alone, since a deletion
leaves nothing to extend. Four chunks let
two calls of two fragments each interleave, or reasoning, text and two calls meet
in any order; five lines do that too, with a line that is skipped among them. Four steps
of conversation give question, calls, result, answer and every shorter adjacency; what
replay does with an item depends only on the items next to it. Its arguments go through
every kind there is, for a custom tool and for a function. Three tools are two that
collide and a third that has the name the second would move to. Request symmetry
is used where requests differ in nothing but their names and no liveness is checked.

**Fairness.** Only `responses_live` and `stream_responses` use it: weak fairness
of the server's own steps for a request it accepted (a goroutine that can run
runs; the mutex is held for bounded loops only, never across an upstream call), and
of the end of the upstream call. The latter is justified by the HTTP client: its
`Timeout` covers reading the body (`client.go:237`) and configuration refuses a
timeout that is not positive (`config.go:132`). No fairness is put on clients, on
chunks, or on the clock. `StreamIsEnded` promises the end only to a client that stays.

**Deadlock** is checked in `store` and `store_loops`. The other
models are finite histories: they stop when all requests are answered, the stream
is closed, the call is told or the conversation has its length, and their
configurations say so.

## 5. Where code and documents disagree

- `responses_previous`: a previous response that is deleted, evicted or expires
  between `Store.Response` (`responses.go:75`) and `Store.ResponseContext` (line
  78) is silently dropped: the request is answered without its context. What does
  hold is `PreviousContextWholeOrNone`.
- `chat_streamed`: `README.md:232` says that requests with `store=true` are stored;
  with `stream=true` they are not (`router.go:227-230`).
- `README.md:161` says of `POST /v1/conversations/{conversation_id}`: "Append to or update
  a local Conversation". The handler gives only the metadata to `UpdateConversation`
  (`router.go:504-514`): items sent with the request are ignored, and it is answered with
  200. No run is spent on it alone: in `responses_mixed` updates bring items, and
  `ConversationIsWholeTurns` holds there only because they add nothing.

## 6. Known exceptions inside properties

Each is a guard written in the property, with the reason beside it:

- `BlocksAreFollowable` excludes reasoning that begins after text: the code then
  starts a second block 0 and moves the text to a block 1 that was never started.
- `StoredIsTheAnswer` and `BlocksAreTheAnswer` assume tool-call indexes 0..n-1; the
  loops over the map lose a call beyond a gap.
- `StoredIsTheAnswer` allows a streamed answer one difference to the same answer without
  streaming: if its text began before its reasoning, the message is stored before the
  reasoning (`sse_openai.go:215-226`), where `OutputItemsFromChatCompletion` always puts
  the reasoning first (`responses.go:637-649`).
- `StopReasonAgrees` excludes an upstream that names another finish reason after
  its last tool call.
- `StoredReplayIsConversation` excludes an answer of calls alone right after an
  answer of text alone (they are replayed as one message), and streamed
  answers with reasoning between text and calls (replayed as two). For a custom tool
  that GLM called outside its schema (arguments empty, no JSON, without `input` or with
  other fields) the call comes back as a call with the text that the tool was given as its
  `input` (`responses.go:699-708`, `342-343`); `PublicReplayIsConversation` likewise.
- `AnthropicReplayIsConversation` and `GeminiReplayIsConversation` compare messages
  after joining neighbours of one role: the code makes several messages of what the
  client sent as one. They follow answers in one piece.
- `GeminiReplayIsConversation` counts thoughts as text: the code does not look at
  `"thought": true` when a part comes back. Without the optional ids the link between
  results and calls is lost, and only the rest is compared.
- `PartsAreTheAnswer` promises a call as one part only if it came in one fragment.
  Fragments are told as `functionCall` parts of their own, all but the first without id and name.
  It asks the finish reason only to be among those told, since every chunk
  without one says `STOP`.
- `FailureIsTold` speaks of failures that a client of HTTP can see. A body that is cut
  but closed cleanly counts as complete, and an error object inside a body of status
  200 is told as an empty answer (section 3).
- `CallComesBackAsItsTool` excludes two tools with one full name (a tool `a__b`
  and a tool `b` of namespace `a`, or one declared twice): they share an upstream name, and
  the last declared is told. Endpoints other than Responses never map a name back, so
  there it holds for names that are safe already.
- `ReplayNamesTheTool` needs the same tools declared first. Without the private name it
  needs the safe name to be free of other tools.
- `ChoiceIsMeant` and `OnlyAllowedAreSent` exclude a text that is also another
  tool's upstream name.
- `WalkListsWhatStayed` excludes walks whose cursor left the list or moved:
  `Paginate` then returns an empty last page.

## 7. Proofs

Every theorem holds for all values of the constants that meet the assumptions named;
TLC evaluates the assumptions in the runs of section 4, which also check each property
named here on a small instance.

### The store: `StoreLemmas`, `StoreProofs`

About `Store` and `StoreLoops`, for any sets of ids and items, any limits, TTL, interval and
clock bound:

| Theorem | States |
| --- | --- |
| `StoreInvariant` | `Spec => []IInv` |
| `TypeCorrect` | `Spec => []TypeOK` |
| `CountsAreExact`, `IndexIsExact` | `Spec => []RefCountExact`, `[]IndexExact` |
| `HeldStaysIndexed` | `Spec => []HeldIsIndexed` |
| `PruneFloorHolds`, `IdleEntriesGo` | `Spec => []PruneFloor`, `[]NothingIdleTooLong` |
| `OrderStaysQueue` | `Spec => []OrderIsQueue` |
| `CapacityHolds` | `Spec => []CapacityRespected` |
| `RemovalsHaveReasons` | `Spec => RemovedForAReason`, an action property |
| `LoopsStandForTheStore` | `LoopSpec => []LoopInv` |
| `LoopsComputeTheStore` | `LoopSpec => []LoopsAgree` |
| `OrderSlicesStayExact` | `LoopSpec => []OrderSlicesExact` |

*Assumptions*: `LimitsAssumption` (limits, TTL and interval are naturals,
which `normalizeLimits` establishes) and `CallsAssumption` (the items of a call are
sequences of item ids, and the clock bound is a natural).

*Argument.* None of the properties is inductive alone. The counts are exact only
if the index is exactly what is counted; the order is a queue only of what is
live; eviction keeps to the limit only if the queue has a front to take. And
inside one method they do not hold at all: a save first lets go of references to
slices that are still there, then counts slices that are not there yet. So the
strengthening has two layers. `CountsExactly(s, H)` says that the counts stand
for the slices in `H`, whatever `H` is; each helper gets a lemma that moves `H`
(`ReleaseItemRefsStore` takes slices out, `AddItemRefsStore` puts one in), and a
method's lemma chains them from "all slices that hold items" back to it. `Good(s, now)`
is the conjunction for a whole store: its shape, counts, queue, limits, no time in
the future, and the prune floor. One lemma per call shows that it keeps `Good`,
`NextIInv` puts the cases together, and the theorems follow. That a
prune leaves nothing older than its cutoff needs that other calls only
raise access times (`TimesFrom`). For `RemovedForAReason` the lemmas of the saves say
besides *what* went (`RoomFor`): a set that no survivor stands before, and that eviction stops
at the limit.

*The loops.* `LoopInv` says that the two stores agree field by field (`Agrees`), that the pairs of
the slices are the relation `before`, and that each slice is a walk of its table: every live key
once (`Ordered`). Within a save the slices list the keys from before it, so the lemmas take the set `K` of
the keys listed as a parameter (`Beside`). What a loop makes is shown by the least turn after which it
would not be so (`SmallestOf`), with an invariant per loop: a release of the ids one by one against the
loss of all at once (`ReleaseWalkLessens`, and `LessenedTwice` that two losses add up), for any walk of the
ids, so the order of Go's map does not matter (`ReleaseOrderIsFree`); a prune of a part of the keys against `drop` of that part (`DropTwice`); an eviction
that has taken the front against the same `evict`: taking the front away changes nothing about who else has to go
(`EvictFirst`), so the loop ends where `evict` does at once. The slices need `forgetID` to take out one
place and keep the order of the others (`ForgetPlaces`), and `rememberLast` to put a key last
(`RememberWalks`).

### Responses and Conversations: `ResponsesProofs`

About `ResponsesAPI`, for any number of requests of any kind, any limits and clock:

| Theorem | States |
| --- | --- |
| `ResponsesInvariant` | `Spec => []IInv` |
| `ConversationNeverTorn` | `Spec => []ConversationIsWholeTurns` |
| `ContextStaysAPrefix` | `Spec => []ContextIsPrefix` |
| `ContextNeverTorn` | `Spec => []PreviousContextWholeOrNone` |
| `DeletionIsFinal` | `Spec => []DeletedIsGone` |
| `StoredResponseIsTheAnswer` | `Spec => []StoredAsAnswered` |
| `ItemsStayReferable` | `Spec => []StoredItemsCanBeReferenced` |
| `NoTraceBeforeTheSave` | `Spec => []NothingBeforeTheSave` |
| `AnswerIsRetrievable` | `Spec => AnsweredIsStored`, an action property |

*Assumptions*: `LimitsAssumption`, and `IdsAssumption`: each request makes ids of its own for what
it creates and for its items (`NewID`).

*Argument.* A request reads the store in one critical section and writes it in another; what
it read may be gone by then. The invariant says what remains true in between. `Placed`: what
the place of a request says of its kind and answer. `Sourced`: each item in its local
variables is its own or was made by a request that saved it. `Informed`: each object it names
was once there, its maker is done, its context is the whole transcript of that response or
nothing, or a beginning of the conversation while that lives. `Stored`: an object in the
store is what its request was answered with. A step of one request leaves the others'
variables alone (`Advances`), and its effect on the store is one of few: some objects go (`Quiet`),
and one conversation grows or one object comes (`Grown`). Lemmas about these effects show that they
keep all four parts, and one per handler step shows that it has such an effect. `Good` of `StoreLemmas` is a conjunct, so the store's own facts come for free.
Deletion is final because a save appends only to a conversation that is there and no id is made
twice. `ConversationIsWholeTurns` has its own invariant, `AllWhole`, on top: the order of the turns
is the witness, and it grows by the turn that is saved.

### Chat Completions: `ChatCompletionsProofs`

About `ChatCompletionsAPI`, for any requests, ids, times, limits and page sizes:

| Theorem | States |
| --- | --- |
| `CompletionsInvariant` | `Spec => []IInv` |
| `CompletionsAreWhole` | `Spec => []CompletionIsOneAnswer` |
| `WalkIsComplete` | `Spec => []WalkListsWhatStayed` |

*Assumptions*: `LimitsAssumption`, and `IdsAssumption`: ids are numbers, for their order, and a page has an entry.

*Argument.* `IInv` is built as above: `Placed`, `Stored` and `Good`. For the walk the order of
the list, by time and then id in either direction (`Ahead`), is shown to be total and strict. `WInv` says of
an id that stayed: while the cursor is ahead of it (`Pending`) it was not listed, and after that it was
listed exactly once. A page takes what comes right after the cursor, so it moves an id from one side
to the other exactly when it lists it, provided that the cursor itself is still in the list; when it is
not, `walk.lost` is set and the property promises nothing.

### Responses streaming: `ResponseStreamProofs`

About `ResponseStream`, for any kinds of chunks, any number of them, any call indexes, and a
client that may go at any time:

| Theorem | States |
| --- | --- |
| `StreamInvariant` | `Spec => []IInv` |
| `StreamIsFollowable` | `Spec => []EventsAreFollowable` |
| `IndexesAreFinal` | `Spec => []IndexesAreFinalPlaces` |
| `StoredAnswerIsWhole` | `Spec => []StoredIsTheAnswer` |
| `SavedOnlyWhenWhole` | `Spec => []SavedIfEnded` |

*Assumption*: `ChunksAssumption`: a chunk is a record of the shape the handler reads, and brings
fragments of finitely many calls.

*Argument.* The invariant has three parts beside types. `Gathered`: the variables of the
handler are what the chunks said, so reasoning and text are the numbers of the chunks that
brought them in order, each call is its fragments in order, and the two output indexes say
which of the two began first. It is stated with the same `InOrder` as `Answer`, and one lemma
says how `InOrder` grows by the latest chunk (`InOrderAppend`). `Kept`: when a response is saved and
with what. `Heard`: what the client was told. That an event fits those before it is a
property of all pairs of events; the invariant reduces it to a map from the items told of to their indexes
(`Traced(es, o, d)`: the events `es` opened the items of `o` at its indexes, and those of `d` are
done), and each writing of events is a step on this map: an item is added under a free index,
changed while it is open, or done. That what is saved is what the call would have stored without
streaming, up to the place of the message, is `StreamedIsWhole`. The last step adds the calls after the texts, at the places where
the stored output has them, which makes the indexes final.

### Anthropic streaming: `AnthropicStreamProofs`

About `AnthropicStream`, for any kinds of chunks, any number of them, any call indexes, and a
client that may go at any time:

| Theorem | States |
| --- | --- |
| `MessageInvariant` | `Spec => []IInv` |
| `BlocksCanBeFollowed` | `Spec => []BlocksAreFollowable` |
| `StopReasonIsTheAnswers` | `Spec => []StopReasonAgrees` |
| `BlocksMakeTheAnswer` | `Spec => []BlocksAreTheAnswer` |

*Assumption*: `ChunksAssumption`, as above.

*Argument.* Again the events are reduced to a map, here from block indexes to kinds
(`Traced(es, o, N, d)`: the client was told of the blocks `0..N-1`, those of `d` have stopped). What keeps
the map in step with the handler is `Says`: `N` is the number of blocks begun, thinking is at 0 and
text at `textIndex`. It breaks exactly when reasoning begins after text, because the code then
begins a second block 0; that this makes `TextFirst` true, and that `TextFirst` stays
true, is the lemma that justifies the exception. At the end `nextIndex` is `N`, so the calls
start under free indexes. For the stop reason the invariant says that it is that of the *last chunk that
says one* (`StopIsOf`), which is more than the property: the property compares it with an answer
in one piece, where calls win over any `finish_reason`, and the two agree unless another reason comes
after the last call.

*The answer put together.* `BlocksAreTheAnswer` is about the end, when the client joins what its blocks
brought. `AnswerInv` says what this rests on: while the stream runs and the client listens, it
has of thinking and of text exactly what the chunks brought of them (`Collected`), and the calls of the handler
are the fragments of each index merged in order (`CallsGathered`). `Gives(es, kind, T, p)` says which pieces
`p` a list of events gives to the blocks `T` of a kind; a lemma per event says how it changes them. The client's joining
is a flattening of a sequence of any length. That it grows by one piece at a time is shown
with the least length at which it would not (`SmallestOf`), so no induction theorem of the library
is needed. After the loop over the calls the blocks of kind `tool_use` are the calls in order, if
no index is missing between them.

### Tool names: `AdapterProofs`, first part

About `ToolNames`, for any adapters, tools and choices, any
bound on their number and any function `Candidate`:

| Theorem | States |
| --- | --- |
| `NamesInvariant` | `Spec => []IInv` |
| `NamesTyped` | `Spec => []TypeOK` |
| `NamesStayDistinct` | `Spec => []NamesAreDistinct` |
| `CallsComeBack` | `Spec => []CallComesBackAsItsTool` |
| `ReplaysNameTheTool` | `Spec => []ReplayNamesTheTool` |
| `ChoicesAreMeant` | `Spec => []ChoiceIsMeant` |
| `AllowedAreSent` | `Spec => []OnlyAllowedAreSent` |

*Assumptions*: `CandidatesAssumption`: the candidates after the first of one name
differ from each other, and none is empty. Both follow from the suffixes that the code
appends. `ChoicesAssumption`: a choice that names a tool has a name and one of the two types, and an entry
of a list names something, as `MapToolChoice` and `AllowedEntryMatches` require.

*Argument.* First, the loop of `UniqueUpstreamToolName` ends: among `MaxTools + 1` different
candidates one is not taken, by counting (`SomeCandidateUnused`, `UniqueIsFirstFree`), so the name given is
free or belongs to an equal full name. Then the map `used` is a function from
names to full names that agrees with every tool named so far, which makes different full names
different names; that is `IInv`. For the second request `PInv` adds that a name is the
*first* free candidate given the names before it, and that this depends on
nothing but the tools declared before: so equal beginnings get equal names. For the choices `CInv` adds what was asked and that what is sent is what the mapping made of it. The map
from names back to tools holds each tool under its name and nothing else (`MapHolds`), so a match is of a tool
that was meant or of one whose name shadows it, which the properties exclude.

### Conversation replay: `AdapterProofs`, second part

About `ConversationReplay` and `TurnItems`, for conversations of any length with any number
of calls in an answer:

| Theorem | States |
| --- | --- |
| `ReplayInvariant` | `ReplaySpec => []ReplayInv` |
| `StoredItemsSayTheConversation` | `ReplaySpec => []StoredReplayIsConversation` |
| `PublicItemsSayTheConversation` | `ReplaySpec => []PublicReplayIsConversation` |

*Assumptions*: `ReplayAssumption`: the two bounds are numbers. Nothing is assumed of arguments, of what
they hold as input, and of which tools are custom.

*Argument.* `InputItemsToChatMessages` reads the items from the left; an item may take calls after it, so what an
item becomes depends on items of later answers. The properties are inductive only if reading *splits* where
a step begins: reading `a` and then `b` gives the messages of `a \o b` if no item of `a` takes an item of `b`
(`KeepsTo`, `ReadingSplits`). For stored items this follows from the private fields: turns are numbers of steps
(`TurnsUpTo`), so the calls of a new answer have a turn that no item has, and the items without a turn are not
followed by calls (`NoCallAfterLoneText`; it is here that the exception `Apart` is needed). The items that
a client was shown have no turns; there it is the item before the calls that must not take any
(`PublicKeeps`). Then one answer is left: its items are one message (`TurnSays`), as the
first item that can take calls takes all of them (`AllJoin`) and the first reasoning found is the answer's
(`FirstTextOfCalls`), and every call goes through its item and back to what `Repeated` says of it
(`CallComesBack`). `ReplayInv` adds that the items are those of the steps end to end, and TLC found no state
of a small instance that breaks it before it was proved.

The two recursions, reading and `FlattenSeq`, are no induction for the prover: that
they exist as functions, agree on equal beginnings and grow at the end is shown with the least number
for which they would not (`ReadsExist`, `FlattensAgree`, `FlattenAppend`, by `SmallestOf`). The two parts of
the module do not use each other.

### Gemini and the GLM client: `GeminiProofs`

About `GeminiAPI` and the client `GLMClient` under it, for any chunks,
any statuses and any number of lines:

| Theorem | States |
| --- | --- |
| `CallInvariant` | `Spec => []IInv` |
| `FailuresAreTold` | `Spec => []FailureIsTold` |
| `LinesMakeTheCall` | `Spec => ImplementsStreamChat` |
| `ChunksAreTold` | `Spec => []ToldInv` |
| `PartsMakeTheAnswer` | `Spec => []PartsAreTheAnswer` |

*Assumptions*: `StatusesAssumption`: a body may have a line, and statuses are those of HTTP
from 200 on. `ChunksAssumption`, for the last two: a chunk is a record of the shape the handler
reads, and brings fragments of finitely many calls.

*Argument.* That a client is told of failures is not inductive: it connects what is told last
with `wrong`, which was set many steps before, or not at all if the client left. The
invariant goes through the program's own state: the call has failed exactly if it has an error
status, it fails only because something went wrong or the client is gone
(`FailedForAReason`), and the handler tells an error only when it returns and the call has
failed (`ErrorIsLast`). For the refinement it has to say besides that every chunk had a line
(`LinesSuffice`), and that the abstract `upstream` is open until one of the two ends is reached:
then every line is a chunk, an end or a stutter (`StepImplements`). For the parts,
`Took(s, t)` says that who was told `t` got of text, of thoughts, of each call and of reasons to end what
the chunks `s` brought. `ToldInv` keeps it chunk by chunk for a client that listens to a
stream; one that does not stream is told the merged answer at once, and a lemma shows that this `Took` all chunks.

### Only model-checked

- `EveryRequestIsAnswered` and `StreamIsEnded`: liveness under fairness, which needs ENABLED
  and is beyond the prover.
- `AnthropicReplayIsConversation` and `GeminiReplayIsConversation`: they compare what folds make of two
  whole conversations, which is an induction over data. Those of the Responses items are done above by
  least counterexamples. Here both sides are folds of a fold (`Grouped`, then `Split` over the blocks of a group, then
  `Joined`), each over an operator with a LAMBDA or an operator parameter, and a step changes the last group
  instead of adding one: a proof needs that all three commute with that change, and there
  is no fact about folds to cite that does not take an operator.

## 8. Not modelled

- *Request options*: sampling parameters, thinking, output formats and limits are
  copied or renamed field by field (`BuildUpstreamPayload` of each adapter,
  `MapReasoning`, `MapThinking`, `MapOutputFormat`, `MapGenerationConfig`, `MapTextFormat`); no
  step looks at them again, and the unit tests cover them. One thing there depends
  on Go's map order: Anthropic's `metadata`, `container`, `context` and `mcp_servers` are all
  written to `user` (`messages.go:45-63`), so any of them may win.
- *Defaults and validation* of fields that are missing or of the wrong type, token counts and
  usage numbers: pure, and seen by no property.
- *Chat's legacy `functions`*, which are tools without a second kind.
- SSE formatting, authentication, JSON limits, logging, configuration parsing, the
  process entry point: nothing is kept between two requests.

## 9. Plan

Done, in this order: `StoreOps`, `Store`, `StoreLoops`, `ResponsesAPI`,
`StoreProofs`, `TurnItems`, `ConversationReplay`, `StreamChat`, `ResponseStream`,
`AnthropicStream`, `ChatCompletionsAPI`, `ToolNames`,
`MessageBlocks`, `GLMClient`, `GeminiAPI`, `GeminiProofs`, `StoreLemmas` (taken out of
`StoreProofs`), `ResponsesProofs`, `ChatCompletionsProofs`, `ResponseStreamProofs`,
`AnthropicStreamProofs`, `AdapterProofs`;
and, in `StoreProofs`, the loops of `StoreLoops`; in `AnthropicStreamProofs` and
`GeminiProofs`, what a client puts together.

Next, proofs:

1. The replay properties of `ConversationReplay` for Anthropic and Gemini clients.
2. The endpoint modules as refinements of the store: every step of `ResponsesAPI` and
   `ChatCompletionsAPI` is a step of `Store` (`INSTANCE Store WITH ...`), first for TLC and then
   proved from the lemmas of `StoreLemmas`.
