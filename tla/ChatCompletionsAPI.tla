------------------------- MODULE ChatCompletionsAPI -------------------------
(***************************************************************************)
(* The HTTP handlers of the Chat Completions endpoints                     *)
(* (internal/httpapi/router.go, internal/adapters/openai/chat) over the    *)
(* store: requests that create, read, update and delete stored             *)
(* completions, and one client that walks the list of them page by page    *)
(* meanwhile.  As in ResponsesAPI, an action is one critical section of    *)
(* the store or one event of the upstream call.                            *)
(*                                                                         *)
(* The id of a completion and the time it was created come from the        *)
(* upstream, so two requests may get the same id, and completions need not *)
(* be saved in the order of their times.  What a completion and its        *)
(* messages say is the request they answer.                                *)
(***************************************************************************)
EXTENDS StoreOps

CONSTANTS
  Requests,      \* the requests of a run
  MaxCreated,    \* bound: the times the upstream gives
  Listings,      \* the <<filter, order>> that the walk may ask for
  PageSize,      \* the limit of the walk, 1 or more after Paginate's correction
  MaxTime        \* bound: the clock stops here

Tags == {"tagged", "untagged"}      \* metadata that a filter asks for, or not

Completion == [by : Requests, created : 1..MaxCreated, metadata : Tags]

\* The ids of ChatIds are the upstream's, numbers in the order of the strings;
\* the other tables are not used.
ASSUME IdsAssumption ==
  /\ ResponseIds = {} /\ ConversationIds = {} /\ ChatIds \subseteq Nat
  /\ ItemIds = Requests /\ Values = Completion
  /\ MaxCreated \in Nat /\ PageSize \in Nat \ {0} /\ MaxTime \in Nat

VARIABLES
  store,
  now,
  req,           \* req[q]: what the goroutine of q has in its local variables
  walk,          \* the client that lists
  stayed         \* the ids that the list has held, in one place, since the walk began

vars == <<store, now, req, walk, stayed>>

Chat(id) == <<"chat", id>>

Unborn == [ pc |-> "idle", kind |-> "none", id |-> {}, keep |-> FALSE, stream |-> FALSE,
            created |-> 0, metadata |-> "untagged", answer |-> "none" ]

NoWalk == [pc |-> "idle", filter |-> {}, order |-> "asc", cursor |-> {}, listed |-> <<>>, lost |-> FALSE]

Init ==
  /\ store = EmptyStore
  /\ now = 0
  /\ req = [q \in Requests |-> Unborn]
  /\ walk = NoWalk
  /\ stayed = {}

At(q, pc) == req[q].pc = pc

\* A request that stored nothing is forgotten when it is answered.
Answer(q, answer) ==
  req' = [req EXCEPT ![q] = IF At(q, "save") THEN [@ EXCEPT !.pc = "done", !.answer = answer]
                                             ELSE [Unborn EXCEPT !.pc = "done", !.answer = answer]]

-----------------------------------------------------------------------------
(* Requests.                                                               *)

\* serveHTTP: PruneIfDue, in a critical section of its own.
Arrive(q, request, first) ==
  /\ At(q, "idle")
  /\ req' = [req EXCEPT ![q] = [request EXCEPT !.pc = first]]
  /\ store' = pruneExpired(store, now, FALSE)
  /\ UNCHANGED <<now, walk>>

ArriveCreate(q) ==
  \E keep, stream \in BOOLEAN, metadata \in Tags :
    Arrive(q, [Unborn EXCEPT !.kind = "create", !.keep = keep, !.stream = stream,
                             !.metadata = metadata], "upstream")

ArriveOnCompletion(q) ==
  \E kind \in {"get", "update", "delete"}, id \in ChatIds :
    Arrive(q, [Unborn EXCEPT !.kind = kind, !.id = {id}], "act")

\* A stream is passed on chunk by chunk and not looked at again, and without
\* "store" an answer is not kept either.
UpstreamUnkept(q) ==
  /\ At(q, "upstream") /\ (req[q].stream \/ ~req[q].keep)
  /\ Answer(q, "ok")
  /\ UNCHANGED <<store, now, walk>>

\* CompletionFromUpstream: id and created are the upstream's, or made here if it
\* gives none.
UpstreamAnswers(q) ==
  /\ At(q, "upstream") /\ ~req[q].stream /\ req[q].keep
  /\ \E id \in ChatIds, created \in 1..MaxCreated :
       req' = [req EXCEPT ![q].id = {id}, ![q].created = created, ![q].pc = "save"]
  /\ UNCHANGED <<store, now, walk>>

UpstreamFails(q) ==
  /\ At(q, "upstream")
  /\ Answer(q, "error")
  /\ UNCHANGED <<store, now, walk>>

CompletionOf(q) == [by |-> q, created |-> req[q].created, metadata |-> req[q].metadata]

\* The messages of a completion that is there already are kept.
SaveMutantOldMessages(q) ==
  /\ At(q, "save")
  /\ \E id \in req[q].id :
       LET messages == IF Chat(id) \in Live(store) THEN store.lists[<<Chat(id), "messages">>] ELSE <<q>>
       IN  store' = SaveChatCompletion(store, Chat(id), CompletionOf(q), messages, now)
  /\ Answer(q, "ok")
  /\ UNCHANGED <<now, walk>>

Save(q) ==
  /\ At(q, "save")
  /\ \E id \in req[q].id :
       store' = SaveChatCompletion(store, Chat(id), CompletionOf(q), <<q>>, now)
  /\ Answer(q, "ok")
  /\ UNCHANGED <<now, walk>>

Act(q, kind) == At(q, "act") /\ req[q].kind = kind /\ UNCHANGED <<now, walk>>

Found(id) == IF Chat(id) \in Live(store) THEN "ok" ELSE "error"

\* GET of a completion or of its messages.
Get(q) ==
  /\ Act(q, "get")
  /\ \E id \in req[q].id : store' = read(store, Chat(id), now) /\ Answer(q, Found(id))

\* UpdateChatCompletion changes the metadata of the completion as it is now.
Update(q) ==
  /\ Act(q, "update")
  /\ \E id \in req[q].id, metadata \in Tags :
       /\ store' = IF Chat(id) \in Live(store)
                     THEN update(store, Chat(id),
                                 [store.objects[Chat(id)] EXCEPT !.metadata = metadata], now)
                     ELSE store
       /\ Answer(q, Found(id))

Delete(q) ==
  /\ Act(q, "delete")
  /\ \E id \in req[q].id : store' = delete(store, Chat(id)) /\ Answer(q, Found(id))

-----------------------------------------------------------------------------
(* GET /v1/chat/completions.                                               *)

\* matchesMetadata
Matches(completion, filter) == filter \subseteq {completion.metadata}

ListChatCompletions(s, filter) ==
  { id \in ChatIds : Chat(id) \in Live(s) /\ Matches(s.objects[Chat(id)], filter) }

\* SortByCreatedThenID, reversed by Paginate for "desc".
Earlier(s, order, i, j) ==
  LET ci == s.objects[Chat(i)].created
      cj == s.objects[Chat(j)].created
      asc == ci < cj \/ (ci = cj /\ i < j)
  IN  IF order = "asc" THEN asc ELSE ~asc /\ i # j

\* The entry right behind the cursor is skipped.
AfterMutantSkips(s, ids, order, cursor) ==
  IF cursor = {} THEN ids
  ELSE { id \in ids : \E c \in cursor \cap ids, d \in ids :
                        Earlier(s, order, c, d) /\ Earlier(s, order, d, id) }

\* What Paginate leaves after the cursor: the entries behind it, and nothing if
\* the cursor is not in the list.
After(s, ids, order, cursor) ==
  IF cursor = {} THEN ids
  ELSE { id \in ids : \E c \in cursor \cap ids : Earlier(s, order, c, id) }

\* The first PageSize of ids, in order.
Page(s, ids, order) ==
  LET rank(id) == Cardinality({ other \in ids : Earlier(s, order, other, id) }) + 1
      size == IF Cardinality(ids) < PageSize THEN Cardinality(ids) ELSE PageSize
  IN  [ n \in 1..size |-> CHOOSE id \in ids : rank(id) = n ]

ArriveList ==
  /\ walk.pc \in {"idle", "next"}
  /\ \E listing \in Listings :
       walk' = IF walk.pc = "next" THEN [walk EXCEPT !.pc = "list"]
               ELSE [walk EXCEPT !.pc = "list", !.filter = listing[1], !.order = listing[2]]
  /\ store' = pruneExpired(store, now, FALSE)
  /\ UNCHANGED <<now, req>>

\* One page.  The client goes on from last_id while has_more is true.  "lost" is
\* remembered for the properties: the cursor was gone, or had moved.
List ==
  LET ids  == ListChatCompletions(store, walk.filter)
      cursor == { c[1] : c \in walk.cursor }
      rest == After(store, ids, walk.order, cursor)
      page == Page(store, rest, walk.order)
      last == page[Len(page)]
  IN  /\ walk.pc = "list"
      /\ walk' = [ walk EXCEPT
                     !.pc = IF Cardinality(rest) > PageSize THEN "next" ELSE "done",
                     !.listed = @ \o page,
                     !.cursor = IF page = <<>> THEN @
                                ELSE {<<last, store.objects[Chat(last)].created>>},
                     !.lost = @ \/ \E c \in walk.cursor :
                                     c[1] \notin ids \/ store.objects[Chat(c[1])].created # c[2] ]
      /\ UNCHANGED <<store, now, req>>

-----------------------------------------------------------------------------

Tick == now < MaxTime /\ now' = now + 1 /\ UNCHANGED <<store, req, walk>>

\* An id stays while its completion is in the list, created at the same time.
Stay ==
  stayed' =
    IF walk.pc \in {"idle", "list"} /\ walk.listed = <<>> THEN ListChatCompletions(store', walk'.filter)
    ELSE { id \in stayed : /\ id \in ListChatCompletions(store', walk.filter)
                           /\ store'.objects[Chat(id)].created = store.objects[Chat(id)].created }

Next ==
  \/ Tick /\ Stay
  \/ ArriveList /\ Stay
  \/ List /\ Stay
  \/ \E q \in Requests :
       \/ ArriveCreate(q) /\ Stay
       \/ UpstreamUnkept(q) /\ Stay
       \/ UpstreamAnswers(q) /\ Stay
       \/ UpstreamFails(q) /\ Stay
       \/ Save(q) /\ Stay
       \/ ArriveOnCompletion(q) /\ Stay
       \/ Get(q) /\ Stay
       \/ Update(q) /\ Stay
       \/ Delete(q) /\ Stay

Spec == Init /\ [][Next]_vars

-----------------------------------------------------------------------------

\* A walk that was not thrown off its place lists every completion that stayed
\* in the list all the while exactly once, whatever was saved, saved again,
\* retagged, deleted, evicted or expired around it between two pages.
WalkListsWhatStayed ==
  walk.pc = "done" /\ ~walk.lost =>
    \A id \in stayed : Cardinality({ n \in DOMAIN walk.listed : walk.listed[n] = id }) = 1

\* A stored completion and its messages are those of one answer, also when the
\* upstream gives an id twice or the metadata is updated between the two.
CompletionIsOneAnswer ==
  \A key \in Live(store) :
    LET q == store.objects[key].by IN
      /\ req[q].kind = "create" /\ req[q].keep /\ req[q].answer = "ok"
      /\ req[q].id = {key[2]} /\ req[q].created = store.objects[key].created
      /\ store.lists[<<key, "messages">>] = <<q>>

\* README.md:232, "When a request sets store=true, Chat Completions are stored in
\* local memory": one that was answered last is in the table.
StoredWhenAsked ==
  [][\A q \in Requests : req[q].keep /\ ~At(q, "done") /\ req'[q].answer = "ok" =>
       \E key \in Live(store') : store'.objects[key].by = q]_vars
=============================================================================
