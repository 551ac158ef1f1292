---------------------------- MODULE ResponsesAPI ----------------------------
(***************************************************************************)
(* The HTTP handlers of the Responses and Conversations endpoints          *)
(* (internal/httpapi/router.go, internal/adapters/openai/responses), each  *)
(* request served by its own goroutine, all over one store.                *)
(*                                                                         *)
(* A handler is atomic only between two calls of the store: every action   *)
(* is one critical section of the store, or one event of the upstream      *)
(* call, and the requests interleave freely between them.  The streaming   *)
(* and the non-streaming handler of POST /v1/responses make the same store *)
(* calls in the same order, so one set of actions models both.             *)
(*                                                                         *)
(* A request q makes the ids <<"in", q>> and <<"out", q>> for the items it *)
(* brings and gets (shared.NewID), and its own name is the id of the       *)
(* response or conversation it creates.  Each request carries at most one  *)
(* own input item and one reference, and gets at most one output item.     *)
(***************************************************************************)
EXTENDS StoreOps

CONSTANTS
  Requests,      \* the requests of a run
  Kinds,         \* which of the endpoints they call
  InputShapes,   \* what their "input" may hold: subsets of {"own", "reference"}
  MaxTime        \* bound: the clock stops here

Metadata == {"metadata", "no metadata"}
Statuses == {"completed", "incomplete", "queued", "in_progress", "cancelled"}

\* The ids are made by the requests, and the chat table is not used.
ASSUME IdsAssumption ==
  /\ ResponseIds = Requests /\ ConversationIds = Requests /\ ChatIds = {}
  /\ ItemIds = {"in", "out"} \X Requests
  /\ Values = Metadata \cup Statuses
  /\ MaxTime \in Nat

VARIABLES
  store,
  now,
  req            \* req[q]: what the goroutine of q has in its local variables

vars == <<store, now, req>>

Response(q) == <<"response", q>>
Conversation(q) == <<"conversation", q>>

Unborn ==
  [ pc |-> "idle",               \* then "lookup", "context", "input", "upstream", "save",
                                 \* "create", "act", and at last "done"
    kind |-> "none",             \* the endpoint, one of Kinds
    target |-> {},               \* the object it names: no key or one
    input |-> <<>>,              \* its "input" or "items", references by id
    keep |-> FALSE,              \* payload["store"] != false
    context |-> <<>>,            \* contextItems
    output |-> <<>>,             \* outputItems
    status |-> "in_progress",    \* the status of the finished response
    answer |-> "none" ]          \* then "ok" or "error"

Init ==
  /\ store = EmptyStore
  /\ now = 0
  /\ req = [q \in Requests |-> Unborn]

At(q, pc) == req[q].pc = pc

Goto(q, pc) == req' = [req EXCEPT ![q].pc = pc]

Answer(q, answer) == req' = [req EXCEPT ![q].pc = "done", ![q].answer = answer]

-----------------------------------------------------------------------------
(* What clients may ask for.                                               *)

\* The ids a client can know: a response's from its first event or its answer,
\* a conversation's from the answer that created it, an item's from an answer
\* or because the client made it.  Any other id is as good as a deleted one.
Known(key) ==
  LET q == key[2] IN
    IF Kind(key) = "response" THEN req[q].kind = "respond" /\ req[q].pc \in {"upstream", "save", "done"}
                              ELSE req[q].kind = "converse" /\ At(q, "done")

KnownKeys == { key \in Key : Known(key) }

KnownItems ==
  { i \in ItemIds : i \in itemIDs(req[i[2]].input) \cup itemIDs(req[i[2]].output) /\ At(i[2], "done") }

Inputs(q, shape) ==
  { own \o ref : own \in IF "own" \in shape THEN {<< <<"in", q>> >>} ELSE {<<>>},
                 ref \in IF "reference" \in shape THEN { <<i>> : i \in KnownItems } ELSE {<<>>} }

\* serveHTTP: PruneIfDue comes before any handler, in a critical section of
\* its own.  The request and its body are then fixed.
Arrive(q, request, first) ==
  /\ At(q, "idle")
  /\ req' = [req EXCEPT ![q] = [request EXCEPT !.pc = first]]
  /\ store' = pruneExpired(store, now, FALSE)
  /\ UNCHANGED now

\* POST /v1/responses, and POST .../input_tokens and .../compact ("count"), which
\* prepare their input the same way and save nothing.  A body that names both a
\* conversation and a previous response is refused before any store call.
ArrivePostResponse(q) ==
  \E kind \in Kinds \cap {"respond", "count"}, shape \in InputShapes, target \in {{}} \cup { {key} : key \in KnownKeys }, keep \in BOOLEAN :
    \E input \in Inputs(q, shape) :
      Arrive(q, [Unborn EXCEPT !.kind = kind, !.target = target, !.input = input,
                               !.keep = keep], "lookup")

ArrivePostConversation(q) ==
  \E shape \in InputShapes : \E input \in Inputs(q, shape) :
    Arrive(q, [Unborn EXCEPT !.kind = "converse", !.input = input], "input")

\* POST /v1/conversations/{id}, with items of its own in the body or with references.
ArriveUpdate(q) ==
  \E key \in OfKind(KnownKeys, "conversation"), shape \in InputShapes :
    \E input \in Inputs(q, shape) :
      Arrive(q, [Unborn EXCEPT !.kind = "update", !.target = {key}, !.input = input], "act")

ArriveOnObject(q, kind, key) ==
  Arrive(q, [Unborn EXCEPT !.kind = kind, !.target = {key}], "act")

-----------------------------------------------------------------------------
(* POST /v1/responses: Prepare.                                            *)

\* contextItemsForPayload without conversation and previous_response_id.
LookupNothing(q) ==
  /\ At(q, "lookup") /\ req[q].target = {}
  /\ Goto(q, "input")
  /\ UNCHANGED <<store, now>>

\* ConversationItemsFor(conversationID)
LookupConversation(q) ==
  /\ At(q, "lookup")
  /\ \E key \in req[q].target :
       /\ Kind(key) = "conversation"
       /\ store' = read(store, key, now)
       /\ IF key \in Live(store)
            THEN req' = [req EXCEPT ![q].pc = "input",
                                    ![q].context = store.lists[<<key, "items">>]]
            ELSE Answer(q, "error")
  /\ UNCHANGED now

\* A previous response that is not there is waited for.
LookupPreviousMutantWaits(q) ==
  /\ At(q, "lookup")
  /\ \E key \in req[q].target \cap Live(store) :
       /\ Kind(key) = "response"
       /\ store' = read(store, key, now)
       /\ Goto(q, "context")
  /\ UNCHANGED now

\* Response(previousID): only whether it is there.
LookupPrevious(q) ==
  /\ At(q, "lookup")
  /\ \E key \in req[q].target :
       /\ Kind(key) = "response"
       /\ store' = read(store, key, now)
       /\ IF key \in Live(store) THEN Goto(q, "context") ELSE Answer(q, "error")
  /\ UNCHANGED now

\* The input of the previous response is read for its context.
FetchContextMutantInputOnly(q) ==
  /\ At(q, "context")
  /\ \E key \in req[q].target :
       /\ store' = read(store, key, now)
       /\ req' = [req EXCEPT ![q].pc = "input",
                             ![q].context = IF key \in Live(store)
                                              THEN store.lists[<<key, "input">>] ELSE <<>>]
  /\ UNCHANGED now

\* ResponseContext(previousID), in a second critical section.  Whether it
\* found anything is not looked at.
FetchContext(q) ==
  /\ At(q, "context")
  /\ \E key \in req[q].target :
       /\ store' = read(store, key, now)
       /\ req' = [req EXCEPT ![q].pc = "input",
                             ![q].context = IF key \in Live(store)
                                              THEN store.lists[<<key, "context">>] ELSE <<>>]
  /\ UNCHANGED now

\* NormalizeInputItems: every reference must be in the item index.  A response
\* needs something to say; a conversation may start empty.  Every item says
\* something here: a context of reasoning items alone, which the code refuses too,
\* is left out, and so is an item that the client gives an id in use.
Resolved(q) == \A i \in itemIDs(req[q].input) : i[2] # q => i \in store.ItemsByID

Sayable(q) == req[q].kind = "converse" \/ req[q].context \o req[q].input # <<>>

\* The items are registered as soon as they are read.
NormalizeInputMutantRegisters(q) ==
  /\ At(q, "input")
  /\ IF Resolved(q) /\ Sayable(q)
       THEN Goto(q, IF req[q].kind = "converse" THEN "create" ELSE "upstream")
       ELSE Answer(q, "error")
  /\ store' = registerItems(store, req[q].input)
  /\ UNCHANGED now

NormalizeInput(q) ==
  /\ At(q, "input")
  /\ IF Resolved(q) /\ Sayable(q)
       THEN Goto(q, IF req[q].kind = "converse" THEN "create" ELSE "upstream")
       ELSE Answer(q, "error")
  /\ UNCHANGED <<store, now>>

-----------------------------------------------------------------------------
(* POST /v1/responses: the upstream call and the save.                     *)

UpstreamAnswers(q) ==
  /\ At(q, "upstream")
  /\ \E output \in {<<>>, << <<"out", q>> >>}, status \in {"completed", "incomplete"} :
       IF req[q].kind = "respond"
         THEN req' = [req EXCEPT ![q].pc = "save", ![q].output = output, ![q].status = status]
         ELSE Answer(q, "ok")
  /\ UNCHANGED <<store, now>>

\* An error status, a broken or timed-out call, or a client that went away.
UpstreamFails(q) ==
  /\ At(q, "upstream")
  /\ Answer(q, "error")
  /\ UNCHANGED <<store, now>>

AllItems(q) == req[q].context \o req[q].input

Named(q) == { key \in req[q].target : Kind(key) = "conversation" }

\* The conversation is written back as it was read, with the turn at its end.
SaveTurnMutantWritesBack(q) ==
  /\ At(q, "save")
  /\ LET saved == SaveResponse(store, Response(q), req[q].status, AllItems(q), req[q].output,
                               req[q].keep, Named(q), req[q].input, now)
     IN  store' = [saved EXCEPT !.lists =
                     [l \in DOMAIN @ |-> IF l[1] \in Named(q)
                                           THEN AllItems(q) \o req[q].output ELSE @[l]]]
  /\ Answer(q, "ok")
  /\ UNCHANGED now

SaveTurn(q) ==
  /\ At(q, "save")
  /\ store' = SaveResponse(store, Response(q), req[q].status, AllItems(q), req[q].output,
                           req[q].keep, Named(q), req[q].input, now)
  /\ Answer(q, "ok")
  /\ UNCHANGED now

-----------------------------------------------------------------------------
(* The other endpoints make one store call each.                           *)

\* POST /v1/conversations, after its items are normalized.
CreateConversation(q) ==
  /\ At(q, "create")
  /\ \E metadata \in Metadata :
       store' = SaveConversation(store, Conversation(q), metadata, req[q].input, now)
  /\ Answer(q, "ok")
  /\ UNCHANGED now

Act(q, kind) == At(q, "act") /\ req[q].kind = kind /\ UNCHANGED now

\* 404 for an object that is not there.
Found(key) == IF key \in Live(store) THEN "ok" ELSE "error"

\* GET of a response, its input_items, or a conversation.
Get(q) ==
  /\ Act(q, "get")
  /\ \E key \in req[q].target : store' = read(store, key, now) /\ Answer(q, Found(key))

\* DELETE of a response or a conversation.
DeleteObject(q) ==
  /\ Act(q, "delete")
  /\ \E key \in req[q].target : store' = delete(store, key) /\ Answer(q, Found(key))

\* Any response can be cancelled.
CancelledMutantAny(status) == "cancelled"

\* POST /v1/responses/{id}/cancel: the update function and the test after it.
Cancelled(status) == IF status \in {"queued", "in_progress"} THEN "cancelled" ELSE status

Cancel(q) ==
  /\ Act(q, "cancel")
  /\ \E key \in req[q].target :
       /\ Kind(key) = "response"
       /\ IF key \in Live(store)
            THEN LET status == Cancelled(store.objects[key]) IN
                   /\ store' = update(store, key, status, now)
                   /\ Answer(q, IF status = "cancelled" THEN "ok" ELSE "error")
            ELSE Answer(q, "error") /\ UNCHANGED store

\* The items in the body are appended.
UpdateConversationMutantAppends(q) ==
  /\ Act(q, "update")
  /\ \E key \in req[q].target, metadata \in Metadata :
       /\ Kind(key) = "conversation"
       /\ store' = LET updated == update(store, key, metadata, now)
                   IN  IF key \in Live(store) THEN appendTurn(updated, key, req[q].input, now) ELSE updated
       /\ Answer(q, Found(key))

\* POST /v1/conversations/{id}: only the metadata is read from the body, whatever
\* items it holds.
UpdateConversation(q) ==
  /\ Act(q, "update")
  /\ \E key \in req[q].target, metadata \in Metadata :
       /\ Kind(key) = "conversation"
       /\ store' = update(store, key, metadata, now)
       /\ Answer(q, Found(key))

-----------------------------------------------------------------------------

Tick == now < MaxTime /\ now' = now + 1 /\ UNCHANGED <<store, req>>

ArriveAny(q) ==
  \/ ArrivePostResponse(q)
  \/ "converse" \in Kinds /\ ArrivePostConversation(q)
  \/ \E kind \in Kinds \cap {"get", "delete"}, key \in KnownKeys : ArriveOnObject(q, kind, key)
  \/ \E kind \in Kinds \cap {"cancel"}, key \in OfKind(KnownKeys, "response") :
        ArriveOnObject(q, kind, key)
  \/ "update" \in Kinds /\ ArriveUpdate(q)

\* What the server does for a request it has accepted.
Upstream(q) == UpstreamAnswers(q) \/ UpstreamFails(q)

Serve(q) ==
  \/ LookupNothing(q) \/ LookupConversation(q) \/ LookupPrevious(q) \/ FetchContext(q)
  \/ NormalizeInput(q) \/ Upstream(q) \/ SaveTurn(q)
  \/ CreateConversation(q) \/ Get(q) \/ DeleteObject(q) \/ Cancel(q) \/ UpdateConversation(q)

Next == Tick \/ \E q \in Requests : ArriveAny(q) \/ Serve(q)

Spec == Init /\ [][Next]_vars

\* A goroutine that can run eventually runs, and the upstream call ends: the
\* HTTP client of upstream/glm carries a timeout that covers the body too.
\* Nothing obliges a client to send a request, or the clock to advance.
FairSpec == Spec /\ \A q \in Requests : WF_vars(Serve(q))

-----------------------------------------------------------------------------
(* What the handlers promise together.                                     *)

SeqX == INSTANCE SequencesExt

Turn(q) == req[q].input \o req[q].output

\* The requests that were answered on conversation c.
AnsweredOn(c) ==
  { q \in Requests : req[q].kind = "respond" /\ req[q].target = {c} /\ req[q].answer = "ok" }

\* However requests on one conversation overlap, the conversation is its
\* opening items and then the turn of every answered POST /v1/responses, each
\* whole and each once: no turn is torn, doubled, or lost to another that started
\* from the same context (SaveResponse appends to the list as it is at the end).
\* An update of the conversation adds nothing, with items in its body or without,
\* although README.md:161 says "Append to or update".
ConversationIsWholeTurns ==
  \A c \in OfKind(Live(store), "conversation") :
    \E order \in SeqX!SetToSeqs(AnsweredOn(c)) :
      store.lists[<<c, "items">>] =
        req[c[2]].input \o SeqX!FlattenSeq([n \in DOMAIN order |-> Turn(order[n])])

\* What a request sent upstream as its conversation was the conversation at
\* one moment: as long as the conversation lives, a beginning of it.
ContextIsPrefix ==
  \A q \in Requests : \A c \in OfKind(req[q].target, "conversation") :
    c \in Live(store) => SeqX!IsPrefix(req[q].context, store.lists[<<c, "items">>])

Transcript(q) == AllItems(q) \o req[q].output

\* A stored response is for ever what its request was answered: no later
\* request, update or cancellation changes its status, input or context.
StoredAsAnswered ==
  \A key \in OfKind(Live(store), "response") :
    /\ store.objects[key] = req[key[2]].status
    /\ store.lists[<<key, "input">>] = AllItems(key[2])
    /\ store.lists[<<key, "context">>] = Transcript(key[2])

\* A request leaves nothing behind before its save, or if it fails, or if it
\* only counts, compacts or updates: a failed upstream call or a refused input
\* stores no object, and none of these indexes an item.
NothingBeforeTheSave ==
  \A q \in Requests : req[q].answer # "ok" \/ req[q].kind \in {"count", "update"} =>
    /\ Response(q) \notin Live(store) /\ Conversation(q) \notin Live(store)
    /\ <<"in", q>> \notin store.ItemsByID /\ <<"out", q>> \notin store.ItemsByID

\* A deletion that was answered is final, also for the requests that looked
\* the object up before it and save after it.
DeletedIsGone ==
  \A q \in Requests : req[q].kind = "delete" /\ req[q].answer = "ok" =>
    req[q].target \cap Live(store) = {}

\* An item of a stored object can be referenced: the index has it, even when
\* the object it was first saved with was deleted while the reference was in
\* a request under way.
StoredItemsCanBeReferenced ==
  \A l \in Holding(store) : itemIDs(store.lists[l]) \subseteq store.ItemsByID

Creates(q) == req[q].kind = "converse" \/ (req[q].kind = "respond" /\ req[q].keep)

\* Who gets an answer can retrieve what it says: the save that came before it
\* did not lose the new object to its own eviction, however full the table
\* (rememberID before evictResponsesLocked, from the front of the order).
AnsweredIsStored ==
  [][ \A q \in Requests : Creates(q) /\ ~At(q, "done") /\ req'[q].answer = "ok" =>
        (IF req[q].kind = "converse" THEN Conversation(q) ELSE Response(q)) \in Live(store') ]_vars

\* README.md:422, "stores Responses ... to support compatibility features such
\* as previous_response_id", and the check that refuses an unknown one: a
\* request answered with a previous response was answered in its context.
PreviousContextCarried ==
  \A q \in Requests : \A key \in OfKind(req[q].target, "response") :
    req[q].kind = "respond" /\ req[q].answer = "ok" => req[q].context = Transcript(key[2])

\* The weaker fact that does hold: the context of the previous response is
\* carried whole or not at all.
PreviousContextWholeOrNone ==
  \A q \in Requests : \A key \in OfKind(req[q].target, "response") :
    req[q].context \in {<<>>, Transcript(key[2])}

\* Every request the server has accepted is answered.
EveryRequestIsAnswered ==
  \A q \in Requests : ~At(q, "idle") ~> At(q, "done")
=============================================================================
