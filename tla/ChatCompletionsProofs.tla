------------------------ MODULE ChatCompletionsProofs ------------------------
(***************************************************************************)
(* Proofs about the Chat Completions endpoints, for any number of requests *)
(* and ids, any limits of the store and any interleaving.                  *)
(*                                                                         *)
(* IInv says where each request stands and whose each stored completion    *)
(* is.  A request that is answered never changes.                          *)
(***************************************************************************)
EXTENDS ChatCompletionsAPI, StoreLemmas

Request ==
  [ pc : {"idle", "upstream", "save", "act", "done"},
    kind : {"none", "create", "get", "update", "delete"},
    id : {{}} \cup { {i} : i \in ChatIds }, keep : BOOLEAN, stream : BOOLEAN,
    created : 0..MaxCreated, metadata : Tags, answer : {"none", "ok", "error"} ]

Typed == req \in [Requests -> Request]

\* What the place of a request says about the rest of it.
Placed(q) ==
  /\ req[q].answer # "none" => At(q, "done")
  /\ req[q].pc \in {"upstream", "save"} => req[q].kind = "create"
  /\ At(q, "save") => req[q].keep /\ req[q].created \in 1..MaxCreated

\* A stored completion and its messages are those of one request.
Stored(key) ==
  LET q == store.objects[key].by IN
    /\ req[q].kind = "create" /\ req[q].keep /\ req[q].answer = "ok"
    /\ req[q].id = {key[2]} /\ req[q].created = store.objects[key].created
    /\ store.lists[<<key, "messages">>] = <<q>>

\* The inductive invariant.
IInv ==
  /\ Typed /\ Good(store, now) /\ now \in 0..MaxTime
  /\ \A q \in Requests : Placed(q)
  /\ \A key \in Live(store) : Stored(key)

-----------------------------------------------------------------------------

LEMMA KeyFacts ==
  /\ \A key \in Key : key = Chat(key[2]) /\ key[2] \in ChatIds /\ key \in ChatKey
  /\ \A id \in ChatIds : Chat(id) \in ChatKey /\ Chat(id) \in Key /\ Chat(id)[2] = id
BY IdsAssumption DEF Key, ResponseKey, ChatKey, ConversationKey, Chat

LEMMA StoredTypes ==
  ASSUME Good(store, now), NEW key \in Live(store)
  PROVE  /\ store.objects[key] \in Completion /\ store.objects[key].by \in Requests
         /\ key \in Key
BY IdsAssumption DEF Good, Sound, IsStore, Completion

\* A step of q on the requests: q alone changes, and was not answered yet.
Advances(q) ==
  /\ req' \in [Requests -> Request] /\ ~At(q, "done")
  /\ \A p \in Requests \ {q} : req'[p] = req[p]
  /\ Placed(q)'

\* What is stored for an answered request stays so, as long as it is there.
LEMMA StoredStays ==
  ASSUME IInv, NEW q \in Requests, Advances(q), NEW key \in Live(store),
         key \in Live(store'), store'.objects[key].by = store.objects[key].by,
         store'.objects[key].created = store.objects[key].created,
         store'.lists[<<key, "messages">>] = store.lists[<<key, "messages">>]
  PROVE  Stored(key)'
<1>. DEFINE p == store.objects[key].by
<1>1. p \in Requests /\ Stored(key)
  BY StoredTypes DEF IInv
<1>2. p # q
  BY <1>1 DEF IInv, Stored, Placed, Advances
<1>3. req'[p] = req[p]
  BY <1>1, <1>2 DEF Advances
<1>. QED BY <1>1, <1>3 DEF Stored

\* A step of q that stores nothing new.
LEMMA NarrowingStep ==
  ASSUME IInv, NEW q \in Requests, Advances(q), now' = now,
         Good(store', now), Narrowed(store, store')
  PROVE  IInv'
<1>1. ASSUME NEW key \in Live(store') PROVE Stored(key)'
  <2>1. /\ key \in Live(store) /\ store'.objects[key] = store.objects[key]
        /\ \A name \in ListNames(Kind(key)) :
             store'.lists[<<key, name>>] = store.lists[<<key, name>>]
    BY DEF Narrowed, Kept
  <2>2. "messages" \in ListNames(Kind(key))
    BY <2>1, StoredTypes, KeyFacts, KeyKinds DEF IInv
  <2>. QED BY <2>1, <2>2, StoredStays
<1>2. ASSUME NEW p \in Requests PROVE Placed(p)'
  <2>1. CASE p = q
    BY <2>1 DEF Advances
  <2>2. CASE p # q
    BY <2>2 DEF Advances, IInv, Placed, At
  <2>. QED BY <2>1, <2>2
<1>. QED BY <1>1, <1>2 DEF IInv, Typed, Advances

LEMMA NothingStored ==
  ASSUME NEW s, NEW t, Good(s, t) PROVE Narrowed(s, s)
BY NarrowedSame

\* One request changes to r.
LEMMA OneChanges ==
  ASSUME Typed, NEW q \in Requests, NEW r \in Request, req' = [req EXCEPT ![q] = r]
  PROVE  /\ req' \in [Requests -> Request] /\ req'[q] = r
         /\ \A p \in Requests \ {q} : req'[p] = req[p]
BY DEF Typed

LEMMA UnbornType == Unborn \in Request
<1>1. 0 \in 0..MaxCreated
  BY IdsAssumption
<1>. QED BY <1>1, Zenon DEF Unborn, Request, Tags

\* The answer to a request is the last step it takes.
LEMMA Answered ==
  ASSUME Typed, NEW q \in Requests, ~At(q, "done"), NEW answer \in {"ok", "error"},
         Answer(q, answer)
  PROVE  /\ Advances(q)
         /\ At(q, "save") => /\ req'[q].kind = req[q].kind /\ req'[q].keep = req[q].keep
                             /\ req'[q].id = req[q].id /\ req'[q].created = req[q].created
                             /\ req'[q].answer = answer
<1>. DEFINE kept == [req[q] EXCEPT !.pc = "done", !.answer = answer]
            none == [Unborn EXCEPT !.pc = "done", !.answer = answer]
<1>1. req[q] \in Request
  BY DEF Typed
<1>2. /\ kept \in Request /\ kept.pc = "done" /\ kept.answer = answer
      /\ kept.kind = req[q].kind /\ kept.keep = req[q].keep
      /\ kept.id = req[q].id /\ kept.created = req[q].created
  BY <1>1 DEF Request
<1>3. none \in Request /\ none.pc = "done"
  BY UnbornType DEF Request
<1>4. req' = [req EXCEPT ![q] = IF At(q, "save") THEN kept ELSE none]
  BY DEF Answer, Typed
<1>. HIDE DEF kept, none
<1>5. PICK r \in Request : /\ r = IF At(q, "save") THEN kept ELSE none
                           /\ req' = [req EXCEPT ![q] = r]
  BY <1>2, <1>3, <1>4
<1>6. req' \in [Requests -> Request] /\ req'[q] = r /\ \A p \in Requests \ {q} : req'[p] = req[p]
  BY <1>5, OneChanges
<1>. QED BY <1>2, <1>3, <1>5, <1>6 DEF Advances, Placed, At

LEMMA StoreFacts == IInv => now \in Nat /\ Good(store, now) /\ Sound(store)
BY IdsAssumption DEF IInv, Good

-----------------------------------------------------------------------------
(* The steps.                                                              *)

LEMMA InitIInv == Init => IInv
<1>. SUFFICES ASSUME Init PROVE IInv
  OBVIOUS
<1>1. Typed /\ \A q \in Requests : req[q] = Unborn
  BY UnbornType DEF Init, Typed
<1>2. \A q \in Requests : Placed(q)
  BY <1>1 DEF Placed, At, Unborn
<1>3. Live(store) = {} /\ Good(store, now) /\ now \in 0..MaxTime
  BY EmptyStoreGood, IdsAssumption DEF Init, Live, EmptyStore
<1>. QED BY <1>1, <1>2, <1>3 DEF IInv

LEMMA ArriveStep ==
  ASSUME IInv, NEW q \in Requests, NEW request \in Request, NEW first \in {"upstream", "act"},
         Arrive(q, request, first), request.answer = "none",
         first = "upstream" => request.kind = "create"
  PROVE  IInv'
<1>. DEFINE r == [request EXCEPT !.pc = first]
<1>1. /\ r \in Request /\ r.pc = first /\ r.answer = "none" /\ r.kind = request.kind
      /\ req' = [req EXCEPT ![q] = r]
  BY DEF Arrive, Request
<1>. HIDE DEF r
<1>2. Advances(q)
  BY <1>1, OneChanges DEF IInv, Arrive, Advances, Placed, At
<1>3. Good(store', now) /\ Narrowed(store, store') /\ now' = now
  BY StoreFacts, PruneGood, PruneStore DEF Arrive
<1>. QED BY <1>2, <1>3, NarrowingStep

LEMMA NewCreate ==
  ASSUME NEW keep \in BOOLEAN, NEW stream \in BOOLEAN, NEW metadata \in Tags
  PROVE  LET r == [Unborn EXCEPT !.kind = "create", !.keep = keep, !.stream = stream,
                                 !.metadata = metadata]
         IN  r \in Request /\ r.answer = "none" /\ r.kind = "create"
<1>1. Unborn \in Request /\ Unborn.answer = "none"
  BY UnbornType DEF Unborn
<1>. HIDE DEF Unborn
<1>2. CASE keep = TRUE /\ stream = TRUE
  BY <1>1, <1>2 DEF Request
<1>3. CASE keep = TRUE /\ stream = FALSE
  BY <1>1, <1>3 DEF Request
<1>4. CASE keep = FALSE /\ stream = TRUE
  BY <1>1, <1>4 DEF Request
<1>5. CASE keep = FALSE /\ stream = FALSE
  BY <1>1, <1>5 DEF Request
<1>. QED BY <1>2, <1>3, <1>4, <1>5, Zenon

LEMMA ArriveCreateStep == ASSUME IInv, NEW q \in Requests, ArriveCreate(q) PROVE IInv'
<1>1. PICK request \in Request :
        Arrive(q, request, "upstream") /\ request.answer = "none" /\ request.kind = "create"
  BY NewCreate, Zenon DEF ArriveCreate
<1>. QED BY <1>1, ArriveStep

LEMMA ArriveOnCompletionStep == ASSUME IInv, NEW q \in Requests, ArriveOnCompletion(q) PROVE IInv'
<1>1. ASSUME NEW kind \in {"get", "update", "delete"}, NEW id \in ChatIds
      PROVE  LET r == [Unborn EXCEPT !.kind = kind, !.id = {id}]
             IN  r \in Request /\ r.answer = "none"
  <2>1. Unborn \in Request /\ Unborn.answer = "none"
    BY UnbornType DEF Unborn
  <2>. HIDE DEF Unborn
  <2>. QED BY <2>1 DEF Request
<1>2. PICK request \in Request : Arrive(q, request, "act") /\ request.answer = "none"
  BY <1>1, Zenon DEF ArriveOnCompletion
<1>. QED BY <1>2, ArriveStep

LEMMA UpstreamUnkeptStep == ASSUME IInv, NEW q \in Requests, UpstreamUnkept(q) PROVE IInv'
<1>1. Advances(q)
  BY Answered DEF IInv, UpstreamUnkept, At
<1>. QED BY <1>1, NothingStored, NarrowingStep DEF UpstreamUnkept, IInv

LEMMA UpstreamFailsStep == ASSUME IInv, NEW q \in Requests, UpstreamFails(q) PROVE IInv'
<1>1. Advances(q)
  BY Answered DEF IInv, UpstreamFails, At
<1>. QED BY <1>1, NothingStored, NarrowingStep DEF UpstreamFails, IInv

LEMMA UpstreamAnswersStep == ASSUME IInv, NEW q \in Requests, UpstreamAnswers(q) PROVE IInv'
<1>0. /\ req[q] \in Request /\ At(q, "upstream") /\ req[q].keep /\ Typed
      /\ req[q].answer = "none" /\ req[q].kind = "create"
  BY DEF IInv, Typed, UpstreamAnswers, Placed, At, Request
<1>1. PICK id \in ChatIds, created \in 1..MaxCreated :
        req' = [req EXCEPT ![q].id = {id}, ![q].created = created, ![q].pc = "save"]
  BY DEF UpstreamAnswers
<1>. DEFINE r == [req[q] EXCEPT !.id = {id}, !.created = created, !.pc = "save"]
<1>2. r \in Request /\ req' = [req EXCEPT ![q] = r]
  <2>1. created \in 0..MaxCreated
    BY IdsAssumption
  <2>. QED BY <1>0, <1>1, <2>1 DEF Request, Typed
<1>3. /\ r.pc = "save" /\ r.created = created /\ r.kind = "create" /\ r.answer = "none"
      /\ (r.keep <=> req[q].keep)
  BY <1>0 DEF Request
<1>. HIDE DEF r
<1>4. Advances(q)
  BY <1>0, <1>2, <1>3, OneChanges DEF Advances, Placed, At
<1>. QED BY <1>4, NothingStored, NarrowingStep DEF UpstreamAnswers, IInv

LEMMA GetStep == ASSUME IInv, NEW q \in Requests, Get(q) PROVE IInv'
<1>1. PICK id \in req[q].id : store' = read(store, Chat(id), now) /\ Answer(q, Found(id))
  BY DEF Get
<1>2. Advances(q)
  BY <1>1, Answered DEF IInv, Get, Act, At, Found
<1>3. Good(store', now) /\ Narrowed(store, store')
  <2>1. /\ Good(store', now) /\ Live(store') = Live(store)
        /\ store'.objects = store.objects /\ store'.lists = store.lists
    BY <1>1, StoreFacts, ReadUpdateGood, ReadStore
  <2>. QED BY <2>1, NarrowedSame
<1>. QED BY <1>2, <1>3, NarrowingStep DEF Get, Act

LEMMA DeleteStep == ASSUME IInv, NEW q \in Requests, Delete(q) PROVE IInv'
<1>1. PICK id \in req[q].id : store' = delete(store, Chat(id)) /\ Answer(q, Found(id))
  BY DEF Delete
<1>2. Advances(q)
  BY <1>1, Answered DEF IInv, Delete, Act, At, Found
<1>3. Good(store', now) /\ Narrowed(store, store')
  BY <1>1, StoreFacts, DeleteGood, DeleteFrame
<1>. QED BY <1>2, <1>3, NarrowingStep DEF Delete, Act

LEMMA UpdateStep == ASSUME IInv, NEW q \in Requests, Update(q) PROVE IInv'
<1>1. PICK id \in req[q].id, metadata \in Tags :
        /\ store' = IF Chat(id) \in Live(store)
                      THEN update(store, Chat(id),
                                  [store.objects[Chat(id)] EXCEPT !.metadata = metadata], now)
                      ELSE store
        /\ Answer(q, Found(id))
  BY DEF Update
<1>2. Advances(q) /\ now' = now /\ Good(store, now)
  BY <1>1, Answered DEF IInv, Update, Act, At, Found
<1>3. CASE Chat(id) \notin Live(store)
  BY <1>1, <1>2, <1>3, NothingStored, NarrowingStep
<1>4. CASE Chat(id) \in Live(store)
  <2>. DEFINE old == store.objects[Chat(id)]
              value == [old EXCEPT !.metadata = metadata]
  <2>1. old \in Completion
    BY <1>2, <1>4, StoredTypes
  <2>2. value \in Values /\ value.by = old.by /\ value.created = old.created
    BY <2>1, IdsAssumption DEF Completion
  <2>3. store' = update(store, Chat(id), value, now)
    BY <1>1, <1>4
  <2>. HIDE DEF value
  <2>4. Good(store', now) /\ Live(store') = Live(store) /\ Updated(store, store', Chat(id), value)
    BY <2>2, <2>3, StoreFacts, ReadUpdateGood, UpdateStore
  <2>5. ASSUME NEW key \in Live(store') PROVE Stored(key)'
    <3>1. key \in Live(store) /\ store'.lists = store.lists
      BY <2>4 DEF Updated
    <3>2. store'.objects[key].by = store.objects[key].by
          /\ store'.objects[key].created = store.objects[key].created
      BY <2>2, <2>4, <3>1 DEF Updated
    <3>. QED BY <1>2, <3>1, <3>2, StoredStays
  <2>6. \A p \in Requests : Placed(p)'
    BY <1>2 DEF Advances, IInv, Placed, At
  <2>. QED BY <1>2, <2>4, <2>5, <2>6 DEF IInv, Typed, Advances
<1>. QED BY <1>3, <1>4

\* The only step that stores: the completion of an answered request.
LEMMA SaveStep == ASSUME IInv, NEW q \in Requests, Save(q) PROVE IInv'
<1>1. PICK id \in req[q].id :
        store' = SaveChatCompletion(store, Chat(id), CompletionOf(q), <<q>>, now)
  BY DEF Save
<1>2. /\ At(q, "save") /\ Answer(q, "ok") /\ now' = now /\ Typed /\ Good(store, now) /\ now \in Nat
      /\ Placed(q)
  BY DEF Save, IInv
<1>3. /\ Advances(q) /\ req'[q].kind = req[q].kind /\ req'[q].keep = req[q].keep
      /\ req'[q].id = req[q].id /\ req'[q].created = req[q].created /\ req'[q].answer = "ok"
  BY <1>2, Answered DEF At
<1>4. req[q].id = {id} /\ id \in ChatIds /\ req[q].metadata \in Tags
  BY <1>1, <1>2 DEF Typed, Request
<1>5. /\ CompletionOf(q) \in Values /\ CompletionOf(q).by = q
      /\ CompletionOf(q).created = req[q].created
  BY <1>2, <1>4, IdsAssumption DEF CompletionOf, Completion, Placed
<1>6. <<q>> \in Seq(ItemIds) /\ [messages |-> <<q>>]["messages"] = <<q>>
  BY IdsAssumption
<1>. DEFINE lists == [messages |-> <<q>>]
<1>. HIDE DEF lists
<1>7. Good(store', now) /\ Written(store, store', Chat(id), CompletionOf(q), lists)
  BY <1>1, <1>2, <1>4, <1>5, <1>6, KeyFacts, SaveChatCompletionGood DEF lists
<1>8. ASSUME NEW key \in Live(store') PROVE Stored(key)'
  <2>1. CASE key = Chat(id)
    <3>1. /\ store'.objects[key] = CompletionOf(q)
          /\ store'.lists[<<key, "messages">>] = <<q>> /\ key[2] = id
      <4>1. "messages" \in ListNames(Kind(key))
        BY <1>4, <2>1, KeyFacts, KeyKinds
      <4>. QED BY <1>4, <1>6, <1>7, <2>1, <4>1, KeyFacts DEF Written, lists
    <3>2. req'[q].kind = "create" /\ req'[q].keep
      BY <1>2, <1>3 DEF Placed, At
    <3>. QED BY <1>3, <1>4, <1>5, <3>1, <3>2 DEF Stored
  <2>2. CASE key # Chat(id)
    <3>1. Kept(store, store', key)
      BY <1>7, <2>2 DEF Written
    <3>2. "messages" \in ListNames(Kind(key))
      BY <1>2, <3>1, StoredTypes, KeyFacts, KeyKinds DEF Kept
    <3>. QED BY <1>3, <3>1, <3>2, StoredStays DEF Kept
  <2>. QED BY <2>1, <2>2
<1>9. \A p \in Requests : Placed(p)'
  BY <1>3 DEF Advances, IInv, Placed, At
<1>. QED BY <1>2, <1>3, <1>7, <1>8, <1>9 DEF IInv, Typed, Advances

LEMMA NextIInv == IInv /\ [Next]_vars => IInv'
<1>. SUFFICES ASSUME IInv, [Next]_vars PROVE IInv'
  OBVIOUS
<1>1. CASE Tick
  <2>1. /\ now' \in 0..MaxTime /\ now \in Nat /\ now' \in Nat /\ now <= now'
        /\ UNCHANGED <<store, req>>
    BY <1>1, IdsAssumption DEF Tick, IInv
  <2>2. Good(store, now')
    BY <2>1, LaterGood DEF IInv
  <2>. QED BY <2>1, <2>2 DEF IInv, Typed, Placed, Stored, At
<1>2. CASE ArriveList
  <2>1. Good(store', now) /\ Narrowed(store, store') /\ UNCHANGED <<req, now>>
    BY <1>2, StoreFacts, PruneGood, PruneStore DEF ArriveList
  <2>2. ASSUME NEW key \in Live(store') PROVE Stored(key)'
    <3>1. Kept(store, store', key) /\ key \in Live(store) /\ Stored(key)
      BY <2>1 DEF Narrowed, Kept, IInv
    <3>2. "messages" \in ListNames(Kind(key))
      BY <3>1, StoredTypes, KeyFacts, KeyKinds DEF IInv
    <3>. QED BY <2>1, <3>1, <3>2 DEF Kept, Stored
  <2>. QED BY <2>1, <2>2 DEF IInv, Typed, Placed, At
<1>3. CASE List \/ UNCHANGED vars
  BY <1>3 DEF List, vars, IInv, Typed, Placed, Stored, At
<1>4. ASSUME NEW q \in Requests,
             \/ ArriveCreate(q) \/ UpstreamUnkept(q) \/ UpstreamAnswers(q) \/ UpstreamFails(q)
             \/ Save(q) \/ ArriveOnCompletion(q) \/ Get(q) \/ Update(q) \/ Delete(q)
      PROVE  IInv'
  BY <1>4, ArriveCreateStep, UpstreamUnkeptStep, UpstreamAnswersStep, UpstreamFailsStep,
     SaveStep, ArriveOnCompletionStep, GetStep, UpdateStep, DeleteStep, Zenon
<1>. QED BY <1>1, <1>2, <1>3, <1>4, Zenon DEF Next

\* In every behaviour, a request stands where its handler says, and a stored
\* completion is that of the request that saved it last (handleChatCompletions).
THEOREM CompletionsInvariant == Spec => []IInv
BY InitIInv, NextIInv, PTL DEF Spec

\* A stored completion and its messages are of one answer, although the upstream
\* may give an id twice and the two tables are two (SaveChatCompletion).
THEOREM CompletionsAreWhole == Spec => []CompletionIsOneAnswer
<1>1. IInv => CompletionIsOneAnswer
  BY DEF IInv, Stored, CompletionIsOneAnswer
<1>. QED BY <1>1, CompletionsInvariant, PTL

-----------------------------------------------------------------------------
(* The order of the list, and one page of it.                              *)

\* Entry i, created at ci, stands before entry j, created at cj.
Ahead(order, i, ci, j, cj) ==
  LET asc == ci < cj \/ (ci = cj /\ i < j)
  IN  IF order = "asc" THEN asc ELSE ~asc /\ i # j

LEMMA AheadIsOrder ==
  ASSUME NEW order, NEW i \in Nat, NEW j \in Nat, NEW k \in Nat,
         NEW ci \in Nat, NEW cj \in Nat, NEW ck \in Nat
  PROVE  /\ ~Ahead(order, i, ci, i, ci)
         /\ i # j => (Ahead(order, i, ci, j, cj) <=> ~Ahead(order, j, cj, i, ci))
         /\ Ahead(order, i, ci, j, cj) /\ Ahead(order, j, cj, k, ck) /\ (i = k => ci = ck)
              => Ahead(order, i, ci, k, ck)
<1>1. ~Ahead(order, i, ci, i, ci)
  BY DEF Ahead
<1>2. i # j => (Ahead(order, i, ci, j, cj) <=> ~Ahead(order, j, cj, i, ci))
  BY DEF Ahead
<1>3. ASSUME Ahead(order, i, ci, j, cj), Ahead(order, j, cj, k, ck), i = k => ci = ck
      PROVE  Ahead(order, i, ci, k, ck)
  <2>1. CASE order = "asc"
    BY <1>3, <2>1 DEF Ahead
  <2>2. CASE order # "asc"
    <3>1. cj < ci \/ (cj = ci /\ j < i)
      BY <1>3, <2>2 DEF Ahead
    <3>2. ck < cj \/ (ck = cj /\ k < j)
      BY <1>3, <2>2 DEF Ahead
    <3>3. ck < ci \/ (ck = ci /\ k < i)
      BY <3>1, <3>2
    <3>4. CASE ck < ci /\ i # k
      BY <2>2, <3>4 DEF Ahead
    <3>5. CASE ck = ci /\ k < i
      BY <2>2, <3>5 DEF Ahead
    <3>6. i # k
      BY <1>3, <3>3
    <3>. QED BY <3>3, <3>4, <3>5, <3>6
  <2>. QED BY <2>1, <2>2
<1>. QED BY <1>1, <1>2, <1>3

\* R is a finite set of ids of completions that are there.
Listed(s, R) ==
  /\ IsFiniteSet(R) /\ R \subseteq Nat
  /\ \A id \in R : s.objects[Chat(id)].created \in Nat

LEMMA EarlierIsOrder ==
  ASSUME NEW s, NEW R, Listed(s, R), NEW order
  PROVE  /\ \A i \in R : ~Earlier(s, order, i, i)
         /\ \A i, j \in R : i # j => (Earlier(s, order, i, j) <=> ~Earlier(s, order, j, i))
         /\ \A i, j, k \in R :
              Earlier(s, order, i, j) /\ Earlier(s, order, j, k) => Earlier(s, order, i, k)
<1>1. \A i, j : Earlier(s, order, i, j)
                  <=> Ahead(order, i, s.objects[Chat(i)].created, j, s.objects[Chat(j)].created)
  BY DEF Earlier, Ahead
<1>2. \A i \in R : i \in Nat /\ s.objects[Chat(i)].created \in Nat
  BY DEF Listed
<1>. QED BY <1>1, <1>2, AheadIsOrder

\* The place of id in R.
Rank(s, R, order, id) == Cardinality({ other \in R : Earlier(s, order, other, id) }) + 1

LEMMA RankIsPlace ==
  ASSUME NEW s, NEW R, Listed(s, R), NEW order
  PROVE  /\ \A id \in R : Rank(s, R, order, id) \in 1..Cardinality(R)
         /\ \A i, j \in R : Earlier(s, order, i, j) <=> Rank(s, R, order, i) < Rank(s, R, order, j)
         /\ \A i, j \in R : Rank(s, R, order, i) = Rank(s, R, order, j) => i = j
         /\ \A n \in 1..Cardinality(R) : \E id \in R : Rank(s, R, order, id) = n
<1>. DEFINE before(id) == { other \in R : Earlier(s, order, other, id) }
            N == Cardinality(R)
<1>0. IsFiniteSet(R) /\ N \in Nat
  BY FS_CardinalityType DEF Listed
<1>1. ASSUME NEW id \in R
      PROVE  /\ IsFiniteSet(before(id)) /\ Cardinality(before(id)) \in Nat
             /\ Cardinality(before(id)) < N
  <2>1. before(id) \in SUBSET R /\ id \notin before(id)
    BY EarlierIsOrder
  <2>. HIDE DEF before
  <2>2. /\ IsFiniteSet(before(id)) /\ Cardinality(before(id)) \in Nat
        /\ Cardinality(before(id)) <= N /\ Cardinality(before(id)) # N
    BY <1>0, <2>1, FS_Subset, FS_CardinalityType
  <2>. QED BY <1>0, <2>2
<1>2. ASSUME NEW id \in R
      PROVE  /\ Rank(s, R, order, id) = Cardinality(before(id)) + 1
             /\ Rank(s, R, order, id) \in 1..N
  <2>1. Rank(s, R, order, id) = Cardinality(before(id)) + 1
    BY DEF Rank
  <2>. HIDE DEF before, N
  <2>. QED BY <1>0, <1>1, <2>1
<1>3. ASSUME NEW i \in R, NEW j \in R, Earlier(s, order, i, j)
      PROVE  Rank(s, R, order, i) < Rank(s, R, order, j)
  <2>1. /\ before(i) \in SUBSET before(j) /\ i \in before(j) /\ i \notin before(i)
    BY <1>3, EarlierIsOrder
  <2>2. IsFiniteSet(before(j)) /\ Cardinality(before(i)) \in Nat /\ Cardinality(before(j)) \in Nat
    BY <1>1
  <2>. HIDE DEF before
  <2>3. /\ Cardinality(before(i)) <= Cardinality(before(j))
        /\ Cardinality(before(i)) # Cardinality(before(j))
    BY <2>1, <2>2, FS_Subset
  <2>. QED BY <1>2, <2>2, <2>3
<1>. HIDE DEF before
<1>4. ASSUME NEW i \in R, NEW j \in R
      PROVE  Rank(s, R, order, i) \in Nat /\ Rank(s, R, order, j) \in Nat
  BY <1>0, <1>2
<1>5. \A i, j \in R : Rank(s, R, order, i) = Rank(s, R, order, j) => i = j
  BY <1>3, <1>4, EarlierIsOrder
<1>6. \A i, j \in R : Earlier(s, order, i, j) <=> Rank(s, R, order, i) < Rank(s, R, order, j)
  BY <1>3, <1>4, EarlierIsOrder
<1>7. ASSUME NEW n \in 1..N PROVE \E id \in R : Rank(s, R, order, id) = n
  <2>. DEFINE f == [id \in R |-> Rank(s, R, order, id)]
  <2>1. f \in Injection(R, 1..N)
    BY <1>2, <1>5 DEF Injection, IsInjective
  <2>2. IsFiniteSet(1..N) /\ Cardinality(1..N) = N
    BY <1>0, FS_Interval
  <2>3. f \in Surjection(R, 1..N)
    <3>. HIDE DEF f, N
    <3>1. Cardinality(R) = Cardinality(1..N)
      BY <2>2 DEF N
    <3>. QED BY <2>1, <2>2, <3>1, FS_Injection
  <2>. QED BY <2>3 DEF Surjection
<1>. QED BY <1>2, <1>5, <1>6, <1>7

\* What a page holds of R: as many entries as fit, each once, those that have
\* no entry behind the page before them.
PageOf(s, R, order, page) ==
  /\ page \in Seq(R)
  /\ page = <<>> => R = {}
  /\ \A m, n \in DOMAIN page : page[m] = page[n] => m = n
  /\ page # <<>> => \A id \in R :
       (\E n \in DOMAIN page : page[n] = id) <=> ~Earlier(s, order, page[Len(page)], id)
  /\ Cardinality(R) > PageSize => page # <<>>
  /\ ~(Cardinality(R) > PageSize) => \A id \in R : \E n \in DOMAIN page : page[n] = id

LEMMA PageFacts ==
  ASSUME NEW s, NEW R, Listed(s, R), NEW order
  PROVE  PageOf(s, R, order, Page(s, R, order))
<1>. DEFINE N == Cardinality(R)
            size == IF N < PageSize THEN N ELSE PageSize
            rank(id) == Rank(s, R, order, id)
            page == Page(s, R, order)
<1>0. /\ N \in Nat /\ PageSize \in Nat \ {0} /\ size \in Nat /\ size <= N
      /\ (N > PageSize => size = PageSize) /\ (~(N > PageSize) => size = N)
      /\ (size = 0 <=> N = 0) /\ (R = {} <=> N = 0)
  <2>1. N \in Nat /\ PageSize \in Nat \ {0} /\ (R = {} <=> N = 0)
    BY FS_CardinalityType, FS_EmptySet, IdsAssumption DEF Listed
  <2>. QED BY <2>1
<1>1. page = [ n \in 1..size |-> CHOOSE id \in R : rank(id) = n ]
  BY DEF Page, Rank
<1>2. /\ \A id \in R : rank(id) \in 1..N
      /\ \A i, j \in R : Earlier(s, order, i, j) <=> rank(i) < rank(j)
      /\ \A i, j \in R : rank(i) = rank(j) => i = j
      /\ \A n \in 1..N : \E id \in R : rank(id) = n
  BY RankIsPlace
<1>. HIDE DEF page, rank
<1>3. \A n \in 1..size : page[n] \in R /\ rank(page[n]) = n
  <2>1. \A n \in 1..size : n \in 1..N
    BY <1>0
  <2>. QED BY <1>1, <1>2, <2>1
<1>. HIDE DEF size, N
<1>4. page \in Seq(R) /\ Len(page) = size /\ DOMAIN page = 1..size
  <2>1. DOMAIN page = 1..size /\ page \in [1..size -> R]
    BY <1>1, <1>3
  <2>2. page \in Seq(R)
    BY <1>0, <2>1
  <2>. QED BY <1>0, <2>1, <2>2
<1>5. \A m, n \in DOMAIN page : page[m] = page[n] => m = n
  BY <1>3, <1>4
<1>6. ASSUME NEW id \in R
      PROVE  (\E n \in DOMAIN page : page[n] = id) <=> rank(id) <= size
  <2>1. ASSUME rank(id) <= size PROVE \E n \in DOMAIN page : page[n] = id
    <3>1. rank(id) \in 1..size
      BY <1>0, <1>2, <2>1
    <3>. QED BY <1>2, <1>3, <1>4, <3>1
  <2>2. ASSUME NEW n \in DOMAIN page, page[n] = id PROVE rank(id) <= size
    BY <1>0, <1>3, <1>4, <2>2
  <2>. QED BY <2>1, <2>2
<1>7. ASSUME page # <<>>, NEW id \in R
      PROVE  (\E n \in DOMAIN page : page[n] = id) <=> ~Earlier(s, order, page[Len(page)], id)
  <2>1. size # 0 /\ size \in 1..size
    BY <1>0, <1>4, <1>7
  <2>2. page[Len(page)] \in R /\ rank(page[Len(page)]) = size /\ rank(id) \in Nat
    BY <1>0, <1>2, <1>3, <1>4, <2>1
  <2>3. Earlier(s, order, page[Len(page)], id) <=> size < rank(id)
    BY <1>2, <2>2
  <2>. QED BY <1>0, <1>6, <2>2, <2>3
<1>8. ~(N > PageSize) => \A id \in R : rank(id) <= size
  BY <1>0, <1>2
<1>9. /\ page = <<>> => R = {}
      /\ N > PageSize => page # <<>>
  BY <1>0, <1>4
<1>. QED BY <1>4, <1>5, <1>6, <1>7, <1>8, <1>9 DEF PageOf, N, page

-----------------------------------------------------------------------------
(* The walk of the list, page by page.                                     *)

\* Where id is in what the walk has listed.
Places(listed, id) == { n \in DOMAIN listed : listed[n] = id }

\* The next page of walk w begins before id.
Pending(w, s, id) ==
  \A c \in w.cursor : Ahead(w.order, c[1], c[2], id, s.objects[Chat(id)].created)

WalkTyped(w) ==
  /\ DOMAIN w = {"pc", "filter", "order", "cursor", "listed", "lost"}
  /\ w.pc \in {"idle", "list", "next", "done"}
  /\ w.listed \in Seq(ChatIds)
  /\ w.cursor \subseteq ChatIds \X (1..MaxCreated)
  /\ \A c, d \in w.cursor : c = d
  /\ w.cursor = {} <=> w.listed = <<>>
  /\ w.pc = "next" => w.cursor # {}
  /\ w.pc = "idle" => w.cursor = {}

\* What is listed so far of an id that stayed: nothing while it is pending, and
\* one entry then.
ListedInTurn(w, s, id) ==
  IF Pending(w, s, id) THEN Places(w.listed, id) = {} /\ w.pc # "done"
                       ELSE Cardinality(Places(w.listed, id)) = 1

\* The invariant of the walk.
WInv ==
  /\ WalkTyped(walk)
  /\ stayed \subseteq ListChatCompletions(store, walk.filter)
  /\ ~walk.lost /\ walk.pc # "idle" => \A id \in stayed : ListedInTurn(walk, store, id)

LEMMA AppendOthers ==
  ASSUME NEW S, NEW listed \in Seq(S), NEW page \in Seq(S), NEW id,
         \A m \in DOMAIN page : page[m] # id
  PROVE  Places(listed \o page, id) = Places(listed, id)
<1>. DEFINE all == listed \o page
<1>1. /\ Len(listed) \in Nat /\ Len(page) \in Nat /\ DOMAIN listed = 1..Len(listed)
      /\ DOMAIN page = 1..Len(page) /\ DOMAIN all = 1..(Len(listed) + Len(page))
  OBVIOUS
<1>2. \A n \in DOMAIN all : all[n] = IF n <= Len(listed) THEN listed[n] ELSE page[n - Len(listed)]
  OBVIOUS
<1>. HIDE DEF all
<1>3. Places(all, id) = Places(listed, id)
  BY <1>1, <1>2 DEF Places
<1>. QED BY <1>3 DEF all

LEMMA AppendOnce ==
  ASSUME NEW S, NEW listed \in Seq(S), NEW page \in Seq(S), NEW id, NEW n \in DOMAIN page,
         Places(listed, id) = {}, page[n] = id, \A m \in DOMAIN page : page[m] = page[n] => m = n
  PROVE  Cardinality(Places(listed \o page, id)) = 1
<1>. DEFINE all == listed \o page
<1>1. /\ Len(listed) \in Nat /\ Len(page) \in Nat /\ DOMAIN listed = 1..Len(listed)
      /\ DOMAIN page = 1..Len(page) /\ DOMAIN all = 1..(Len(listed) + Len(page))
  OBVIOUS
<1>2. \A m \in DOMAIN all : all[m] = IF m <= Len(listed) THEN listed[m] ELSE page[m - Len(listed)]
  OBVIOUS
<1>. HIDE DEF all
<1>3. Places(all, id) = {Len(listed) + n}
  BY <1>1, <1>2 DEF Places
<1>4. Cardinality(Places(all, id)) = 1
  BY <1>3, FS_Singleton, Zenon
<1>. QED BY <1>4 DEF all

\* The ids of a list are finite in number, and each was created at some time.
LEMMA ListIsListed ==
  ASSUME IInv, NEW filter
  PROVE  /\ Listed(store, ListChatCompletions(store, filter))
         /\ \A id \in ListChatCompletions(store, filter) :
              id \in ChatIds /\ store.objects[Chat(id)].created \in 1..MaxCreated
<1>. DEFINE ids == ListChatCompletions(store, filter)
            f == [id \in ids |-> Chat(id)]
<1>1. \A id \in ids : id \in ChatIds /\ id \in Nat /\ Chat(id) \in Live(store)
  BY IdsAssumption DEF ListChatCompletions
<1>2. ASSUME NEW id \in ids PROVE store.objects[Chat(id)].created \in 1..MaxCreated
  BY <1>1, StoredTypes DEF IInv, Completion
<1>3. IsFiniteSet(Live(store))
  BY DEF IInv, Good, Sound, IsStore
<1>4. f \in Injection(ids, Live(store))
  <2>1. f \in [ids -> Live(store)] /\ \A i, j \in ids : f[i] = f[j] => i = j
    BY <1>1 DEF Chat
  <2>. QED BY <2>1 DEF Injection, IsInjective
<1>. HIDE DEF ids, f
<1>5. IsFiniteSet(ids)
  BY <1>3, <1>4, FS_Injection
<1>6. MaxCreated \in Nat
  BY IdsAssumption
<1>7. \A id \in ids : store.objects[Chat(id)].created \in Nat
  BY <1>2, <1>6
<1>. QED BY <1>1, <1>2, <1>5, <1>7 DEF Listed, ids

\* A step of anybody else, and the arrival of the client's next request.
LEMMA WalkWaits ==
  ASSUME WInv, Stay, WalkTyped(walk'),
         walk'.listed = walk.listed, walk'.cursor = walk.cursor, walk'.lost = walk.lost,
         walk.pc # "idle" => walk'.order = walk.order /\ walk'.filter = walk.filter,
         \/ walk' = walk
         \/ walk'.pc = "list" /\ walk.pc \in {"idle", "next"}
  PROVE  WInv'
<1>1. WalkTyped(walk) /\ (walk.pc = "idle" => walk.listed = <<>>)
  BY DEF WInv, WalkTyped
<1>2. CASE walk.pc \in {"idle", "list"} /\ walk.listed = <<>>
  <2>1. stayed' = ListChatCompletions(store', walk'.filter)
    BY <1>2 DEF Stay
  <2>2. walk'.cursor = {} /\ walk'.listed = <<>> /\ walk'.pc # "done"
    BY <1>1, <1>2 DEF WalkTyped
  <2>3. \A id : ListedInTurn(walk', store', id)
    BY <2>2 DEF ListedInTurn, Pending, Places
  <2>. QED BY <2>1, <2>3 DEF WInv
<1>3. CASE ~(walk.pc \in {"idle", "list"} /\ walk.listed = <<>>)
  <2>1. stayed' =
          { id \in stayed : /\ id \in ListChatCompletions(store', walk.filter)
                            /\ store'.objects[Chat(id)].created = store.objects[Chat(id)].created }
    BY <1>3 DEF Stay
  <2>2. walk.pc # "idle"
    BY <1>1, <1>3
  <2>3. stayed' \subseteq ListChatCompletions(store', walk'.filter)
    BY <2>1, <2>2
  <2>4. ASSUME ~walk'.lost, NEW id \in stayed' PROVE ListedInTurn(walk', store', id)
    <3>1. id \in stayed /\ store'.objects[Chat(id)].created = store.objects[Chat(id)].created
      BY <2>1, <2>4
    <3>2. ~walk.lost
      BY <2>4, Zenon
    <3>3. ListedInTurn(walk, store, id)
      BY <2>2, <3>1, <3>2 DEF WInv
    <3>4. walk'.order = walk.order /\ (walk'.pc = "done" => walk.pc = "done")
      BY <2>2
    <3>5. Pending(walk', store', id) <=> Pending(walk, store, id)
      BY <3>1, <3>4 DEF Pending
    <3>. QED BY <3>3, <3>4, <3>5 DEF ListedInTurn
  <2>. QED BY <2>3, <2>4 DEF WInv
<1>. QED BY <1>2, <1>3

\* What After leaves is what is pending, if the cursor is where it was.
LEMMA RestIsPending ==
  ASSUME WalkTyped(walk), NEW ids,
         \A c \in walk.cursor : c[1] \in ids /\ store.objects[Chat(c[1])].created = c[2]
  PROVE  After(store, ids, walk.order, { c[1] : c \in walk.cursor })
           = { id \in ids : Pending(walk, store, id) }
<1>. DEFINE cursor == { c[1] : c \in walk.cursor }
<1>1. CASE walk.cursor = {}
  BY <1>1 DEF After, Pending
<1>2. CASE walk.cursor # {}
  <2>1. PICK c \in walk.cursor : walk.cursor = {c}
    BY <1>2 DEF WalkTyped
  <2>2. cursor = {c[1]} /\ cursor \cap ids = {c[1]} /\ cursor # {}
    BY <2>1
  <2>3. \A id : Pending(walk, store, id) <=> Earlier(store, walk.order, c[1], id)
    BY <2>1 DEF Pending, Earlier, Ahead
  <2>. HIDE DEF cursor
  <2>4. After(store, ids, walk.order, cursor) = { id \in ids : Pending(walk, store, id) }
    BY <2>2, <2>3 DEF After
  <2>. QED BY <2>4 DEF cursor
<1>. QED BY <1>1, <1>2

\* One page more: rest is what the code looks at, page what it returns.
PageTaken(ids, rest, page) ==
  LET last == page[Len(page)] IN
  /\ DOMAIN walk' = DOMAIN walk
  /\ walk'.order = walk.order /\ walk'.filter = walk.filter
  /\ walk'.listed = walk.listed \o page
  /\ page = <<>> => walk'.cursor = walk.cursor
  /\ page # <<>> => walk'.cursor = {<<last, store.objects[Chat(last)].created>>}
  /\ walk'.pc = IF Cardinality(rest) > PageSize THEN "next" ELSE "done"
  /\ ~walk'.lost => /\ ~walk.lost
                    /\ \A c \in walk.cursor :
                         c[1] \in ids /\ store.objects[Chat(c[1])].created = c[2]

LEMMA ListTakesPage ==
  ASSUME WalkTyped(walk), List
  PROVE  LET ids == ListChatCompletions(store, walk.filter)
             rest == After(store, ids, walk.order, { c[1] : c \in walk.cursor })
         IN  rest \subseteq ids /\ PageTaken(ids, rest, Page(store, rest, walk.order))
<1>. DEFINE ids == ListChatCompletions(store, walk.filter)
            cursor == { c[1] : c \in walk.cursor }
            rest == After(store, ids, walk.order, cursor)
            page == Page(store, rest, walk.order)
            last == page[Len(page)]
            moved == \E c \in walk.cursor :
                       c[1] \notin ids \/ store.objects[Chat(c[1])].created # c[2]
<1>1. walk' = [ walk EXCEPT
                  !.pc = IF Cardinality(rest) > PageSize THEN "next" ELSE "done",
                  !.listed = @ \o page,
                  !.cursor = IF page = <<>> THEN @
                             ELSE {<<last, store.objects[Chat(last)].created>>},
                  !.lost = @ \/ moved ]
  BY DEF List
<1>2. rest \subseteq ids
  BY DEF After
<1>. HIDE DEF ids, cursor, rest, page, last, moved
<1>3. DOMAIN walk = {"pc", "filter", "order", "cursor", "listed", "lost"}
  BY DEF WalkTyped
<1>4. /\ DOMAIN walk' = DOMAIN walk
      /\ walk'.order = walk.order /\ walk'.filter = walk.filter
      /\ walk'.listed = walk.listed \o page
      /\ page = <<>> => walk'.cursor = walk.cursor
      /\ page # <<>> => walk'.cursor = {<<last, store.objects[Chat(last)].created>>}
      /\ walk'.pc = IF Cardinality(rest) > PageSize THEN "next" ELSE "done"
  BY <1>1, <1>3
<1>5. walk'.lost = (walk.lost \/ moved)
  BY <1>1, <1>3, Zenon
<1>6. ~walk'.lost => ~walk.lost /\ ~moved
  BY <1>5, Zenon
<1>7. ~moved => \A c \in walk.cursor : c[1] \in ids /\ store.objects[Chat(c[1])].created = c[2]
  BY Zenon DEF moved
<1>8. PageTaken(ids, rest, page)
  BY <1>4, <1>6, <1>7 DEF PageTaken, last
<1>. QED BY <1>2, <1>8 DEF ids, cursor, rest, page

\* The page is of the rest, without what stands behind its end, and the walk is
\* then where the page ended.
LEMMA PageIsInTurn ==
  ASSUME WalkTyped(walk), walk.pc = "list",
         NEW ids, Listed(store, ids), ids \subseteq ChatIds,
         \A id \in ids : store.objects[Chat(id)].created \in 1..MaxCreated,
         NEW page, PageTaken(ids, { id \in ids : Pending(walk, store, id) }, page),
         PageOf(store, { id \in ids : Pending(walk, store, id) }, walk.order, page),
         \A c \in walk.cursor : c[1] \in ids /\ store.objects[Chat(c[1])].created = c[2],
         NEW id \in ids, ListedInTurn(walk, store, id)
  PROVE  ListedInTurn(walk', store, id)
<1>. DEFINE rest == { i \in ids : Pending(walk, store, i) }
            last == page[Len(page)]
<1>1. PageTaken(ids, rest, page) /\ PageOf(store, rest, walk.order, page)
  OBVIOUS
<1>2. rest \subseteq ids /\ (id \in rest <=> Pending(walk, store, id))
  OBVIOUS
<1>. HIDE DEF rest
<1>3. page \in Seq(rest) /\ page \in Seq(ChatIds) /\ walk.listed \in Seq(ChatIds)
  BY <1>1, <1>2 DEF PageOf, WalkTyped
<1>4. \A n \in DOMAIN page : page[n] \in rest
  BY <1>3
<1>5. walk'.listed = walk.listed \o page /\ walk'.order = walk.order
  BY <1>1 DEF PageTaken
<1>6. CASE page = <<>>
  <2>1. ~Pending(walk, store, id)
    BY <1>1, <1>2, <1>6 DEF PageOf
  <2>2. walk'.listed = walk.listed /\ walk'.cursor = walk.cursor
    BY <1>1, <1>3, <1>6 DEF PageTaken
  <2>. QED BY <1>5, <2>1, <2>2 DEF ListedInTurn, Pending
<1>7. CASE page # <<>>
  <2>1. last \in rest
    BY <1>3, <1>4, <1>7
  <2>2. Pending(walk', store, id) <=> Earlier(store, walk.order, last, id)
    <3>1. walk'.cursor = {<<last, store.objects[Chat(last)].created>>}
      BY <1>1, <1>7 DEF PageTaken
    <3>. QED BY <1>5, <3>1 DEF Pending, Earlier, Ahead
  <2>3. id \in rest =>
          ((\E n \in DOMAIN page : page[n] = id) <=> ~Earlier(store, walk.order, last, id))
    BY <1>1, <1>7 DEF PageOf
  <2>4. \A m, n \in DOMAIN page : page[m] = page[n] => m = n
    BY <1>1 DEF PageOf
  <2>. HIDE DEF last
  <2>5. CASE id \notin rest
    <3>1. Cardinality(Places(walk.listed, id)) = 1
      BY <1>2, <2>5 DEF ListedInTurn
    <3>2. Places(walk'.listed, id) = Places(walk.listed, id)
      BY <1>3, <1>4, <1>5, <2>5, AppendOthers
    <3>3. ~Earlier(store, walk.order, last, id)
      <4>1. PICK c \in walk.cursor :
              ~Ahead(walk.order, c[1], c[2], id, store.objects[Chat(id)].created)
        BY <1>2, <2>5 DEF Pending
      <4>2. c[1] \in ids /\ store.objects[Chat(c[1])].created = c[2]
        OBVIOUS
      <4>3. ~Earlier(store, walk.order, c[1], id)
        BY <4>1, <4>2 DEF Earlier, Ahead
      <4>4. Earlier(store, walk.order, c[1], last)
        <5>1. Pending(walk, store, last)
          BY <2>1 DEF rest
        <5>. QED BY <4>2, <5>1 DEF Pending, Earlier, Ahead
      <4>. QED BY <1>2, <2>1, <4>2, <4>3, <4>4, EarlierIsOrder
    <3>. QED BY <2>2, <3>1, <3>2, <3>3 DEF ListedInTurn
  <2>6. CASE id \in rest /\ Earlier(store, walk.order, last, id)
    <3>1. \A n \in DOMAIN page : page[n] # id
      BY <2>3, <2>6
    <3>2. Places(walk'.listed, id) = {}
      <4>1. Places(walk.listed, id) = {}
        BY <1>2, <2>6 DEF ListedInTurn
      <4>2. Places(walk.listed \o page, id) = Places(walk.listed, id)
        BY <1>3, <3>1, AppendOthers
      <4>. QED BY <1>5, <4>1, <4>2
    <3>3. walk'.pc # "done"
      BY <1>1, <2>6, <3>1 DEF PageOf, PageTaken
    <3>. QED BY <2>2, <2>6, <3>2, <3>3 DEF ListedInTurn
  <2>7. CASE id \in rest /\ ~Earlier(store, walk.order, last, id)
    <3>1. PICK n \in DOMAIN page : page[n] = id
      BY <2>3, <2>7
    <3>2. Places(walk.listed, id) = {}
      BY <1>2, <2>7 DEF ListedInTurn
    <3>3. \A m \in DOMAIN page : page[m] = page[n] => m = n
      BY <2>4
    <3>4. Cardinality(Places(walk'.listed, id)) = 1
      <4>1. Cardinality(Places(walk.listed \o page, id)) = 1
        BY <1>3, <3>1, <3>2, <3>3, AppendOnce
      <4>. QED BY <1>5, <4>1
    <3>. QED BY <2>2, <2>7, <3>4 DEF ListedInTurn
  <2>. QED BY <2>5, <2>6, <2>7
<1>. QED BY <1>6, <1>7

LEMMA ListStep == ASSUME IInv, WInv, List, Stay PROVE WInv'
<1>. DEFINE ids == ListChatCompletions(store, walk.filter)
            rest == After(store, ids, walk.order, { c[1] : c \in walk.cursor })
            page == Page(store, rest, walk.order)
<1>1. WalkTyped(walk) /\ walk.pc = "list" /\ UNCHANGED store
  BY DEF WInv, List
<1>2. rest \subseteq ids /\ PageTaken(ids, rest, page)
  BY <1>1, ListTakesPage
<1>3. /\ Listed(store, ids) /\ ids \subseteq ChatIds
      /\ \A id \in ids : store.objects[Chat(id)].created \in 1..MaxCreated
  BY ListIsListed
<1>. HIDE DEF ids
<1>4. PageOf(store, rest, walk.order, page)
  <2>1. Listed(store, rest)
    BY <1>2, <1>3, FS_Subset DEF Listed
  <2>. HIDE DEF rest
  <2>. QED BY <2>1, PageFacts
<1>5. walk.pc = "list" /\ walk.listed = <<>> => stayed' = ids
  BY <1>1, <1>2 DEF Stay, PageTaken, ListChatCompletions, ids
<1>6. ~(walk.pc = "list" /\ walk.listed = <<>>) => stayed' \subseteq stayed /\ stayed' \subseteq ids
  BY <1>1 DEF Stay, ListChatCompletions, ids
<1>7. stayed' \subseteq ListChatCompletions(store', walk'.filter)
  BY <1>1, <1>2, <1>5, <1>6 DEF PageTaken, ids
<1>. HIDE DEF rest, page
<1>8. WalkTyped(walk')
  <2>1. page \in Seq(ids) /\ page \in Seq(ChatIds) /\ walk.listed \in Seq(ChatIds)
    BY <1>1, <1>2, <1>3, <1>4 DEF PageOf, WalkTyped
  <2>2. DOMAIN walk' = DOMAIN walk /\ walk'.listed = walk.listed \o page
    BY <1>2 DEF PageTaken
  <2>3. walk'.pc \in {"next", "done"}
    BY <1>2 DEF PageTaken
  <2>4. CASE page = <<>>
    <3>1. walk'.listed = walk.listed /\ walk'.cursor = walk.cursor /\ walk'.pc # "next"
      BY <1>2, <1>4, <2>1, <2>2, <2>4 DEF PageTaken, PageOf
    <3>. QED BY <1>1, <2>2, <2>3, <3>1 DEF WalkTyped
  <2>5. CASE page # <<>>
    <3>1. page[Len(page)] \in ids
      BY <2>1, <2>5
    <3>2. /\ \A c, d \in walk'.cursor : c = d
          /\ walk'.cursor \subseteq ChatIds \X (1..MaxCreated) /\ walk'.cursor # {}
      <4>. DEFINE last == page[Len(page)]
      <4>1. walk'.cursor = {<<last, store.objects[Chat(last)].created>>}
        BY <1>2, <2>5 DEF PageTaken
      <4>2. last \in ChatIds /\ store.objects[Chat(last)].created \in 1..MaxCreated
        BY <1>3, <3>1
      <4>. HIDE DEF last
      <4>. QED BY <4>1, <4>2
    <3>3. walk'.listed \in Seq(ChatIds) /\ walk'.listed # <<>>
      BY <2>1, <2>2, <2>5
    <3>. QED BY <1>1, <2>2, <2>3, <3>2, <3>3 DEF WalkTyped
  <2>. QED BY <2>4, <2>5
<1>9. ASSUME ~walk'.lost, NEW id \in stayed' PROVE ListedInTurn(walk', store, id)
  <2>1. /\ ~walk.lost
        /\ \A c \in walk.cursor : c[1] \in ids /\ store.objects[Chat(c[1])].created = c[2]
    BY <1>2, <1>9 DEF PageTaken
  <2>2. rest = { i \in ids : Pending(walk, store, i) }
    BY <1>1, <2>1, RestIsPending DEF rest
  <2>3. id \in ids
    BY <1>5, <1>6, <1>9
  <2>4. ListedInTurn(walk, store, id)
    <3>1. CASE walk.listed = <<>>
      <4>1. walk.cursor = {}
        BY <1>1, <3>1 DEF WalkTyped
      <4>. QED BY <1>1, <3>1, <4>1 DEF ListedInTurn, Pending, Places
    <3>2. CASE walk.listed # <<>>
      BY <1>1, <1>6, <1>9, <2>1, <3>2 DEF WInv
    <3>. QED BY <3>1, <3>2
  <2>5. /\ PageTaken(ids, { i \in ids : Pending(walk, store, i) }, page)
        /\ PageOf(store, { i \in ids : Pending(walk, store, i) }, walk.order, page)
    BY <1>2, <1>4, <2>2
  <2>. QED BY <1>1, <1>3, <2>1, <2>3, <2>4, <2>5, PageIsInTurn
<1>10. \A id \in stayed' : ~walk'.lost => ListedInTurn(walk', store', id)
  BY <1>1, <1>9
<1>. QED BY <1>7, <1>8, <1>10 DEF WInv

LEMMA InitWInv == Init => WInv
BY DEF Init, WInv, WalkTyped, NoWalk

LEMMA NextWInv == IInv /\ WInv /\ [Next]_vars => WInv'
<1>. SUFFICES ASSUME IInv, WInv, [Next]_vars PROVE WInv'
  OBVIOUS
<1>1. CASE ArriveList /\ Stay
  <2>1. walk.pc \in {"idle", "next"} /\ WalkTyped(walk)
    BY <1>1 DEF ArriveList, WInv
  <2>2. PICK listing \in Listings :
          walk' = IF walk.pc = "next" THEN [walk EXCEPT !.pc = "list"]
                  ELSE [walk EXCEPT !.pc = "list", !.filter = listing[1], !.order = listing[2]]
    BY <1>1, Zenon DEF ArriveList
  <2>3. /\ walk'.listed = walk.listed /\ walk'.cursor = walk.cursor /\ walk'.lost = walk.lost
        /\ DOMAIN walk' = DOMAIN walk /\ walk'.pc = "list"
        /\ walk.pc # "idle" => walk'.order = walk.order /\ walk'.filter = walk.filter
    BY <2>1, <2>2 DEF WalkTyped
  <2>4. WalkTyped(walk')
    BY <2>1, <2>3 DEF WalkTyped
  <2>. QED BY <1>1, <2>1, <2>3, <2>4, WalkWaits
<1>2. CASE List /\ Stay
  BY <1>2, ListStep
<1>3. CASE walk' = walk /\ Stay
  <2>1. WalkTyped(walk')
    BY <1>3 DEF WInv
  <2>. QED BY <1>3, <2>1, WalkWaits
<1>4. CASE UNCHANGED vars
  BY <1>4 DEF vars, WInv, WalkTyped, ListedInTurn, Pending, Places, ListChatCompletions
<1>5. ASSUME NEW q \in Requests,
             \/ ArriveCreate(q) \/ UpstreamUnkept(q) \/ UpstreamAnswers(q) \/ UpstreamFails(q)
             \/ Save(q) \/ ArriveOnCompletion(q) \/ Get(q) \/ Update(q) \/ Delete(q)
      PROVE  walk' = walk
  <2>1. ArriveCreate(q) \/ ArriveOnCompletion(q) => walk' = walk
    BY Zenon DEF ArriveCreate, ArriveOnCompletion, Arrive
  <2>2. UpstreamUnkept(q) \/ UpstreamAnswers(q) \/ UpstreamFails(q) \/ Save(q) => walk' = walk
    BY Zenon DEF UpstreamUnkept, UpstreamAnswers, UpstreamFails, Save
  <2>3. Get(q) \/ Update(q) \/ Delete(q) => walk' = walk
    BY DEF Get, Update, Delete, Act
  <2>. QED BY <1>5, <2>1, <2>2, <2>3
<1>6. Tick => walk' = walk
  BY DEF Tick
<1>. QED BY <1>1, <1>2, <1>3, <1>4, <1>5, <1>6 DEF Next

\* A walk through the list of completions, page by page, lists every completion
\* that stayed in the list exactly once, if its cursor was never lost: in either
\* order, with any filter and page size, whatever is saved, saved again, deleted
\* or evicted meanwhile (serveChatList, Paginate, SortByCreatedThenID).
THEOREM WalkIsComplete == Spec => []WalkListsWhatStayed
<1>1. WInv => WalkListsWhatStayed
  <2>. SUFFICES ASSUME WInv, walk.pc = "done", ~walk.lost, NEW id \in stayed
                PROVE  Cardinality(Places(walk.listed, id)) = 1
    BY Zenon DEF WalkListsWhatStayed, Places
  <2>. QED BY DEF WInv, ListedInTurn
<1>2. Spec => [](IInv /\ WInv)
  BY InitIInv, NextIInv, InitWInv, NextWInv, PTL DEF Spec
<1>. QED BY <1>1, <1>2, PTL
=============================================================================
