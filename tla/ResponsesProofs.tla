--------------------------- MODULE ResponsesProofs ---------------------------
(***************************************************************************)
(* Proofs about the Responses and Conversations endpoints, for any number  *)
(* of requests, any limits of the store and any interleaving.              *)
(*                                                                         *)
(* IInv says where each request stands, where the items it holds come      *)
(* from, what it knows of the objects it names, and whose each stored      *)
(* object is.  A request that is done never changes, and only the request  *)
(* that makes an object's id writes its slices anew: these two facts carry *)
(* what one request has seen past every step of another.                   *)
(***************************************************************************)
EXTENDS ResponsesAPI, StoreLemmas, SequenceTheorems, WellFoundedInduction

RequestKinds == {"none", "respond", "count", "converse", "get", "delete", "cancel", "update"}

Request ==
  [ pc : {"idle", "lookup", "context", "input", "upstream", "save", "create", "act", "done"},
    kind : RequestKinds, target : {{}} \cup { {key} : key \in Key }, input : Seq(ItemIds),
    keep : BOOLEAN, context : Seq(ItemIds), output : Seq(ItemIds),
    status : {"in_progress", "completed", "incomplete"}, answer : {"none", "ok", "error"} ]

\* What the place of a request says about the rest of it.
Placed(q) ==
  /\ req[q].answer # "none" <=> At(q, "done")
  /\ req[q].pc \in {"lookup", "context", "upstream"} => req[q].kind \in {"respond", "count"}
  /\ At(q, "context") => \A key \in req[q].target : Kind(key) = "response"
  /\ At(q, "input") => req[q].kind \in {"respond", "count", "converse"}
  /\ At(q, "save") => req[q].kind = "respond" /\ req[q].status # "in_progress"
  /\ At(q, "create") => req[q].kind = "converse"
  /\ At(q, "act") => req[q].kind \in {"get", "delete", "cancel", "update"}
  /\ itemIDs(req[q].output) \subseteq {<<"out", q>>}

\* The request that made item i was answered, and saved it.
Served(i) == req[i[2]].answer = "ok" /\ req[i[2]].kind \in {"respond", "converse"}

Sourced(q) ==
  /\ \A i \in itemIDs(req[q].context) : Served(i)
  /\ req[q].pc \in {"upstream", "save", "create"} =>
       \A i \in itemIDs(req[q].input) : i[2] = q \/ Served(i)

\* What a request knows of the objects it names.
Informed(q) ==
  /\ \A key \in req[q].target : Known(key)
  /\ \A key \in OfKind(req[q].target, "response") :
       \/ req[q].context = <<>>
       \/ At(key[2], "done") /\ req[q].context = Transcript(key[2])
  /\ \A c \in OfKind(req[q].target, "conversation") :
       c \in Live(store) => SeqX!IsPrefix(req[q].context, store.lists[<<c, "items">>])
  /\ req[q].kind = "delete" /\ req[q].answer = "ok" =>
       \A key \in req[q].target : key \notin Live(store) /\ At(key[2], "done")

\* A stored object is the one its request was answered with.
Stored(key) ==
  /\ req[key[2]].answer = "ok"
  /\ Kind(key) = "response" =>
       /\ req[key[2]].kind = "respond"
       /\ store.objects[key] = req[key[2]].status /\ req[key[2]].status # "in_progress"
       /\ store.lists[<<key, "input">>] = AllItems(key[2])
       /\ store.lists[<<key, "context">>] = Transcript(key[2])
  /\ Kind(key) = "conversation" => req[key[2]].kind = "converse"
  /\ \A name \in ListNames(Kind(key)) : \A i \in itemIDs(store.lists[<<key, name>>]) : Served(i)

Typed == req \in [Requests -> Request]


\* The inductive invariant.
IInv ==
  /\ Typed /\ Good(store, now) /\ now \in 0..MaxTime
  /\ \A q \in Requests : Placed(q) /\ Sourced(q) /\ Informed(q)
  /\ \A key \in Live(store) : Stored(key)

\* A step of request q on the requests: it is not done, it alone changes, and
\* a response whose id is out is still to be answered.
Advances(q) ==
  /\ req' \in [Requests -> Request] /\ ~At(q, "done")
  /\ \A p \in Requests \ {q} : req'[p] = req[p]
  /\ req[q].kind = "respond" /\ req[q].pc \in {"upstream", "save"} =>
       req'[q].kind = "respond" /\ req'[q].pc \in {"upstream", "save", "done"}

\* A step of request q on the store: other requests' objects may disappear, and
\* the conversations among them may grow.
Grown(q) ==
  \A key \in Live(store') :
    \/ key[2] = q
    \/ /\ key \in Live(store)
       /\ Kind(key) = "conversation" =>
            \E added \in Seq(ItemIds) :
              store'.lists[<<key, "items">>] = store.lists[<<key, "items">>] \o added

-----------------------------------------------------------------------------
(* Keys, items and prefixes.                                               *)

LEMMA KeyFacts ==
  ASSUME NEW key \in Key
  PROVE  /\ key[2] \in Requests
         /\ \/ Kind(key) = "response" /\ ListNames(Kind(key)) = {"input", "context"}
            \/ Kind(key) = "conversation" /\ ListNames(Kind(key)) = {"items"}
         /\ key = <<Kind(key), key[2]>>
BY IdsAssumption DEF Key, ResponseKey, ChatKey, ConversationKey, Kind, ListNames

LEMMA ItemFacts ==
  /\ \A i \in ItemIds : i[2] \in Requests
  /\ \A q \in Requests : <<"in", q>> \in ItemIds /\ <<"out", q>> \in ItemIds
BY IdsAssumption

LEMMA PrefixOfConcat ==
  ASSUME NEW S, NEW a \in Seq(S), NEW b \in Seq(S), NEW x \in Seq(S), SeqX!IsPrefix(a, b)
  PROVE  SeqX!IsPrefix(a, b \o x)
<1>1. Len(a) <= Len(b) /\ SubSeq(a, 1, Len(a)) = SubSeq(b, 1, Len(a))
  BY DEF SeqX!IsPrefix
<1>2. Len(a) <= Len(b \o x)
  BY <1>1
<1>3. SubSeq(b \o x, 1, Len(a)) = SubSeq(b, 1, Len(a))
  BY <1>1
<1>. QED BY <1>1, <1>2, <1>3 DEF SeqX!IsPrefix

LEMMA PrefixOfSelf ==
  ASSUME NEW S, NEW a \in Seq(S) PROVE SeqX!IsPrefix(<<>>, a) /\ SeqX!IsPrefix(a, a)
BY DEF SeqX!IsPrefix

LEMMA NoItems == itemIDs(<<>>) = {}
BY DEF itemIDs

\* The types of what a request holds.
LEMMA RequestFacts ==
  ASSUME Typed, NEW q \in Requests
  PROVE  /\ req[q] \in Request
         /\ req[q].target \subseteq Key
         /\ req[q].input \in Seq(ItemIds) /\ req[q].context \in Seq(ItemIds)
         /\ req[q].output \in Seq(ItemIds) /\ AllItems(q) \in Seq(ItemIds)
         /\ req[q].keep \in BOOLEAN
<1>1. req[q] \in Request
  BY DEF Typed
<1>2. /\ req[q].target \subseteq Key
      /\ req[q].input \in Seq(ItemIds) /\ req[q].context \in Seq(ItemIds)
      /\ req[q].output \in Seq(ItemIds)
  BY <1>1 DEF Request
<1>3. req[q].keep \in BOOLEAN
  BY <1>1, Zenon DEF Request
<1>. QED BY <1>1, <1>2, <1>3, ItemIDsOfConcat DEF AllItems

\* A request names one object, or none.
LEMMA OneTarget ==
  ASSUME Typed, NEW q \in Requests, NEW key \in req[q].target
  PROVE  req[q].target = {key} /\ key \in Key
BY RequestFacts DEF Request

-----------------------------------------------------------------------------
(* What the others see of a step of q.                                     *)

LEMMA KnownStays ==
  ASSUME NEW q \in Requests, Advances(q), NEW key \in Key, Known(key)
  PROVE  Known(key)'
BY KeyFacts DEF Advances, Known, At

LEMMA ServedStays ==
  ASSUME IInv, NEW q \in Requests, Advances(q), NEW i \in ItemIds, Served(i)
  PROVE  Served(i)' /\ i[2] # q
BY ItemFacts DEF IInv, Placed, Advances, Served, At

\* Request p holds the context it had, and no deletion of its was answered.
GoesOn(p) ==
  /\ req'[p].target = req[p].target /\ req'[p].kind = req[p].kind
  /\ req'[p].context = req[p].context
  /\ req[p].kind = "delete" /\ req'[p].answer = "ok" => req[p].answer = "ok"

LEMMA InformedGoesOn ==
  ASSUME IInv, NEW q \in Requests, Advances(q), Grown(q), NEW p \in Requests, GoesOn(p)
  PROVE  Informed(p)'
<1>0. Informed(p) /\ req[p].target \subseteq Key /\ req[p].context \in Seq(ItemIds)
  BY RequestFacts DEF IInv
<1>1. \A key \in req[p].target : Known(key)'
  BY <1>0, KnownStays DEF Informed
<1>2. ASSUME NEW key \in OfKind(req[p].target, "response")
      PROVE  req[p].context = <<>> \/ (At(key[2], "done")' /\ req[p].context = Transcript(key[2])')
  <2>1. \/ req[p].context = <<>>
        \/ At(key[2], "done") /\ req[p].context = Transcript(key[2])
    BY <1>0 DEF Informed
  <2>2. At(key[2], "done") => req'[key[2]] = req[key[2]]
    BY <1>0, KeyFacts DEF OfKind, Advances
  <2>. QED BY <2>1, <2>2 DEF At, Transcript, AllItems
<1>3. ASSUME NEW c \in OfKind(req[p].target, "conversation"), c \in Live(store')
      PROVE  SeqX!IsPrefix(req[p].context, store'.lists[<<c, "items">>])
  <2>1. c \in Key /\ Kind(c) = "conversation" /\ c \in req[p].target
    BY <1>0 DEF OfKind
  <2>2. c[2] # q
    BY <1>0, <2>1 DEF Informed, Known, Advances
  <2>3. PICK added \in Seq(ItemIds) :
          store'.lists[<<c, "items">>] = store.lists[<<c, "items">>] \o added
    BY <1>3, <2>1, <2>2 DEF Grown
  <2>4. c \in Live(store) /\ SeqX!IsPrefix(req[p].context, store.lists[<<c, "items">>])
    BY <1>0, <1>3, <2>1, <2>2 DEF Grown, Informed
  <2>5. store.lists[<<c, "items">>] \in Seq(ItemIds)
    BY <2>1, <2>4, KeyFacts, LiveSlices DEF IInv, Good, Sound
  <2>. QED BY <1>0, <2>3, <2>4, <2>5, PrefixOfConcat
<1>4. ASSUME req[p].kind = "delete", req[p].answer = "ok", NEW key \in req[p].target
      PROVE  key \notin Live(store') /\ At(key[2], "done")'
  <2>1. key \notin Live(store) /\ At(key[2], "done") /\ key[2] \in Requests
    BY <1>0, <1>4, KeyFacts DEF Informed
  <2>2. key[2] # q
    BY <2>1 DEF Advances
  <2>. QED BY <2>1, <2>2 DEF Grown, Advances, At
<1>. QED BY <1>0, <1>1, <1>2, <1>3, <1>4 DEF Informed, GoesOn

LEMMA OthersGoOn ==
  ASSUME IInv, NEW q \in Requests, Advances(q), Grown(q), NEW p \in Requests, p # q
  PROVE  Placed(p)' /\ Sourced(p)' /\ Informed(p)'
<1>0. /\ req'[p] = req[p] /\ Placed(p) /\ Sourced(p)
      /\ itemIDs(req[p].context) \subseteq ItemIds /\ itemIDs(req[p].input) \subseteq ItemIds
  BY RequestFacts, ItemIDsType DEF IInv, Advances
<1>1. Placed(p)'
  BY <1>0 DEF Placed, At
<1>2. Sourced(p)'
  BY <1>0, ServedStays DEF Sourced
<1>3. Informed(p)'
  BY <1>0, InformedGoesOn DEF GoesOn
<1>. QED BY <1>1, <1>2, <1>3

\* An object that a step of q leaves as it is, stays the one that was answered.
\* The metadata of a conversation may change.
LEMMA StoredGoesOn ==
  ASSUME IInv, NEW q \in Requests, Advances(q), NEW key \in Live(store),
         Kind(key) = "response" => store'.objects[key] = store.objects[key],
         \A name \in ListNames(Kind(key)) : store'.lists[<<key, name>>] = store.lists[<<key, name>>]
  PROVE  Stored(key)' /\ key[2] # q
<1>1. /\ key \in Key /\ key[2] \in Requests /\ Stored(key) /\ Placed(key[2])
      /\ \A name \in ListNames(Kind(key)) : itemIDs(store.lists[<<key, name>>]) \subseteq ItemIds
  BY KeyFacts, LiveSlices, ItemIDsType DEF IInv, Good, Sound, IsStore
<1>2. key[2] # q /\ req'[key[2]] = req[key[2]]
  BY <1>1 DEF Stored, Placed, Advances, At
<1>3. \A name \in ListNames(Kind(key)) :
        \A i \in itemIDs(store'.lists[<<key, name>>]) : Served(i)'
  BY <1>1, ServedStays DEF Stored
<1>4. Kind(key) = "response" =>
        /\ req'[key[2]].kind = "respond"
        /\ store'.objects[key] = req'[key[2]].status /\ req'[key[2]].status # "in_progress"
        /\ store'.lists[<<key, "input">>] = AllItems(key[2])'
        /\ store'.lists[<<key, "context">>] = Transcript(key[2])'
  <2>. SUFFICES ASSUME Kind(key) = "response" PROVE
        /\ req'[key[2]].kind = "respond"
        /\ store'.objects[key] = req'[key[2]].status /\ req'[key[2]].status # "in_progress"
        /\ store'.lists[<<key, "input">>] = AllItems(key[2])'
        /\ store'.lists[<<key, "context">>] = Transcript(key[2])'
    OBVIOUS
  <2>1. "input" \in ListNames(Kind(key)) /\ "context" \in ListNames(Kind(key))
    BY DEF ListNames
  <2>2. /\ store'.lists[<<key, "input">>] = AllItems(key[2])
        /\ store'.lists[<<key, "context">>] = Transcript(key[2])
    BY <1>1, <2>1 DEF Stored
  <2>3. AllItems(key[2])' = AllItems(key[2]) /\ Transcript(key[2])' = Transcript(key[2])
    BY <1>2 DEF Transcript, AllItems
  <2>. QED BY <1>1, <1>2, <2>2, <2>3 DEF Stored
<1>. QED BY <1>1, <1>2, <1>3, <1>4 DEF Stored

\* A step of q that saves nothing: objects may go, and a conversation may get
\* other metadata.
Quiet ==
  \A key \in Live(store') :
    /\ key \in Live(store)
    /\ Kind(key) = "response" => store'.objects[key] = store.objects[key]
    /\ \A name \in ListNames(Kind(key)) : store'.lists[<<key, name>>] = store.lists[<<key, name>>]

LEMMA NarrowedQuiet == ASSUME Narrowed(store, store') PROVE Quiet
BY DEF Narrowed, Kept, Quiet

\* A conversation that is kept has grown by nothing.
LEMMA KeptGrows ==
  ASSUME IInv, NEW key, Kept(store, store', key)
  PROVE  /\ key \in Live(store)
         /\ Kind(key) = "conversation" =>
              \E added \in Seq(ItemIds) :
                store'.lists[<<key, "items">>] = store.lists[<<key, "items">>] \o added
<1>. SUFFICES ASSUME Kind(key) = "conversation"
              PROVE  \E added \in Seq(ItemIds) :
                       store'.lists[<<key, "items">>] = store.lists[<<key, "items">>] \o added
  BY DEF Kept
<1>1. key \in Live(store) /\ "items" \in ListNames(Kind(key))
  BY DEF Kept, ListNames
<1>2. store.lists[<<key, "items">>] \in Seq(ItemIds)
  BY <1>1, LiveSlices DEF IInv, Good, Sound
<1>3. store.lists[<<key, "items">>] = store.lists[<<key, "items">>] \o <<>> /\ <<>> \in Seq(ItemIds)
  BY <1>2, ConcatEmptySeq
<1>. QED BY <1>1, <1>3 DEF Kept

LEMMA QuietGrown ==
  ASSUME IInv, Quiet, NEW q PROVE Grown(q)
<1>. SUFFICES ASSUME NEW key \in Live(store'), Kind(key) = "conversation"
              PROVE  /\ key \in Live(store)
                     /\ \E added \in Seq(ItemIds) :
                          store'.lists[<<key, "items">>] = store.lists[<<key, "items">>] \o added
  BY DEF Grown, Quiet
<1>1. key \in Live(store) /\ "items" \in ListNames(Kind(key))
  BY DEF Quiet, ListNames
<1>2. store.lists[<<key, "items">>] \in Seq(ItemIds)
  BY <1>1, LiveSlices DEF IInv, Good, Sound
<1>3. store.lists[<<key, "items">>] = store.lists[<<key, "items">>] \o <<>> /\ <<>> \in Seq(ItemIds)
  BY <1>2, ConcatEmptySeq
<1>. QED BY <1>1, <1>3 DEF Quiet

LEMMA QuietStep ==
  ASSUME IInv, NEW q \in Requests, Advances(q), Quiet, Good(store', now), now' = now,
         Placed(q)', Sourced(q)', Informed(q)'
  PROVE  IInv'
<1>1. Grown(q)
  BY QuietGrown
<1>2. \A p \in Requests : Placed(p)' /\ Sourced(p)' /\ Informed(p)'
  BY <1>1, OthersGoOn
<1>3. ASSUME NEW key \in Live(store') PROVE Stored(key)'
  <2>1. /\ key \in Live(store)
        /\ Kind(key) = "response" => store'.objects[key] = store.objects[key]
        /\ \A name \in ListNames(Kind(key)) :
             store'.lists[<<key, name>>] = store.lists[<<key, name>>]
    BY DEF Quiet
  <2>. QED BY <2>1, StoredGoesOn
<1>. QED BY <1>2, <1>3 DEF IInv, Typed, Advances

\* The items q holds, of a step that brings none.
LEMMA GoesOnSourced ==
  ASSUME IInv, NEW q \in Requests, Advances(q),
         req'[q].context = req[q].context, req'[q].input = req[q].input,
         req'[q].pc \in {"upstream", "save", "create"} =>
           \A i \in itemIDs(req[q].input) : i[2] = q \/ Served(i)
  PROVE  Sourced(q)'
<1>1. Sourced(q) /\ itemIDs(req[q].context) \subseteq ItemIds /\ itemIDs(req[q].input) \subseteq ItemIds
  BY RequestFacts, ItemIDsType DEF IInv
<1>. QED BY <1>1, ServedStays DEF Sourced

-----------------------------------------------------------------------------
(* The steps that save nothing.                                            *)

\* The request a client sends, as Arrive takes it.
Fresh(request) ==
  /\ request \in Request
  /\ request.context = <<>> /\ request.output = <<>> /\ request.answer = "none"
  /\ \A key \in request.target : Known(key)

LEMMA ArriveStep ==
  ASSUME IInv, NEW q \in Requests, NEW request, Fresh(request),
         NEW first \in {"lookup", "input", "act"}, Arrive(q, request, first),
         first = "lookup" => request.kind \in {"respond", "count"},
         first = "input" => request.kind = "converse",
         first = "act" => request.kind \in {"get", "delete", "cancel", "update"}
  PROVE  IInv'
<1>. DEFINE r == [request EXCEPT !.pc = first]
<1>1. /\ r \in Request /\ r.pc = first /\ r.kind = request.kind /\ r.target = request.target
      /\ r.context = <<>> /\ r.output = <<>> /\ r.answer = "none"
  BY DEF Fresh, Request
<1>. HIDE DEF r
<1>2. req'[q] = r /\ \A p \in Requests \ {q} : req'[p] = req[p]
  BY DEF Arrive, IInv, Typed, r
<1>3. Advances(q)
  <2>1. req' \in [Requests -> Request]
    BY <1>1 DEF Arrive, IInv, Typed, r
  <2>. QED BY <1>2, <2>1 DEF Advances, Arrive, At
<1>4. Quiet /\ Good(store', now) /\ now' = now
  <2>1. store' = pruneExpired(store, now, FALSE) /\ now' = now /\ now \in Nat
    BY DEF Arrive, IInv
  <2>2. Good(store', now)
    BY <2>1, PruneGood DEF IInv
  <2>3. Narrowed(store, store')
    BY <2>1, PruneStore DEF IInv, Good
  <2>. QED BY <2>1, <2>2, <2>3, NarrowedQuiet
<1>5. Placed(q)'
  BY <1>1, <1>2, NoItems DEF Placed, At
<1>6. Sourced(q)'
  BY <1>1, <1>2, NoItems DEF Sourced
<1>7. Informed(q)'
  <2>1. \A key \in r.target : Known(key)'
    <3>1. r.target \subseteq Key
      BY <1>1 DEF Request
    <3>. QED BY <1>1, <1>3, <3>1, KnownStays DEF Fresh
  <2>2. ASSUME NEW c \in OfKind(r.target, "conversation"), c \in Live(store')
        PROVE  SeqX!IsPrefix(<<>>, store'.lists[<<c, "items">>])
    <3>1. store'.lists[<<c, "items">>] \in Seq(ItemIds)
      <4>1. "items" \in ListNames(Kind(c))
        BY DEF OfKind, ListNames
      <4>. QED BY <1>4, <2>2, <4>1, LiveSlices DEF Good, Sound
    <3>. QED BY <3>1, PrefixOfSelf
  <2>. QED BY <1>1, <1>2, <2>1, <2>2 DEF Informed
<1>. QED BY <1>3, <1>4, <1>5, <1>6, <1>7, QuietStep

\* Request q, and it alone, is now at pc, and holds this.
Becomes(q, pc, context, output, status, answer) ==
  /\ req' \in [Requests -> Request]
  /\ \A p \in Requests \ {q} : req'[p] = req[p]
  /\ req'[q].kind = req[q].kind /\ req'[q].target = req[q].target
  /\ req'[q].input = req[q].input
  /\ req'[q].pc = pc /\ req'[q].context = context /\ req'[q].output = output
  /\ req'[q].status = status /\ req'[q].answer = answer

LEMMA OneChanges ==
  ASSUME Typed, NEW q \in Requests, NEW r \in Request, req' = [req EXCEPT ![q] = r]
  PROVE  /\ req' \in [Requests -> Request] /\ req'[q] = r
         /\ \A p \in Requests \ {q} : req'[p] = req[p]
BY DEF Typed

LEMMA GotoBecomes ==
  ASSUME Typed, NEW q \in Requests, NEW pc \in {"context", "input", "upstream", "create"}, Goto(q, pc)
  PROVE  Becomes(q, pc, req[q].context, req[q].output, req[q].status, req[q].answer)
<1>. DEFINE r == [req[q] EXCEPT !.pc = pc]
<1>1. req[q] \in Request /\ req' = [req EXCEPT ![q] = r]
  BY DEF Typed, Goto
<1>2. /\ r \in Request /\ r.kind = req[q].kind /\ r.target = req[q].target
      /\ r.input = req[q].input /\ r.pc = pc /\ r.context = req[q].context
      /\ r.output = req[q].output /\ r.status = req[q].status /\ r.answer = req[q].answer
  BY <1>1 DEF Request
<1>. HIDE DEF r
<1>. QED BY <1>1, <1>2 DEF Becomes, Typed

LEMMA AnswerBecomes ==
  ASSUME Typed, NEW q \in Requests, NEW answer \in {"ok", "error"}, Answer(q, answer)
  PROVE  Becomes(q, "done", req[q].context, req[q].output, req[q].status, answer)
<1>. DEFINE r == [req[q] EXCEPT !.pc = "done", !.answer = answer]
<1>1. req[q] \in Request /\ req' = [req EXCEPT ![q] = r]
  BY DEF Typed, Answer
<1>2. /\ r \in Request /\ r.kind = req[q].kind /\ r.target = req[q].target
      /\ r.input = req[q].input /\ r.pc = "done" /\ r.context = req[q].context
      /\ r.output = req[q].output /\ r.status = req[q].status /\ r.answer = answer
  BY <1>1 DEF Request
<1>. HIDE DEF r
<1>. QED BY <1>1, <1>2 DEF Becomes, Typed

LEMMA ContextBecomes ==
  ASSUME Typed, NEW q \in Requests, NEW context \in Seq(ItemIds),
         req' = [req EXCEPT ![q].pc = "input", ![q].context = context]
  PROVE  Becomes(q, "input", context, req[q].output, req[q].status, req[q].answer)
<1>. DEFINE r == [req[q] EXCEPT !.pc = "input", !.context = context]
<1>1. req[q] \in Request /\ req' = [req EXCEPT ![q] = r]
  BY DEF Typed
<1>2. /\ r \in Request /\ r.kind = req[q].kind /\ r.target = req[q].target
      /\ r.input = req[q].input /\ r.pc = "input" /\ r.context = context
      /\ r.output = req[q].output /\ r.status = req[q].status /\ r.answer = req[q].answer
  BY <1>1 DEF Request
<1>. HIDE DEF r
<1>. QED BY <1>1, <1>2 DEF Becomes, Typed

LEMMA OutputBecomes ==
  ASSUME Typed, NEW q \in Requests, NEW output \in Seq(ItemIds),
         NEW status \in {"completed", "incomplete"},
         req' = [req EXCEPT ![q].pc = "save", ![q].output = output, ![q].status = status]
  PROVE  Becomes(q, "save", req[q].context, output, status, req[q].answer)
<1>. DEFINE r == [req[q] EXCEPT !.pc = "save", !.output = output, !.status = status]
<1>1. req[q] \in Request /\ req' = [req EXCEPT ![q] = r]
  BY DEF Typed
<1>2. /\ r \in Request /\ r.kind = req[q].kind /\ r.target = req[q].target
      /\ r.input = req[q].input /\ r.pc = "save" /\ r.context = req[q].context
      /\ r.output = output /\ r.status = status /\ r.answer = req[q].answer
  BY <1>1 DEF Request
<1>. HIDE DEF r
<1>3. req' \in [Requests -> Request] /\ req'[q] = r /\ \A p \in Requests \ {q} : req'[p] = req[p]
  BY <1>1, <1>2, OneChanges, Zenon
<1>. QED BY <1>2, <1>3 DEF Becomes

\* The steps of the requests that bring no context and leave the store quiet.
LEMMA GoesOnStep ==
  ASSUME IInv, NEW q \in Requests, ~At(q, "done"), NEW pc, NEW output, NEW status, NEW answer,
         Becomes(q, pc, req[q].context, output, status, answer),
         Quiet, Good(store', now), now' = now,
         req[q].kind = "respond" /\ req[q].pc \in {"upstream", "save"} => pc \in {"upstream", "save", "done"},
         req[q].kind = "delete" => answer # "ok",
         pc \in {"upstream", "save", "create"} =>
           \A i \in itemIDs(req[q].input) : i[2] = q \/ Served(i),
         Placed(q)'
  PROVE  IInv'
<1>1. Advances(q)
  BY DEF Becomes, Advances
<1>2. Grown(q)
  BY QuietGrown
<1>3. Informed(q)'
  BY <1>1, <1>2, InformedGoesOn DEF Becomes, GoesOn
<1>4. Sourced(q)'
  BY <1>1, GoesOnSourced DEF Becomes
<1>. QED BY <1>1, <1>3, <1>4, QuietStep

\* A read is quiet.
LEMMA ReadQuiet ==
  ASSUME IInv, NEW key, store' = read(store, key, now)
  PROVE  Quiet /\ Good(store', now) /\ Live(store') = Live(store) /\ store'.lists = store.lists
<1>1. now \in Nat /\ Good(store, now)
  BY DEF IInv
<1>2. /\ Live(store') = Live(store) /\ store'.objects = store.objects
      /\ store'.lists = store.lists
  BY <1>1, ReadStore DEF Good
<1>. QED BY <1>1, <1>2, ReadUpdateGood DEF Quiet

LEMMA UnchangedQuiet ==
  ASSUME IInv, store' = store PROVE Quiet /\ Good(store', now)
BY DEF IInv, Quiet

LEMMA LookupNothingStep ==
  ASSUME IInv, NEW q \in Requests, LookupNothing(q) PROVE IInv'
<1>1. /\ Becomes(q, "input", req[q].context, req[q].output, req[q].status, req[q].answer)
      /\ At(q, "lookup") /\ Placed(q) /\ store' = store /\ now' = now
  BY GotoBecomes DEF LookupNothing, IInv
<1>2. Placed(q)'
  BY <1>1 DEF Becomes, Placed, At
<1>. QED BY <1>1, <1>2, UnchangedQuiet, GoesOnStep DEF At, Placed

\* An answer that is no news of an object, with the store quiet.
LEMMA AnswerStep ==
  ASSUME IInv, NEW q \in Requests, NEW answer \in {"ok", "error"}, Answer(q, answer),
         ~At(q, "done"), Quiet, Good(store', now), now' = now,
         req[q].kind = "delete" => answer # "ok"
  PROVE  IInv'
<1>1. /\ Becomes(q, "done", req[q].context, req[q].output, req[q].status, answer) /\ Placed(q)
  BY AnswerBecomes DEF IInv
<1>2. Placed(q)'
  BY <1>1 DEF Becomes, Placed, At
<1>. QED BY <1>1, <1>2, GoesOnStep

LEMMA GetStep ==
  ASSUME IInv, NEW q \in Requests, Get(q) PROVE IInv'
<1>1. /\ At(q, "act") /\ req[q].kind = "get" /\ now' = now
      /\ \E key \in req[q].target : store' = read(store, key, now) /\ Answer(q, Found(key))
  BY DEF Get, Act
<1>. QED BY <1>1, ReadQuiet, AnswerStep DEF Found, At

LEMMA DeleteObjectStep ==
  ASSUME IInv, NEW q \in Requests, DeleteObject(q) PROVE IInv'
<1>1. PICK key \in req[q].target : store' = delete(store, key) /\ Answer(q, Found(key))
  BY DEF DeleteObject
<1>2. At(q, "act") /\ req[q].kind = "delete" /\ now' = now /\ Informed(q) /\ Placed(q)
  BY DEF DeleteObject, Act, IInv
<1>3. now \in Nat /\ Good(store, now) /\ Good(store', now)
  BY <1>1, DeleteGood DEF IInv
<1>4. Live(store') = Live(store) \ {key} /\ Quiet
  BY <1>1, <1>3, DeleteFrame, NarrowedQuiet DEF Good
<1>5. CASE key \notin Live(store)
  <2>1. Answer(q, "error") /\ ~At(q, "done")
    BY <1>1, <1>2, <1>5 DEF Found, At
  <2>. QED BY <1>2, <1>3, <1>4, <2>1, AnswerStep
<1>6. CASE key \in Live(store)
  <2>1. Becomes(q, "done", req[q].context, req[q].output, req[q].status, "ok")
    BY <1>1, <1>6, AnswerBecomes DEF Found, IInv
  <2>2. Advances(q) /\ Placed(q)'
    BY <1>2, <2>1 DEF Becomes, Advances, Placed, At
  <2>3. req[q].target = {key} /\ key \in Key
    BY <1>1, OneTarget DEF IInv
  <2>4. At(key[2], "done") /\ key[2] \in Requests
    BY <1>6, <2>3, KeyFacts DEF IInv, Stored, Placed
  <2>5. At(key[2], "done")'
    BY <1>2, <2>1, <2>4 DEF Becomes, At
  <2>6. Informed(q)'
    <3>1. \A k \in req[q].target : Known(k)'
      BY <1>2, <2>2, <2>3, KnownStays DEF Informed
    <3>2. \A c \in OfKind(req[q].target, "conversation") : c \notin Live(store')
      BY <1>4, <2>3 DEF OfKind
    <3>3. ASSUME NEW k \in OfKind(req[q].target, "response")
          PROVE  \/ req[q].context = <<>>
                 \/ At(k[2], "done")' /\ req[q].context = Transcript(k[2])'
      <4>1. \/ req[q].context = <<>>
            \/ At(k[2], "done") /\ req[q].context = Transcript(k[2])
        BY <1>2 DEF Informed
      <4>2. k = key /\ key[2] # q
        BY <1>2, <2>3, <2>4 DEF OfKind, At
      <4>3. req'[k[2]] = req[k[2]]
        BY <2>1, <2>4, <4>2 DEF Becomes
      <4>. QED BY <4>1, <4>3 DEF At, Transcript, AllItems
    <3>4. \A k \in req[q].target : k \notin Live(store') /\ At(k[2], "done")'
      BY <1>4, <2>3, <2>5
    <3>. QED BY <2>1, <3>1, <3>2, <3>3, <3>4 DEF Informed, Becomes
  <2>7. Sourced(q)'
    BY <2>1, <2>2, GoesOnSourced DEF Becomes
  <2>. QED BY <1>2, <1>3, <1>4, <2>2, <2>6, <2>7, QuietStep
<1>. QED BY <1>5, <1>6

\* A response is stored with the status of a finished one, which no
\* cancellation changes.
LEMMA CancelStep ==
  ASSUME IInv, NEW q \in Requests, Cancel(q) PROVE IInv'
<1>1. PICK key \in req[q].target :
        /\ Kind(key) = "response"
        /\ IF key \in Live(store)
             THEN LET status == Cancelled(store.objects[key]) IN
                    /\ store' = update(store, key, status, now)
                    /\ Answer(q, IF status = "cancelled" THEN "ok" ELSE "error")
             ELSE Answer(q, "error") /\ UNCHANGED store
  BY DEF Cancel
<1>2. At(q, "act") /\ req[q].kind = "cancel" /\ now' = now /\ ~At(q, "done")
  BY DEF Cancel, Act, At
<1>3. CASE key \notin Live(store)
  BY <1>1, <1>2, <1>3, UnchangedQuiet, AnswerStep
<1>4. CASE key \in Live(store)
  <2>. DEFINE value == store.objects[key]
              answer == IF Cancelled(value) = "cancelled" THEN "ok" ELSE "error"
  <2>1. value \in {"completed", "incomplete"}
    <3>1. Stored(key) /\ key \in Key
      BY <1>4 DEF IInv, Good, Sound, IsStore
    <3>2. req[key[2]] \in Request
      BY <3>1, KeyFacts, RequestFacts DEF IInv
    <3>. QED BY <1>1, <3>1, <3>2 DEF Stored, Request
  <2>2. Cancelled(value) = value /\ value \in Values
    BY <2>1, IdsAssumption DEF Cancelled, Statuses
  <2>3. store' = update(store, key, value, now) /\ Answer(q, answer)
    BY <1>1, <1>4, <2>2
  <2>4. now \in Nat /\ Good(store, now)
    BY DEF IInv
  <2>5. Good(store', now)
    BY <2>2, <2>3, <2>4, ReadUpdateGood
  <2>6. Live(store') = Live(store) /\ Updated(store, store', key, value)
    BY <2>2, <2>3, <2>4, UpdateStore DEF Good
  <2>7. Quiet
    BY <2>6 DEF Quiet, Updated
  <2>. QED BY <1>2, <2>3, <2>5, <2>7, AnswerStep
<1>. QED BY <1>3, <1>4

LEMMA UpdateConversationStep ==
  ASSUME IInv, NEW q \in Requests, UpdateConversation(q) PROVE IInv'
<1>1. PICK key \in req[q].target, metadata \in Metadata :
        /\ Kind(key) = "conversation"
        /\ store' = update(store, key, metadata, now)
        /\ Answer(q, Found(key))
  BY DEF UpdateConversation
<1>2. At(q, "act") /\ req[q].kind = "update" /\ now' = now /\ ~At(q, "done")
  BY DEF UpdateConversation, Act, At
<1>3. now \in Nat /\ Good(store, now) /\ metadata \in Values
  BY IdsAssumption DEF IInv
<1>4. Good(store', now)
  BY <1>1, <1>3, ReadUpdateGood
<1>5. Live(store') = Live(store) /\ Updated(store, store', key, metadata)
  BY <1>1, <1>3, UpdateStore DEF Good
<1>6. Quiet
  BY <1>1, <1>5 DEF Quiet, Updated
<1>. QED BY <1>1, <1>2, <1>4, <1>6, AnswerStep DEF Found

LEMMA UpstreamFailsStep ==
  ASSUME IInv, NEW q \in Requests, UpstreamFails(q) PROVE IInv'
BY UnchangedQuiet, AnswerStep DEF UpstreamFails, At

LEMMA UpstreamAnswersStep ==
  ASSUME IInv, NEW q \in Requests, UpstreamAnswers(q) PROVE IInv'
<1>1. PICK output \in {<<>>, << <<"out", q>> >>}, status \in {"completed", "incomplete"} :
        IF req[q].kind = "respond"
          THEN req' = [req EXCEPT ![q].pc = "save", ![q].output = output, ![q].status = status]
          ELSE Answer(q, "ok")
  BY DEF UpstreamAnswers
<1>2. /\ At(q, "upstream") /\ ~At(q, "done") /\ store' = store /\ now' = now
      /\ Placed(q) /\ Sourced(q)
  BY DEF UpstreamAnswers, At, IInv
<1>3. CASE req[q].kind # "respond"
  <2>1. req[q].kind = "count" /\ Answer(q, "ok")
    BY <1>1, <1>2, <1>3 DEF Placed, At
  <2>. QED BY <1>2, <2>1, UnchangedQuiet, AnswerStep
<1>4. CASE req[q].kind = "respond"
  <2>1. output \in Seq(ItemIds) /\ itemIDs(output) \subseteq {<<"out", q>>}
    <3>1. CASE output = <<>>
      BY <3>1, NoItems
    <3>2. CASE output = << <<"out", q>> >>
      <4>1. <<"out", q>> \in ItemIds
        BY ItemFacts
      <4>2. output \in Seq(ItemIds) /\ \A n \in DOMAIN output : output[n] = <<"out", q>>
        BY <3>2, <4>1
      <4>. QED BY <4>2 DEF itemIDs
    <3>. QED BY <3>1, <3>2
  <2>2. Becomes(q, "save", req[q].context, output, status, req[q].answer)
    BY <1>1, <1>4, <2>1, OutputBecomes DEF IInv
  <2>3. Placed(q)'
    BY <1>2, <1>4, <2>1, <2>2 DEF Becomes, Placed, At
  <2>4. \A i \in itemIDs(req[q].input) : i[2] = q \/ Served(i)
    BY <1>2 DEF Sourced, At
  <2>. QED BY <1>2, <1>4, <2>2, <2>3, <2>4, UnchangedQuiet, GoesOnStep
<1>. QED BY <1>3, <1>4

\* What the index holds was served.
LEMMA IndexServed ==
  ASSUME IInv, NEW i \in store.ItemsByID PROVE Served(i)
<1>1. i \in Held(store)
  BY IndexOfSound DEF IInv, Good
<1>2. PICK l \in Holding(store) : i \in itemIDs(store.lists[l])
  BY <1>1 DEF Held
<1>3. l \in Slices(Live(store))
  BY DEF Holding, IInv, Good, Sound, IsStore
<1>4. PICK key \in Live(store) : \E name \in ListNames(Kind(key)) : l = <<key, name>>
  BY <1>3, SliceMembers
<1>. QED BY <1>2, <1>4 DEF IInv, Stored

LEMMA NormalizeInputStep ==
  ASSUME IInv, NEW q \in Requests, NormalizeInput(q) PROVE IInv'
<1>1. /\ At(q, "input") /\ ~At(q, "done") /\ store' = store /\ now' = now /\ Placed(q)
  BY DEF NormalizeInput, At, IInv
<1>2. CASE Answer(q, "error")
  BY <1>1, <1>2, UnchangedQuiet, AnswerStep
<1>3. CASE Resolved(q) /\ Goto(q, IF req[q].kind = "converse" THEN "create" ELSE "upstream")
  <2>. DEFINE pc == IF req[q].kind = "converse" THEN "create" ELSE "upstream"
  <2>1. Becomes(q, pc, req[q].context, req[q].output, req[q].status, req[q].answer)
    BY <1>3, GotoBecomes DEF IInv
  <2>2. Placed(q)'
    BY <1>1, <2>1 DEF Becomes, Placed, At
  <2>3. \A i \in itemIDs(req[q].input) : i[2] = q \/ Served(i)
    BY <1>3, IndexServed DEF Resolved
  <2>4. req[q].pc = "input" /\ req[q].kind # "delete"
    BY <1>1 DEF At, Placed
  <2>. HIDE DEF pc
  <2>. QED BY <1>1, <2>1, <2>2, <2>3, <2>4, UnchangedQuiet, GoesOnStep
<1>. QED BY <1>2, <1>3 DEF NormalizeInput

LEMMA LookupPreviousStep ==
  ASSUME IInv, NEW q \in Requests, LookupPrevious(q) PROVE IInv'
<1>1. PICK key \in req[q].target :
        /\ Kind(key) = "response"
        /\ store' = read(store, key, now)
        /\ IF key \in Live(store) THEN Goto(q, "context") ELSE Answer(q, "error")
  BY DEF LookupPrevious
<1>2. At(q, "lookup") /\ ~At(q, "done") /\ now' = now /\ Placed(q)
  BY DEF LookupPrevious, At, IInv
<1>3. CASE Answer(q, "error")
  BY <1>1, <1>2, <1>3, ReadQuiet, AnswerStep
<1>4. CASE Goto(q, "context")
  <2>1. Becomes(q, "context", req[q].context, req[q].output, req[q].status, req[q].answer)
    BY <1>4, GotoBecomes DEF IInv
  <2>2. Placed(q)'
    <3>1. req[q].target = {key}
      BY <1>1, OneTarget DEF IInv
    <3>. QED BY <1>1, <1>2, <2>1, <3>1 DEF Becomes, Placed, At
  <2>3. req[q].pc = "lookup" /\ req[q].kind # "delete"
    BY <1>2 DEF At, Placed
  <2>. QED BY <1>1, <1>2, <2>1, <2>2, <2>3, ReadQuiet, GoesOnStep
<1>. QED BY <1>1, <1>3, <1>4

\* A request that has read its context, from the one object it names.
LEMMA ContextStep ==
  ASSUME IInv, NEW q \in Requests, req[q].pc \in {"lookup", "context"},
         NEW key \in req[q].target, NEW context \in Seq(ItemIds),
         Becomes(q, "input", context, req[q].output, req[q].status, req[q].answer),
         store' = read(store, key, now), now' = now,
         \A i \in itemIDs(context) : Served(i),
         Kind(key) = "response" =>
           context = <<>> \/ (At(key[2], "done") /\ context = Transcript(key[2])),
         Kind(key) = "conversation" /\ key \in Live(store) => context = store.lists[<<key, "items">>]
  PROVE  IInv'
<1>0. /\ Placed(q) /\ Informed(q) /\ Sourced(q) /\ req[q].target = {key} /\ key \in Key
      /\ key[2] \in Requests /\ itemIDs(context) \subseteq ItemIds
  <2>1. req[q].target = {key} /\ key \in Key
    BY OneTarget DEF IInv
  <2>. QED BY <2>1, KeyFacts, ItemIDsType DEF IInv
<1>1. Quiet /\ Good(store', now) /\ Live(store') = Live(store) /\ store'.lists = store.lists
  BY ReadQuiet
<1>2. Advances(q) /\ ~At(q, "done")
  BY DEF Becomes, Advances, At
<1>3. Placed(q)'
  BY <1>0 DEF Becomes, Placed, At
<1>4. Sourced(q)'
  BY <1>0, <1>2, ServedStays DEF Sourced, Becomes
<1>5. Informed(q)'
  <2>1. Known(key)'
    BY <1>0, <1>2, KnownStays DEF Informed
  <2>2. ASSUME Kind(key) = "response"
        PROVE  context = <<>> \/ (At(key[2], "done")' /\ context = Transcript(key[2])')
    <3>1. At(key[2], "done") => req'[key[2]] = req[key[2]]
      BY <1>0, <1>2 DEF Becomes
    <3>. QED BY <2>2, <3>1 DEF At, Transcript, AllItems
  <2>3. ASSUME Kind(key) = "conversation", key \in Live(store')
        PROVE  SeqX!IsPrefix(context, store'.lists[<<key, "items">>])
    <3>1. context = store'.lists[<<key, "items">>]
      BY <1>1, <2>3
    <3>. QED BY <3>1, PrefixOfSelf
  <2>4. req[q].kind # "delete"
    BY <1>0 DEF Placed
  <2>. QED BY <1>0, <2>1, <2>2, <2>3, <2>4 DEF Informed, Becomes, OfKind
<1>. QED BY <1>1, <1>2, <1>3, <1>4, <1>5, QuietStep

\* The slices of a stored object hold items that were served.
LEMMA SliceServed ==
  ASSUME IInv, NEW key \in Live(store), NEW name \in ListNames(Kind(key))
  PROVE  /\ store.lists[<<key, name>>] \in Seq(ItemIds)
         /\ \A i \in itemIDs(store.lists[<<key, name>>]) : Served(i)
BY LiveSlices DEF IInv, Good, Sound, Stored

LEMMA LookupConversationStep ==
  ASSUME IInv, NEW q \in Requests, LookupConversation(q) PROVE IInv'
<1>1. PICK key \in req[q].target :
        /\ Kind(key) = "conversation"
        /\ store' = read(store, key, now)
        /\ IF key \in Live(store)
             THEN req' = [req EXCEPT ![q].pc = "input",
                                     ![q].context = store.lists[<<key, "items">>]]
             ELSE Answer(q, "error")
  BY DEF LookupConversation
<1>2. At(q, "lookup") /\ ~At(q, "done") /\ now' = now
  BY DEF LookupConversation, At
<1>3. CASE key \notin Live(store)
  BY <1>1, <1>2, <1>3, ReadQuiet, AnswerStep
<1>4. CASE key \in Live(store)
  <2>. DEFINE context == store.lists[<<key, "items">>]
  <2>1. context \in Seq(ItemIds) /\ \A i \in itemIDs(context) : Served(i)
    BY <1>1, <1>4, SliceServed DEF ListNames
  <2>2. req' = [req EXCEPT ![q].pc = "input", ![q].context = context]
    BY <1>1, <1>4
  <2>3. context = store.lists[<<key, "items">>]
    OBVIOUS
  <2>. HIDE DEF context
  <2>4. Becomes(q, "input", context, req[q].output, req[q].status, req[q].answer)
    BY <2>1, <2>2, ContextBecomes DEF IInv
  <2>5. Kind(key) # "response" /\ req[q].pc \in {"lookup", "context"}
    BY <1>1, <1>2 DEF At
  <2>. QED BY <1>1, <1>2, <2>1, <2>3, <2>4, <2>5, ContextStep
<1>. QED BY <1>3, <1>4

LEMMA FetchContextStep ==
  ASSUME IInv, NEW q \in Requests, FetchContext(q) PROVE IInv'
<1>1. PICK key \in req[q].target :
        /\ store' = read(store, key, now)
        /\ req' = [req EXCEPT ![q].pc = "input",
                              ![q].context = IF key \in Live(store)
                                               THEN store.lists[<<key, "context">>] ELSE <<>>]
  BY DEF FetchContext
<1>2. /\ At(q, "context") /\ now' = now /\ Kind(key) = "response" /\ key \in Key
      /\ key[2] \in Requests
  <2>1. Placed(q) /\ At(q, "context") /\ now' = now
    BY DEF IInv, FetchContext
  <2>. QED BY <1>1, <2>1, RequestFacts, KeyFacts DEF Placed, IInv
<1>. DEFINE context == IF key \in Live(store) THEN store.lists[<<key, "context">>] ELSE <<>>
<1>3. /\ context \in Seq(ItemIds) /\ \A i \in itemIDs(context) : Served(i)
      /\ context = <<>> \/ (At(key[2], "done") /\ context = Transcript(key[2]))
  <2>1. CASE key \notin Live(store)
    BY <2>1, NoItems
  <2>2. CASE key \in Live(store)
    <3>1. Stored(key) /\ Placed(key[2])
      BY <1>2, <2>2 DEF IInv
    <3>2. At(key[2], "done") /\ context = Transcript(key[2])
      BY <1>2, <2>2, <3>1 DEF Stored, Placed
    <3>3. "context" \in ListNames(Kind(key))
      BY <1>2 DEF ListNames
    <3>. QED BY <2>2, <3>2, <3>3, SliceServed
  <2>. QED BY <2>1, <2>2
<1>4. req' = [req EXCEPT ![q].pc = "input", ![q].context = context]
  BY <1>1
<1>. HIDE DEF context
<1>5. Becomes(q, "input", context, req[q].output, req[q].status, req[q].answer)
  BY <1>3, <1>4, ContextBecomes DEF IInv
<1>6. Kind(key) # "conversation" /\ req[q].pc \in {"lookup", "context"}
  BY <1>2 DEF At
<1>. QED BY <1>1, <1>2, <1>3, <1>5, <1>6, ContextStep

-----------------------------------------------------------------------------
(* The steps that save.                                                    *)

\* The items of the answered request itself, and those it found served, are
\* served from then on.
LEMMA SavedItems ==
  ASSUME IInv, NEW q \in Requests, req[q].pc \in {"save", "create"}, Advances(q),
         req'[q].answer = "ok", req'[q].kind = req[q].kind
  PROVE  /\ \A i \in itemIDs(req[q].context) : Served(i)'
         /\ \A i \in itemIDs(req[q].input) : Served(i)'
         /\ \A i \in itemIDs(req[q].output) : Served(i)'
<1>1. /\ Placed(q) /\ Sourced(q) /\ req[q].kind \in {"respond", "converse"}
      /\ itemIDs(req[q].context) \subseteq ItemIds /\ itemIDs(req[q].input) \subseteq ItemIds
  BY RequestFacts, ItemIDsType DEF IInv, Placed, At
<1>2. \A i : i[2] = q => Served(i)'
  BY <1>1 DEF Served
<1>3. \A i \in itemIDs(req[q].output) : i[2] = q
  BY <1>1 DEF Placed
<1>. QED BY <1>1, <1>2, <1>3, ServedStays DEF Sourced

\* Conversation c keeps its items.
ItemsStay(c) == c \in Live(store) /\ store'.lists[<<c, "items">>] = store.lists[<<c, "items">>]

LEMMA KeptItems ==
  ASSUME NEW c, Kind(c) = "conversation", Kept(store, store', c) PROVE ItemsStay(c)
<1>1. "items" \in ListNames(Kind(c))
  BY DEF ListNames
<1>. QED BY <1>1 DEF Kept, ItemsStay

\* An answered save: what it did not write itself goes on as it was.
LEMMA SaveStep ==
  ASSUME IInv, NEW q \in Requests, req[q].pc \in {"save", "create"},
         Becomes(q, "done", req[q].context, req[q].output, req[q].status, "ok"),
         Good(store', now), now' = now, Grown(q),
         \A key \in Live(store') : Kept(store, store', key) \/ Stored(key)'
  PROVE  IInv'
<1>1. Placed(q) /\ Sourced(q) /\ req[q].kind \in {"respond", "converse"}
  BY DEF IInv, Placed, At
<1>2. Advances(q) /\ GoesOn(q)
  BY <1>1 DEF Becomes, Advances, At, GoesOn
<1>3. Placed(q)'
  BY <1>1 DEF Becomes, Placed, At
<1>4. Sourced(q)' /\ Informed(q)'
  BY <1>2, GoesOnSourced, InformedGoesOn DEF Becomes
<1>5. \A p \in Requests : Placed(p)' /\ Sourced(p)' /\ Informed(p)'
  BY <1>2, <1>3, <1>4, OthersGoOn
<1>6. \A key \in Live(store') : Stored(key)'
  BY <1>2, StoredGoesOn DEF Kept
<1>. QED BY <1>2, <1>5, <1>6 DEF IInv, Typed, Advances

LEMMA CreateConversationStep ==
  ASSUME IInv, NEW q \in Requests, CreateConversation(q)
  PROVE  /\ IInv' /\ Conversation(q) \in Live(store')
         /\ store'.lists[<<Conversation(q), "items">>] = req[q].input
         /\ \A c \in OfKind(Live(store'), "conversation") \ {Conversation(q)} : ItemsStay(c)
<1>1. PICK metadata \in Metadata :
        store' = SaveConversation(store, Conversation(q), metadata, req[q].input, now)
  BY DEF CreateConversation
<1>2. /\ At(q, "create") /\ now' = now /\ Answer(q, "ok") /\ now \in Nat /\ Good(store, now)
      /\ Typed /\ Placed(q)
  BY DEF CreateConversation, IInv
<1>3. /\ Conversation(q) \in ConversationKey /\ metadata \in Values /\ Conversation(q)[2] = q
      /\ Kind(Conversation(q)) = "conversation"
  BY IdsAssumption DEF Conversation, ConversationKey, Kind
<1>. DEFINE key == Conversation(q)
            lists == [items |-> req[q].input]
<1>4. Good(store', now) /\ Written(store, store', key, metadata, lists) /\ lists["items"] = req[q].input
  BY <1>1, <1>2, <1>3, RequestFacts, SaveConversationGood
<1>. HIDE DEF lists
<1>5. Becomes(q, "done", req[q].context, req[q].output, req[q].status, "ok")
  BY <1>2, AnswerBecomes
<1>6. req[q].kind = "converse"
  BY <1>2 DEF Placed, At
<1>7. Advances(q)
  BY <1>2, <1>5, <1>6 DEF Becomes, Advances, At
<1>8. Stored(key)'
  <2>1. store'.lists[<<key, "items">>] = req[q].input /\ ListNames(Kind(key)) = {"items"}
    BY <1>3, <1>4 DEF Written, ListNames
  <2>2. req'[q].answer = "ok" /\ req'[q].kind = "converse" /\ req[q].pc \in {"save", "create"}
    BY <1>2, <1>5, <1>6 DEF Becomes, At
  <2>3. \A i \in itemIDs(req[q].input) : Served(i)'
    BY <1>6, <1>7, <2>2, SavedItems
  <2>. HIDE DEF key
  <2>. QED BY <1>3, <2>1, <2>2, <2>3 DEF Stored, key
<1>9. Grown(q)
  <2>1. ASSUME NEW k \in Live(store'), k # key
        PROVE  /\ k \in Live(store)
               /\ Kind(k) = "conversation" =>
                    \E added \in Seq(ItemIds) :
                      store'.lists[<<k, "items">>] = store.lists[<<k, "items">>] \o added
    BY <1>4, <2>1, KeptGrows DEF Written
  <2>. QED BY <1>3, <2>1 DEF Grown
<1>10. store'.lists[<<key, "items">>] = req[q].input
  <2>1. "items" \in ListNames(Kind(key))
    BY <1>3 DEF ListNames
  <2>. QED BY <1>4, <2>1 DEF Written
<1>11. \A c \in OfKind(Live(store'), "conversation") \ {key} : ItemsStay(c)
  BY <1>4, KeptItems DEF Written, OfKind
<1>12. IInv' /\ key \in Live(store')
  BY <1>2, <1>4, <1>5, <1>8, <1>9, SaveStep DEF Written, At
<1>. QED BY <1>10, <1>11, <1>12

\* The conversation a request names, as it is handed to SaveResponse.
LEMMA NamedFacts ==
  ASSUME Typed, NEW q \in Requests
  PROVE  /\ Named(q) \in {{}} \cup { {c} : c \in ConversationKey }
         /\ \A c \in Named(q) : c \in ConversationKey /\ Kind(c) = "conversation"
<1>1. \A c \in Key : Kind(c) = "conversation" => c \in ConversationKey
  BY DEF Key, ResponseKey, ChatKey, Kind
<1>2. \A c \in Named(q) : c \in ConversationKey /\ Kind(c) = "conversation" /\ c \in req[q].target
  BY <1>1, RequestFacts DEF Named
<1>3. ASSUME NEW c \in Named(q) PROVE Named(q) = {c}
  BY <1>2, OneTarget DEF Named
<1>. QED BY <1>2, <1>3

LEMMA TurnIsSaved ==
  ASSUME NEW s, NEW r, NEW t \in Nat, Good(s, t), NEW key \in ResponseKey, NEW value \in Values,
         NEW context \in Seq(ItemIds), NEW output \in Seq(ItemIds), NEW keep \in BOOLEAN,
         NEW conversation \in {{}} \cup { {c} : c \in ConversationKey },
         NEW current \in Seq(ItemIds),
         r = SaveResponse(s, key, value, context, output, keep, conversation, current, t)
  PROVE  Good(r, t) /\ TurnSaved(s, r, key, value, context, output, keep, conversation, current)
BY SaveResponseGood

\* The turn of q is at the end of conversation c, if it is the one q names.
TurnAtTheEnd(q, c) ==
  IF c \in Named(q)
    THEN /\ c \in Live(store)
         /\ store'.lists[<<c, "items">>] = store.lists[<<c, "items">>] \o Turn(q)
    ELSE ItemsStay(c)

LEMMA SaveTurnStep ==
  ASSUME IInv, NEW q \in Requests, SaveTurn(q)
  PROVE  /\ IInv' /\ (req[q].keep => Response(q) \in Live(store'))
         /\ \A c \in OfKind(Live(store'), "conversation") : TurnAtTheEnd(q, c)
<1>. DEFINE key == Response(q)
<1>1. /\ At(q, "save") /\ now' = now /\ Answer(q, "ok") /\ now \in Nat /\ Good(store, now)
      /\ store' = SaveResponse(store, key, req[q].status, AllItems(q), req[q].output,
                               req[q].keep, Named(q), req[q].input, now)
      /\ Typed /\ Placed(q)
  BY DEF SaveTurn, IInv
<1>2. /\ req[q].kind = "respond" /\ req[q].status \in Values /\ req[q].status # "in_progress"
  <2>1. req[q].kind = "respond" /\ req[q].status # "in_progress"
    BY <1>1 DEF Placed, At
  <2>2. req[q].status \in Statuses
    BY <1>1, RequestFacts DEF Request, Statuses
  <2>. QED BY <2>1, <2>2, IdsAssumption
<1>3. key \in ResponseKey /\ key[2] = q /\ Kind(key) = "response"
  BY IdsAssumption DEF Response, ResponseKey, Kind
<1>4. /\ req[q].input \in Seq(ItemIds) /\ req[q].context \in Seq(ItemIds)
      /\ req[q].output \in Seq(ItemIds) /\ AllItems(q) \in Seq(ItemIds)
      /\ req[q].keep \in BOOLEAN
  BY <1>1, RequestFacts
<1>5. /\ Good(store', now)
      /\ TurnSaved(store, store', key, req[q].status, AllItems(q), req[q].output, req[q].keep,
                   Named(q), req[q].input)
  <2>. DEFINE status == req[q].status
              keep == req[q].keep
              context == AllItems(q)
              output == req[q].output
              named == Named(q)
              current == req[q].input
  <2>1. /\ status \in Values /\ keep \in BOOLEAN /\ key \in ResponseKey
        /\ context \in Seq(ItemIds) /\ output \in Seq(ItemIds) /\ current \in Seq(ItemIds)
        /\ named \in {{}} \cup { {c} : c \in ConversationKey }
        /\ now \in Nat /\ Good(store, now)
        /\ store' = SaveResponse(store, key, status, context, output, keep, named, current, now)
    BY <1>1, <1>2, <1>3, <1>4, NamedFacts
  <2>. HIDE DEF key, status, keep, context, output, named, current
  <2>2. /\ Good(store', now)
        /\ TurnSaved(store, store', key, status, context, output, keep, named, current)
    BY <2>1, TurnIsSaved
  <2>. QED BY <2>2 DEF status, keep, context, output, named, current
<1>6. Becomes(q, "done", req[q].context, req[q].output, req[q].status, "ok")
  BY <1>1, AnswerBecomes
<1>7. Advances(q) /\ req[q].pc \in {"save", "create"}
  BY <1>1, <1>6 DEF Becomes, Advances, At
<1>8. /\ \A i \in itemIDs(req[q].context) : Served(i)'
      /\ \A i \in itemIDs(req[q].input) : Served(i)'
      /\ \A i \in itemIDs(req[q].output) : Served(i)'
  BY <1>6, <1>7, SavedItems DEF Becomes
<1>. HIDE DEF key
<1>9. ASSUME req[q].keep PROVE Stored(key)' /\ key \in Live(store')
  <2>1. /\ key \in Live(store') /\ store'.objects[key] = req[q].status
        /\ store'.lists[<<key, "input">>] = AllItems(q)
        /\ store'.lists[<<key, "context">>] = Transcript(q)
    BY <1>5, <1>9 DEF TurnSaved, Transcript
  <2>2. /\ req'[q].answer = "ok" /\ req'[q].kind = "respond" /\ req'[q].status = req[q].status
        /\ AllItems(q)' = AllItems(q) /\ Transcript(q)' = Transcript(q)
    BY <1>2, <1>6 DEF Becomes, AllItems, Transcript
  <2>3. /\ itemIDs(AllItems(q)) = itemIDs(req[q].context) \cup itemIDs(req[q].input)
        /\ itemIDs(Transcript(q)) = itemIDs(AllItems(q)) \cup itemIDs(req[q].output)
    BY <1>4, ItemIDsOfConcat DEF AllItems, Transcript
  <2>4. ListNames(Kind(key)) = {"input", "context"}
    BY <1>3 DEF ListNames
  <2>. QED BY <1>2, <1>3, <1>8, <2>1, <2>2, <2>3, <2>4 DEF Stored
<1>10. ASSUME NEW c \in Live(store'), c \in Named(q)
       PROVE  /\ Stored(c)' /\ c \in Live(store)
              /\ store'.lists[<<c, "items">>] = store.lists[<<c, "items">>] \o (req[q].input \o req[q].output)
  <2>1. c # key /\ Kind(c) = "conversation" /\ ListNames(Kind(c)) = {"items"}
    BY <1>1, <1>3, <1>10, NamedFacts DEF ListNames
  <2>2. /\ c \in Live(store)
        /\ store'.lists[<<c, "items">>] = store.lists[<<c, "items">>] \o (req[q].input \o req[q].output)
    BY <1>5, <1>10, <2>1 DEF TurnSaved
  <2>3. /\ store.lists[<<c, "items">>] \in Seq(ItemIds)
        /\ \A i \in itemIDs(store.lists[<<c, "items">>]) : Served(i)
    BY <2>1, <2>2, SliceServed
  <2>4. itemIDs(store'.lists[<<c, "items">>]) =
          itemIDs(store.lists[<<c, "items">>]) \cup (itemIDs(req[q].input) \cup itemIDs(req[q].output))
    <3>1. /\ req[q].input \o req[q].output \in Seq(ItemIds)
          /\ itemIDs(req[q].input \o req[q].output) = itemIDs(req[q].input) \cup itemIDs(req[q].output)
      BY <1>4, ItemIDsOfConcat
    <3>2. itemIDs(store'.lists[<<c, "items">>]) =
            itemIDs(store.lists[<<c, "items">>]) \cup itemIDs(req[q].input \o req[q].output)
      BY <2>2, <2>3, <3>1, ItemIDsOfConcat
    <3>. QED BY <3>1, <3>2
  <2>5. \A i \in itemIDs(store'.lists[<<c, "items">>]) : Served(i)'
    BY <1>7, <1>8, <2>3, <2>4, ItemIDsType, ServedStays
  <2>6. c[2] \in Requests /\ c[2] # q /\ Stored(c)
    <3>1. c \in Key /\ Stored(c)
      BY <2>2 DEF IInv, Good, Sound, IsStore
    <3>2. c[2] \in Requests /\ Placed(c[2])
      BY <3>1, KeyFacts DEF IInv
    <3>. QED BY <1>1, <3>1, <3>2 DEF Stored, Placed, At
  <2>7. req'[c[2]] = req[c[2]]
    BY <1>6, <2>6 DEF Becomes
  <2>. QED BY <2>1, <2>2, <2>5, <2>6, <2>7 DEF Stored
<1>11. \A k \in Live(store') : Kept(store, store', k) \/ Stored(k)'
  BY <1>5, <1>9, <1>10 DEF TurnSaved
<1>12. Grown(q)
  <2>1. ASSUME NEW k \in Live(store'), k \in Named(q)
        PROVE  /\ k \in Live(store)
               /\ \E added \in Seq(ItemIds) :
                    store'.lists[<<k, "items">>] = store.lists[<<k, "items">>] \o added
    BY <1>4, <1>10, <2>1, ItemIDsOfConcat
  <2>2. ASSUME NEW k \in Live(store'), k # key, k \notin Named(q)
        PROVE  /\ k \in Live(store)
               /\ Kind(k) = "conversation" =>
                    \E added \in Seq(ItemIds) :
                      store'.lists[<<k, "items">>] = store.lists[<<k, "items">>] \o added
    BY <1>5, <2>2, KeptGrows DEF TurnSaved
  <2>. QED BY <1>3, <2>1, <2>2 DEF Grown
<1>13. IInv'
  BY <1>1, <1>5, <1>6, <1>7, <1>11, <1>12, SaveStep
<1>14. \A c \in OfKind(Live(store'), "conversation") : TurnAtTheEnd(q, c)
  <2>. SUFFICES ASSUME NEW c \in Live(store'), Kind(c) = "conversation" PROVE TurnAtTheEnd(q, c)
    BY DEF OfKind
  <2>1. CASE c \in Named(q)
    BY <1>10, <2>1 DEF TurnAtTheEnd, Turn
  <2>2. CASE c \notin Named(q)
    BY <1>3, <1>5, <2>2, KeptItems DEF TurnSaved, TurnAtTheEnd
  <2>. QED BY <2>1, <2>2
<1>. QED BY <1>9, <1>13, <1>14 DEF key

-----------------------------------------------------------------------------
(* The invariant, and what follows from it.                                *)

LEMMA UnbornFacts ==
  /\ Unborn \in Request
  /\ Unborn.pc = "idle" /\ Unborn.kind = "none" /\ Unborn.target = {} /\ Unborn.context = <<>>
  /\ Unborn.output = <<>> /\ Unborn.answer = "none"
<1>1. Unborn \in Request
  <2>1. <<>> \in Seq(ItemIds) /\ FALSE \in BOOLEAN
    OBVIOUS
  <2>. QED BY <2>1, Zenon DEF Unborn, Request, RequestKinds
<1>. QED BY <1>1 DEF Unborn

\* A request as Unborn, with the fields its client fixes.
SentAs(request, kind, target, input) ==
  \/ \E keep \in BOOLEAN :
       request = [Unborn EXCEPT !.kind = kind, !.target = target, !.input = input, !.keep = keep]
  \/ request = [Unborn EXCEPT !.kind = kind, !.input = input]
  \/ request = [Unborn EXCEPT !.kind = kind, !.target = target]
  \/ request = [Unborn EXCEPT !.kind = kind, !.target = target, !.input = input]

LEMMA ClientRequest ==
  ASSUME NEW kind \in RequestKinds, NEW target \in {{}} \cup { {key} : key \in KnownKeys },
         NEW input \in Seq(ItemIds), NEW request, SentAs(request, kind, target, input)
  PROVE  Fresh(request) /\ request.kind = kind
<1>1. target \in {{}} \cup { {key} : key \in Key } /\ \A key \in target : Known(key)
  BY DEF KnownKeys
<1>2. ASSUME NEW keep \in BOOLEAN,
             request = [Unborn EXCEPT !.kind = kind, !.target = target, !.input = input, !.keep = keep]
      PROVE  Fresh(request) /\ request.kind = kind
  <2>1. request \in Request
    <3>1. CASE keep = TRUE
      BY <1>1, <1>2, <3>1, UnbornFacts DEF Request
    <3>2. CASE keep = FALSE
      BY <1>1, <1>2, <3>2, UnbornFacts DEF Request
    <3>. QED BY <3>1, <3>2, Zenon
  <2>2. request.kind = kind /\ request.target = target /\ request.context = Unborn.context
        /\ request.output = Unborn.output /\ request.answer = Unborn.answer
    BY <1>2, UnbornFacts DEF Request
  <2>. QED BY <1>1, <2>1, <2>2, UnbornFacts DEF Fresh
<1>3. CASE request = [Unborn EXCEPT !.kind = kind, !.input = input]
  <2>1. request \in Request
    BY <1>3, UnbornFacts DEF Request
  <2>2. request.kind = kind /\ request.target = Unborn.target /\ request.context = Unborn.context
        /\ request.output = Unborn.output /\ request.answer = Unborn.answer
    BY <1>3, UnbornFacts DEF Request
  <2>. QED BY <2>1, <2>2, UnbornFacts DEF Fresh
<1>4. CASE request = [Unborn EXCEPT !.kind = kind, !.target = target]
  <2>1. request \in Request
    BY <1>1, <1>4, UnbornFacts DEF Request
  <2>2. request.kind = kind /\ request.target = target /\ request.context = Unborn.context
        /\ request.output = Unborn.output /\ request.answer = Unborn.answer
    BY <1>4, UnbornFacts DEF Request
  <2>. QED BY <1>1, <2>1, <2>2, UnbornFacts DEF Fresh
<1>5. CASE request = [Unborn EXCEPT !.kind = kind, !.target = target, !.input = input]
  <2>1. request \in Request
    BY <1>1, <1>5, UnbornFacts DEF Request
  <2>2. request.kind = kind /\ request.target = target /\ request.context = Unborn.context
        /\ request.output = Unborn.output /\ request.answer = Unborn.answer
    BY <1>5, UnbornFacts DEF Request
  <2>. QED BY <1>1, <2>1, <2>2, UnbornFacts DEF Fresh
<1>. QED BY <1>2, <1>3, <1>4, <1>5 DEF SentAs

LEMMA InputsType ==
  ASSUME NEW q \in Requests, NEW shape PROVE Inputs(q, shape) \subseteq Seq(ItemIds)
<1>1. \A i \in ItemIds : <<i>> \in Seq(ItemIds)
  OBVIOUS
<1>2. << <<"in", q>> >> \in Seq(ItemIds) /\ <<>> \in Seq(ItemIds)
  <2>1. <<"in", q>> \in ItemIds
    BY ItemFacts
  <2>2. <<>> \in Seq(ItemIds)
    OBVIOUS
  <2>. QED BY <1>1, <2>1, <2>2, Zenon
<1>3. \A i \in KnownItems : <<i>> \in Seq(ItemIds)
  BY <1>1 DEF KnownItems
<1>4. \A own \in Seq(ItemIds), ref \in Seq(ItemIds) : own \o ref \in Seq(ItemIds)
  OBVIOUS
<1>5. ASSUME NEW input \in Inputs(q, shape) PROVE input \in Seq(ItemIds)
  <2>1. PICK own \in {<< <<"in", q>> >>, <<>>}, ref \in { <<i>> : i \in KnownItems } \cup {<<>>} :
          input = own \o ref
    BY DEF Inputs
  <2>2. own \in Seq(ItemIds) /\ ref \in Seq(ItemIds)
    BY <1>2, <1>3, <2>1, Zenon
  <2>. QED BY <1>4, <2>1, <2>2
<1>. QED BY <1>5

\* Request q, and it alone, has been sent.
Arrived(q) == req'[q].answer = "none" /\ \A p \in Requests \ {q} : req'[p] = req[p]

LEMMA ArriveAnyStep ==
  ASSUME IInv, NEW q \in Requests, ArriveAny(q)
  PROVE  IInv' /\ Arrived(q)
<1>0. ASSUME NEW kind \in RequestKinds, NEW target \in {{}} \cup { {key} : key \in KnownKeys },
             NEW input \in Seq(ItemIds), NEW first \in {"lookup", "input", "act"},
             NEW request,
             SentAs(request, kind, target, input),
             Arrive(q, request, first),
             first = "lookup" => kind \in {"respond", "count"},
             first = "input" => kind = "converse",
             first = "act" => kind \in {"get", "delete", "cancel", "update"}
      PROVE  IInv' /\ Arrived(q)
  <2>1. Fresh(request) /\ request.kind = kind
    BY <1>0, ClientRequest, Zenon
  <2>2. IInv'
    BY <1>0, <2>1, ArriveStep
  <2>3. Arrived(q)
    <3>1. /\ req' = [req EXCEPT ![q] = [request EXCEPT !.pc = first]]
          /\ [request EXCEPT !.pc = first].answer = "none"
      BY <1>0, <2>1 DEF Arrive, Fresh, Request
    <3>. QED BY <3>1 DEF IInv, Typed, Arrived
  <2>. QED BY <2>2, <2>3
<1>1. ASSUME ArrivePostResponse(q) PROVE IInv' /\ Arrived(q)
  <2>1. PICK kind \in {"respond", "count"}, shape \in InputShapes,
             target \in {{}} \cup { {key} : key \in KnownKeys }, keep \in BOOLEAN :
          \E input \in Inputs(q, shape) :
            Arrive(q, [Unborn EXCEPT !.kind = kind, !.target = target, !.input = input,
                                     !.keep = keep], "lookup")
    BY <1>1, Zenon DEF ArrivePostResponse
  <2>2. PICK input \in Seq(ItemIds) :
          Arrive(q, [Unborn EXCEPT !.kind = kind, !.target = target, !.input = input,
                                   !.keep = keep], "lookup")
    BY <2>1, InputsType, Zenon
  <2>3. kind \in RequestKinds
    BY DEF RequestKinds
  <2>. QED BY <1>0, <2>2, <2>3, Zenon DEF SentAs
<1>2. ASSUME ArrivePostConversation(q) PROVE IInv' /\ Arrived(q)
  <2>1. PICK input \in Seq(ItemIds) :
          Arrive(q, [Unborn EXCEPT !.kind = "converse", !.input = input], "input")
    BY <1>2, InputsType, Zenon DEF ArrivePostConversation
  <2>2. "converse" \in RequestKinds /\ {} \in {{}} \cup { {key} : key \in KnownKeys }
    BY DEF RequestKinds
  <2>. QED BY <1>0, <2>1, <2>2, Zenon DEF SentAs
<1>3. ASSUME ArriveUpdate(q) PROVE IInv' /\ Arrived(q)
  <2>1. PICK key \in OfKind(KnownKeys, "conversation"), input \in Seq(ItemIds) :
          Arrive(q, [Unborn EXCEPT !.kind = "update", !.target = {key}, !.input = input], "act")
    BY <1>3, InputsType, Zenon DEF ArriveUpdate
  <2>2. key \in KnownKeys
    BY DEF OfKind
  <2>3. "update" \in RequestKinds /\ {key} \in {{}} \cup { {k} : k \in KnownKeys }
    BY <2>2 DEF RequestKinds
  <2>. QED BY <1>0, <2>1, <2>3, Zenon DEF SentAs
<1>4. ASSUME NEW kind \in {"get", "delete", "cancel"}, NEW key \in KnownKeys,
             ArriveOnObject(q, kind, key)
      PROVE  IInv' /\ Arrived(q)
  <2>1. Arrive(q, [Unborn EXCEPT !.kind = kind, !.target = {key}], "act")
    BY <1>4 DEF ArriveOnObject
  <2>2. /\ <<>> \in Seq(ItemIds) /\ {key} \in {{}} \cup { {k} : k \in KnownKeys }
        /\ kind \in RequestKinds
    BY DEF RequestKinds
  <2>. QED BY <1>0, <2>1, <2>2, Zenon DEF SentAs
<1>5. OfKind(KnownKeys, "response") \subseteq KnownKeys
  BY DEF OfKind
<1>. QED BY <1>1, <1>2, <1>3, <1>4, <1>5, Zenon DEF ArriveAny

LEMMA InitIInv == Init => IInv
<1>. SUFFICES ASSUME Init PROVE IInv
  OBVIOUS
<1>2. \A q \in Requests : req[q] = Unborn
  BY DEF Init
<1>3. Typed
  BY UnbornFacts DEF Init, Typed
<1>5. ASSUME NEW q \in Requests PROVE Placed(q) /\ Sourced(q) /\ Informed(q)
  BY <1>2, UnbornFacts, NoItems DEF Placed, Sourced, Informed, OfKind, At
<1>6. Live(store) = {}
  BY DEF Init, EmptyStore, Live
<1>. QED BY <1>3, <1>5, <1>6, EmptyStoreGood, IdsAssumption DEF Init, IInv

LEMMA TickStep ==
  ASSUME IInv, now' \in 0..MaxTime, now <= now', UNCHANGED <<store, req>>
  PROVE  IInv'
<1>1. Good(store', now')
  BY LaterGood, IdsAssumption DEF IInv
<1>2. Typed'
  BY DEF IInv, Typed
<1>3. ASSUME NEW q \in Requests PROVE Placed(q)' /\ Sourced(q)' /\ Informed(q)'
  <2>1. Placed(q)'
    BY DEF IInv, Placed, At
  <2>2. Sourced(q)'
    BY DEF IInv, Sourced, Served
  <2>3. Informed(q)'
    BY DEF IInv, Informed, Known, At, Transcript, AllItems
  <2>. QED BY <2>1, <2>2, <2>3
<1>4. ASSUME NEW key \in Live(store') PROVE Stored(key)'
  <2>1. Stored(key)
    BY DEF IInv
  <2>. QED BY <2>1 DEF Stored, Served, Transcript, AllItems
<1>. QED BY <1>1, <1>2, <1>3, <1>4 DEF IInv

LEMMA NextIInv == IInv /\ [Next]_vars => IInv'
<1>. SUFFICES ASSUME IInv, [Next]_vars PROVE IInv'
  OBVIOUS
<1>1. CASE Tick
  BY <1>1, TickStep, IdsAssumption DEF Tick, IInv
<1>2. CASE UNCHANGED vars
  BY <1>2, TickStep, IdsAssumption DEF vars, IInv
<1>3. ASSUME NEW q \in Requests, ArriveAny(q) PROVE IInv'
  BY <1>3, ArriveAnyStep
<1>4. ASSUME NEW q \in Requests, Serve(q) PROVE IInv'
  BY <1>4, LookupNothingStep, LookupConversationStep, LookupPreviousStep, FetchContextStep,
     NormalizeInputStep, UpstreamAnswersStep, UpstreamFailsStep, SaveTurnStep,
     CreateConversationStep, GetStep, DeleteObjectStep, CancelStep, UpdateConversationStep,
     Zenon DEF Serve, Upstream
<1>. QED BY <1>1, <1>2, <1>3, <1>4, Zenon DEF Next

\* In every behaviour of the server, the invariant holds: each request holds
\* what its place in the handler says, and each stored object is the answer of
\* the request that made it (handleResponses, SaveResponse, SaveConversation).
THEOREM ResponsesInvariant == Spec => []IInv
BY InitIInv, NextIInv, PTL DEF Spec

\* Whatever the requests and their order, an item of a stored object can be
\* referenced by the next request (registerItemsLocked, unregisterItemsLocked).
THEOREM ItemsStayReferable == Spec => []StoredItemsCanBeReferenced
<1>1. IInv => StoredItemsCanBeReferenced
  BY IndexOfSound DEF IInv, Good, StoredItemsCanBeReferenced, Held
<1>. QED BY <1>1, ResponsesInvariant, PTL

\* A deletion that was answered is final, whatever the requests that had read
\* the object save after it (SaveResponse appends only to a conversation that
\* is there, and no id is made twice).
THEOREM DeletionIsFinal == Spec => []DeletedIsGone
<1>1. IInv => DeletedIsGone
  BY DEF IInv, Informed, DeletedIsGone
<1>. QED BY <1>1, ResponsesInvariant, PTL

\* A stored response is for ever what its request was answered, however many
\* turns, updates and cancellations run beside it.
THEOREM StoredResponseIsTheAnswer == Spec => []StoredAsAnswered
<1>1. IInv => StoredAsAnswered
  BY DEF IInv, Stored, StoredAsAnswered, OfKind
<1>. QED BY <1>1, ResponsesInvariant, PTL

\* The context of a previous response is carried whole or not at all, although
\* it is looked up and fetched in two critical sections.
THEOREM ContextNeverTorn == Spec => []PreviousContextWholeOrNone
<1>1. IInv => PreviousContextWholeOrNone
  BY DEF IInv, Informed, PreviousContextWholeOrNone
<1>. QED BY <1>1, ResponsesInvariant, PTL

\* What a request sent upstream stays a beginning of its conversation while
\* others append their turns to it.
THEOREM ContextStaysAPrefix == Spec => []ContextIsPrefix
<1>1. IInv => ContextIsPrefix
  BY DEF IInv, Informed, ContextIsPrefix
<1>. QED BY <1>1, ResponsesInvariant, PTL

\* A request that failed, has not saved yet, or saves nothing leaves neither an
\* object nor an indexed item behind.
THEOREM NoTraceBeforeTheSave == Spec => []NothingBeforeTheSave
<1>1. ASSUME IInv PROVE NothingBeforeTheSave
  <2>. SUFFICES ASSUME NEW q \in Requests, req[q].answer # "ok" \/ req[q].kind \in {"count", "update"}
                PROVE  /\ Response(q) \notin Live(store) /\ Conversation(q) \notin Live(store)
                       /\ <<"in", q>> \notin store.ItemsByID /\ <<"out", q>> \notin store.ItemsByID
    BY DEF NothingBeforeTheSave
  <2>1. Response(q) \notin Live(store) /\ Conversation(q) \notin Live(store)
    BY <1>1 DEF IInv, Stored, Response, Conversation, Kind
  <2>2. <<"in", q>> \notin store.ItemsByID /\ <<"out", q>> \notin store.ItemsByID
    BY <1>1, IndexServed DEF Served
  <2>. QED BY <2>1, <2>2
<1>. QED BY <1>1, ResponsesInvariant, PTL

-----------------------------------------------------------------------------
(* Answered means stored.                                                  *)

\* A step that brings request p further, or answers it.
Further(p) ==
  /\ ~At(p, "done") /\ \A r \in Requests \ {p} : req'[r] = req[r]
  /\ req'[p].answer = "ok" => req[p].kind \notin {"converse", "respond"} /\ req'[p].kind = req[p].kind

LEMMA Onward ==
  ASSUME IInv, NEW p \in Requests, ~At(p, "done"), NEW pc, NEW context, NEW output, NEW status,
         \/ Goto(p, pc)
         \/ req' = [req EXCEPT ![p].pc = pc, ![p].context = context]
         \/ req' = [req EXCEPT ![p].pc = pc, ![p].output = output, ![p].status = status]
  PROVE  Further(p)
<1>1. req \in [Requests -> Request] /\ req[p] \in Request /\ req[p].answer # "ok"
  BY DEF IInv, Typed, Placed
<1>2. ASSUME NEW r, req' = [req EXCEPT ![p] = r], r.answer = req[p].answer
      PROVE  Further(p)
  BY <1>1, <1>2 DEF Further
<1>3. CASE Goto(p, pc)
  <2>1. [req[p] EXCEPT !.pc = pc].answer = req[p].answer
    BY <1>1 DEF Request
  <2>. QED BY <1>2, <1>3, <2>1 DEF Goto
<1>4. CASE req' = [req EXCEPT ![p].pc = pc, ![p].context = context]
  <2>1. [req[p] EXCEPT !.pc = pc, !.context = context].answer = req[p].answer
    BY <1>1 DEF Request
  <2>. QED BY <1>1, <1>2, <1>4, <2>1
<1>5. CASE req' = [req EXCEPT ![p].pc = pc, ![p].output = output, ![p].status = status]
  <2>1. [req[p] EXCEPT !.pc = pc, !.output = output, !.status = status].answer = req[p].answer
    BY <1>1 DEF Request
  <2>. QED BY <1>1, <1>2, <1>5, <2>1
<1>. QED BY <1>3, <1>4, <1>5

LEMMA Answering ==
  ASSUME IInv, NEW p \in Requests, ~At(p, "done"), NEW answer \in {"ok", "error"}, Answer(p, answer),
         answer = "error" \/ req[p].kind \notin {"converse", "respond"}
  PROVE  Further(p)
BY AnswerBecomes DEF IInv, Becomes, Further

\* Only the two saves answer a request that creates something.
LEMMA OnlySavesAnswer ==
  ASSUME IInv, NEW p \in Requests, Serve(p)
  PROVE  Further(p) \/ SaveTurn(p) \/ CreateConversation(p)
<1>1. CASE LookupNothing(p) \/ NormalizeInput(p)
  <2>1. /\ (\E pc \in {"input", "create", "upstream"} : Goto(p, pc)) \/ Answer(p, "error")
        /\ ~At(p, "done")
    BY <1>1 DEF LookupNothing, NormalizeInput, At
  <2>2. CASE Answer(p, "error")
    BY <2>1, <2>2, Answering
  <2>3. ASSUME NEW pc, Goto(p, pc) PROVE Further(p)
    BY <2>1, <2>3, Onward
  <2>. QED BY <2>1, <2>2, <2>3
<1>2. CASE LookupConversation(p) \/ LookupPrevious(p) \/ FetchContext(p)
  <2>1. /\ \/ \E pc \in {"context", "input"} : Goto(p, pc)
           \/ Answer(p, "error")
           \/ \E context : req' = [req EXCEPT ![p].pc = "input", ![p].context = context]
        /\ ~At(p, "done")
    BY <1>2 DEF LookupConversation, LookupPrevious, FetchContext, At
  <2>2. CASE Answer(p, "error")
    BY <2>1, <2>2, Answering
  <2>3. ASSUME NEW pc, Goto(p, pc) PROVE Further(p)
    BY <2>1, <2>3, Onward
  <2>4. ASSUME NEW context, req' = [req EXCEPT ![p].pc = "input", ![p].context = context]
        PROVE  Further(p)
    BY <2>1, <2>4, Onward
  <2>. QED BY <2>1, <2>2, <2>3, <2>4
<1>3. CASE UpstreamAnswers(p) \/ UpstreamFails(p)
  <2>1. /\ \/ \E output, status :
               req' = [req EXCEPT ![p].pc = "save", ![p].output = output, ![p].status = status]
           \/ Answer(p, "error")
           \/ Answer(p, "ok") /\ req[p].kind # "respond"
        /\ At(p, "upstream") /\ ~At(p, "done")
    BY <1>3 DEF UpstreamAnswers, UpstreamFails, At
  <2>2. CASE Answer(p, "ok") /\ req[p].kind # "respond"
    <3>1. req[p].kind = "count"
      BY <2>1, <2>2 DEF IInv, Placed, At
    <3>. QED BY <2>1, <2>2, <3>1, Answering
  <2>3. CASE Answer(p, "error")
    BY <2>1, <2>3, Answering
  <2>4. ASSUME NEW output, NEW status,
               req' = [req EXCEPT ![p].pc = "save", ![p].output = output, ![p].status = status]
        PROVE  Further(p)
    BY <2>1, <2>4, Onward
  <2>. QED BY <2>1, <2>2, <2>3, <2>4
<1>4. CASE Get(p) \/ DeleteObject(p) \/ Cancel(p) \/ UpdateConversation(p)
  <2>1. /\ req[p].kind \notin {"converse", "respond"} /\ ~At(p, "done")
        /\ \E answer \in {"ok", "error"} : Answer(p, answer)
    BY <1>4 DEF Get, DeleteObject, Cancel, UpdateConversation, Act, Found, At
  <2>. QED BY <2>1, Answering
<1>. QED BY <1>1, <1>2, <1>3, <1>4, Zenon DEF Serve, Upstream

\* Who gets an answer can retrieve what it says: neither the save's own prune
\* nor its eviction takes the new object (SaveResponse, SaveConversation,
\* evictResponsesLocked).
THEOREM AnswerIsRetrievable == Spec => AnsweredIsStored
<1>1. ASSUME IInv, [Next]_vars, NEW q \in Requests, Creates(q), ~At(q, "done"), req'[q].answer = "ok"
      PROVE  (IF req[q].kind = "converse" THEN Conversation(q) ELSE Response(q)) \in Live(store')
  <2>1. req[q].answer = "none"
    BY <1>1 DEF IInv, Placed
  <2>2. PICK p \in Requests : ArriveAny(p) \/ Serve(p)
    BY <1>1, <2>1 DEF Next, Tick, vars
  <2>3. CASE ArriveAny(p)
    <3>1. req'[p].answer = "none" /\ \A r \in Requests \ {p} : req'[r] = req[r]
      BY <1>1, <2>3, ArriveAnyStep DEF Arrived
    <3>. QED BY <1>1, <2>1, <3>1
  <2>4. CASE Serve(p)
    <3>1. SaveTurn(q) \/ CreateConversation(q)
      <4>1. CASE Further(p)
        BY <1>1, <2>1, <4>1 DEF Further, Creates
      <4>2. CASE SaveTurn(p) \/ CreateConversation(p)
        <5>1. \A r \in Requests \ {p} : req'[r] = req[r]
          BY <1>1, <4>2, AnswerBecomes DEF SaveTurn, CreateConversation, IInv, Becomes
        <5>. QED BY <1>1, <2>1, <4>2, <5>1
      <4>. QED BY <1>1, <2>4, <4>1, <4>2, OnlySavesAnswer
    <3>2. CASE SaveTurn(q)
      <4>1. req[q].kind = "respond" /\ req[q].keep
        BY <1>1, <3>2 DEF SaveTurn, IInv, Placed, At, Creates
      <4>. QED BY <1>1, <3>2, <4>1, SaveTurnStep
    <3>3. CASE CreateConversation(q)
      <4>1. req[q].kind = "converse"
        BY <1>1, <3>3 DEF CreateConversation, IInv, Placed, At
      <4>. QED BY <1>1, <3>3, <4>1, CreateConversationStep
    <3>. QED BY <3>1, <3>2, <3>3
  <2>. QED BY <2>2, <2>3, <2>4
<1>2. IInv /\ [Next]_vars =>
        \A q \in Requests : Creates(q) /\ ~At(q, "done") /\ req'[q].answer = "ok" =>
          (IF req[q].kind = "converse" THEN Conversation(q) ELSE Response(q)) \in Live(store')
  BY <1>1
<1>. QED BY <1>2, ResponsesInvariant, PTL DEF Spec, AnsweredIsStored

-----------------------------------------------------------------------------
(* Turns put end to end.                                                   *)

\* A set of natural numbers that is not empty has a least element.
LEMMA SmallestOf ==
  ASSUME NEW S, S \subseteq Nat, S # {}
  PROVE  \E n \in S : \A m \in S : n <= m
<1>1. \E R : IsWellFoundedOn(R, Nat) /\ \A m \in Nat, n \in Nat : m < n => <<m, n>> \in R
  <2>1. IsWellFoundedOn(OpToRel(<, Nat), Nat)
    BY NatLessThanWellFounded
  <2>2. \A m \in Nat, n \in Nat : m < n => <<m, n>> \in OpToRel(<, Nat)
    BY DEF OpToRel
  <2>. QED BY <2>1, <2>2, Zenon
<1>2. PICK R : IsWellFoundedOn(R, Nat) /\ \A m \in Nat, n \in Nat : m < n => <<m, n>> \in R
  BY <1>1
<1>3. IsWellFoundedOn(R, Nat)
  BY <1>2
<1>4. \E n \in S : \A m \in S : ~ (<<m, n>> \in R)
  BY <1>3, WFMin, Zenon
<1>5. PICK n \in S : \A m \in S : ~ (<<m, n>> \in R)
  BY <1>4
<1>6. \A m \in S : m \in Nat /\ n \in Nat /\ ~(m < n)
  BY <1>2, <1>5
<1>. QED BY <1>6

\* f is the function by which FlattenSeq reads the first n elements of s.
Flattens(f, s, n) == f = [i \in 1..n |-> IF i = 1 THEN s[i] ELSE f[i - 1] \o s[i]]

LEMMA FlattensAt ==
  ASSUME NEW f, NEW s, NEW n \in Nat, Flattens(f, s, n), NEW i \in 1..n
  PROVE  f[i] = IF i = 1 THEN s[i] ELSE f[i - 1] \o s[i]
BY DEF Flattens

SameUpTo(s, r, n) == \A i \in 1..n : s[i] = r[i]

LEMMA FlattensAgree ==
  ASSUME NEW s, NEW r, NEW n \in Nat, NEW m \in Nat, n <= m, SameUpTo(s, r, n),
         NEW f, NEW g, Flattens(f, s, n), Flattens(g, r, m)
  PROVE  SameUpTo(f, g, n)
<1>. DEFINE Bad == { i \in 1..n : f[i] # g[i] }
<1>. SUFFICES ASSUME Bad # {} PROVE FALSE
  BY DEF SameUpTo
<1>1. Bad \subseteq Nat
  OBVIOUS
<1>2. PICK i \in Bad : \A j \in Bad : i <= j
  BY <1>1, SmallestOf
<1>3. i \in 1..n /\ i \in 1..m /\ f[i] # g[i]
  BY <1>2
<1>4. /\ f[i] = IF i = 1 THEN s[i] ELSE f[i - 1] \o s[i]
      /\ g[i] = IF i = 1 THEN r[i] ELSE g[i - 1] \o r[i]
  BY <1>3, FlattensAt
<1>. s[i] = r[i]
  BY <1>3 DEF SameUpTo
<1>5. CASE i = 1
  BY <1>3, <1>4, <1>5
<1>6. CASE i # 1
  <2>1. i - 1 \in 1..n /\ i - 1 \notin Bad
    BY <1>2, <1>3, <1>6
  <2>2. f[i - 1] = g[i - 1]
    BY <2>1
  <2>. QED BY <1>3, <1>4, <1>6, <2>2
<1>. QED BY <1>5, <1>6

LEMMA FlattensExtend ==
  ASSUME NEW s, NEW n \in Nat, NEW f, Flattens(f, s, n)
  PROVE  \E g : Flattens(g, s, n + 1)
<1>. DEFINE e(i) == IF i = 1 THEN s[i] ELSE f[i - 1] \o s[i]
            g == [i \in 1..(n + 1) |-> e(i)]
<1>1. \A i \in 1..n : g[i] = f[i]
  BY FlattensAt
<1>2. \A i \in 1..(n + 1) : i # 1 => g[i - 1] = f[i - 1]
  <2>1. \A i \in 1..(n + 1) : i # 1 => i - 1 \in 1..n
    OBVIOUS
  <2>. HIDE DEF g
  <2>. QED BY <1>1, <2>1
<1>3. \A i \in 1..(n + 1) : e(i) = IF i = 1 THEN s[i] ELSE g[i - 1] \o s[i]
  BY <1>2
<1>4. g = [i \in 1..(n + 1) |-> IF i = 1 THEN s[i] ELSE g[i - 1] \o s[i]]
  BY <1>3
<1>. QED BY <1>4 DEF Flattens

LEMMA FlattensExists ==
  ASSUME NEW s, NEW n \in Nat PROVE \E f : Flattens(f, s, n)
<1>. DEFINE Bad == { k \in Nat : ~ \E f : Flattens(f, s, k) }
<1>. SUFFICES ASSUME Bad # {} PROVE FALSE
  OBVIOUS
<1>1. PICK k \in Bad : \A j \in Bad : k <= j
  BY SmallestOf
<1>2. CASE k = 0
  <2>1. <<>> = [i \in 1..0 |-> IF i = 1 THEN s[i] ELSE <<>>[i - 1] \o s[i]]
    OBVIOUS
  <2>. QED BY <1>1, <1>2, <2>1 DEF Flattens
<1>3. CASE k # 0
  <2>1. k - 1 \in Nat /\ k - 1 \notin Bad /\ (k - 1) + 1 = k
    BY <1>1, <1>3
  <2>2. PICK f : Flattens(f, s, k - 1)
    BY <2>1
  <2>3. \E g : Flattens(g, s, k)
    BY <2>1, <2>2, FlattensExtend
  <2>. QED BY <1>1, <2>3
<1>. QED BY <1>2, <1>3

\* FlattenSeq is the last value of such a function.
LEMMA FlattenSeqLast ==
  ASSUME NEW s, Len(s) \in Nat, Len(s) # 0
  PROVE  \E f : Flattens(f, s, Len(s)) /\ SeqX!FlattenSeq(s) = f[Len(s)]
<1>. DEFINE F == CHOOSE f : f = [i \in 1..Len(s) |-> IF i = 1 THEN s[i] ELSE f[i - 1] \o s[i]]
<1>1. \E f : f = [i \in 1..Len(s) |-> IF i = 1 THEN s[i] ELSE f[i - 1] \o s[i]]
  BY FlattensExists DEF Flattens
<1>2. F = [i \in 1..Len(s) |-> IF i = 1 THEN s[i] ELSE F[i - 1] \o s[i]]
  BY <1>1
<1>3. SeqX!FlattenSeq(s) = F[Len(s)]
  BY DEF SeqX!FlattenSeq
<1>. QED BY <1>2, <1>3 DEF Flattens

LEMMA FlattenAppend ==
  ASSUME NEW T, NEW s \in Seq(Seq(T)), NEW x \in Seq(T)
  PROVE  SeqX!FlattenSeq(Append(s, x)) = SeqX!FlattenSeq(s) \o x
<1>. DEFINE r == Append(s, x)
            n == Len(s)
            m == n + 1
<1>1. n \in Nat /\ m \in Nat /\ Len(r) = n + 1 /\ r[n + 1] = x /\ \A i \in 1..n : s[i] = r[i]
  OBVIOUS
<1>. HIDE DEF r
<1>2. PICK g : Flattens(g, r, n + 1) /\ SeqX!FlattenSeq(r) = g[n + 1]
  BY <1>1, FlattenSeqLast
<1>3. g[n + 1] = IF n + 1 = 1 THEN r[n + 1] ELSE g[(n + 1) - 1] \o r[n + 1]
  BY <1>1, <1>2, FlattensAt
<1>4. CASE n = 0
  <2>1. s = <<>> /\ SeqX!FlattenSeq(s) = s
    BY <1>4 DEF SeqX!FlattenSeq
  <2>2. SeqX!FlattenSeq(r) = x
    BY <1>1, <1>2, <1>3, <1>4
  <2>. QED BY <2>1, <2>2 DEF r
<1>5. CASE n # 0
  <2>1. PICK f : Flattens(f, s, n) /\ SeqX!FlattenSeq(s) = f[n]
    BY <1>1, <1>5, FlattenSeqLast
  <2>2. f[n] = g[n]
    <3>1. n <= m /\ n \in 1..n /\ Flattens(f, s, n) /\ Flattens(g, r, m)
      BY <1>1, <1>2, <1>5, <2>1
    <3>. HIDE DEF n, m
    <3>2. n \in Nat /\ m \in Nat /\ SameUpTo(s, r, n)
      BY <1>1 DEF SameUpTo
    <3>3. SameUpTo(f, g, n)
      BY <3>1, <3>2, FlattensAgree
    <3>. QED BY <3>1, <3>3 DEF SameUpTo
  <2>3. (n + 1) - 1 = n /\ n + 1 # 1
    BY <1>1, <1>5
  <2>4. SeqX!FlattenSeq(r) = g[n] \o x
    BY <1>1, <1>2, <1>3, <2>3
  <2>. QED BY <2>1, <2>2, <2>4 DEF r
<1>. QED BY <1>4, <1>5

-----------------------------------------------------------------------------
(* A conversation is its opening and whole turns.                          *)

\* The turns of the requests of order, end to end.
Turns(order) == SeqX!FlattenSeq([n \in DOMAIN order |-> Turn(order[n])])

\* What ConversationIsWholeTurns says of conversation c; and that only so many
\* requests can have been answered on it.
Whole(c) ==
  /\ IsFiniteSet(AnsweredOn(c))
  /\ \E order \in SeqX!SetToSeqs(AnsweredOn(c)) :
       store.lists[<<c, "items">>] = req[c[2]].input \o Turns(order)

LEMMA OrderMembers ==
  ASSUME NEW S, NEW order
  PROVE  order \in SeqX!SetToSeqs(S) <=>
           /\ order \in [1..Cardinality(S) -> S]
           /\ \A i, j \in 1..Cardinality(S) : i # j => order[i] # order[j]
<1>1. SeqX!Cardinality(S) = Cardinality(S)
  BY DEF SeqX!Cardinality, Cardinality
<1>. QED BY <1>1 DEF SeqX!SetToSeqs

LEMMA FunctionIsSeq ==
  ASSUME NEW S, NEW n \in Nat, NEW f \in [1..n -> S]
  PROVE  f \in Seq(S) /\ Len(f) = n
OBVIOUS

\* An order of S, with q at its end, is an order of S and q.
LEMMA OrderExtended ==
  ASSUME NEW S, IsFiniteSet(S), NEW q, q \notin S, NEW order \in SeqX!SetToSeqs(S)
  PROVE  /\ order \in Seq(S) /\ IsFiniteSet(S \cup {q})
         /\ Append(order, q) \in SeqX!SetToSeqs(S \cup {q})
<1>. DEFINE n == Cardinality(S)
            more == Append(order, q)
<1>1. n \in Nat /\ IsFiniteSet(S \cup {q}) /\ Cardinality(S \cup {q}) = n + 1
  BY FS_CardinalityType, FS_AddElement
<1>2. order \in [1..n -> S] /\ \A i, j \in 1..n : i # j => order[i] # order[j]
  BY OrderMembers
<1>. HIDE DEF n
<1>3. order \in Seq(S) /\ Len(order) = n
  BY <1>1, <1>2, FunctionIsSeq
<1>4. /\ more \in [1..(n + 1) -> S \cup {q}]
      /\ more[n + 1] = q /\ \A i \in 1..n : more[i] = order[i]
  <2>1. /\ more \in [1..(Len(order) + 1) -> S \cup {q}]
        /\ more[Len(order) + 1] = q /\ \A i \in 1..Len(order) : more[i] = order[i]
    <3>1. order \in Seq(S \cup {q}) /\ Len(more) = Len(order) + 1
      BY <1>3
    <3>2. more \in Seq(S \cup {q})
      BY <3>1
    <3>3. more \in [1..(Len(order) + 1) -> S \cup {q}]
      BY <3>1, <3>2, LenProperties
    <3>4. more[Len(order) + 1] = q /\ \A i \in 1..Len(order) : more[i] = order[i]
      BY <1>3
    <3>. QED BY <3>3, <3>4
  <2>. HIDE DEF more
  <2>. QED BY <1>3, <2>1
<1>5. \A i \in 1..(n + 1) : i \in 1..n \/ i = n + 1
  BY <1>1
<1>. HIDE DEF more
<1>6. ASSUME NEW i \in 1..(n + 1), NEW j \in 1..(n + 1), i # j PROVE more[i] # more[j]
  <2>1. \A k \in 1..n : more[k] \in S /\ more[k] # q
    BY <1>2, <1>4
  <2>2. CASE i \in 1..n /\ j \in 1..n
    BY <1>2, <1>4, <1>6, <2>2
  <2>3. CASE i = n + 1 \/ j = n + 1
    BY <1>4, <1>5, <1>6, <2>1, <2>3
  <2>. QED BY <1>5, <2>2, <2>3
<1>7. more \in SeqX!SetToSeqs(S \cup {q})
  BY <1>1, <1>4, <1>6, OrderMembers
<1>. QED BY <1>1, <1>3, <1>7 DEF more

LEMMA TurnsAppended ==
  ASSUME NEW S, NEW order \in Seq(S), NEW q,
         \A p \in S \cup {q} : Turn(p) \in Seq(ItemIds)
  PROVE  Turns(Append(order, q)) = Turns(order) \o Turn(q)
<1>. DEFINE more == Append(order, q)
            s == [n \in DOMAIN order |-> Turn(order[n])]
            r == [n \in DOMAIN more |-> Turn(more[n])]
<1>1. /\ DOMAIN order = 1..Len(order) /\ Len(order) \in Nat
      /\ \A n \in 1..Len(order) : order[n] \in S /\ more[n] = order[n]
      /\ DOMAIN more = 1..(Len(order) + 1) /\ more[Len(order) + 1] = q
  OBVIOUS
<1>. HIDE DEF more
<1>2. /\ s \in [1..Len(order) -> Seq(ItemIds)]
      /\ r \in [1..(Len(order) + 1) -> Seq(ItemIds)]
      /\ r[Len(order) + 1] = Turn(q)
  <2>1. \A n \in 1..(Len(order) + 1) : more[n] \in S \cup {q}
    <3>1. \A n \in 1..(Len(order) + 1) : n \in 1..Len(order) \/ n = Len(order) + 1
      BY <1>1
    <3>. QED BY <1>1, <3>1
  <2>2. s = [n \in 1..Len(order) |-> Turn(order[n])]
    BY <1>1
  <2>3. r = [n \in 1..(Len(order) + 1) |-> Turn(more[n])]
    BY <1>1
  <2>4. Len(order) + 1 \in 1..(Len(order) + 1)
    BY <1>1
  <2>. HIDE DEF s, r
  <2>. QED BY <1>1, <2>1, <2>2, <2>3, <2>4
<1>3. \A n \in 1..Len(order) : r[n] = s[n]
  BY <1>1
<1>. HIDE DEF s, r
<1>4. r = Append(s, Turn(q)) /\ s \in Seq(Seq(ItemIds)) /\ Turn(q) \in Seq(ItemIds)
  <2>1. /\ s \in Seq(Seq(ItemIds)) /\ Len(s) = Len(order)
        /\ r \in Seq(Seq(ItemIds)) /\ Len(r) = Len(order) + 1
    <3>1. Len(order) + 1 \in Nat
      BY <1>1
    <3>. QED BY <1>1, <1>2, <3>1, FunctionIsSeq
  <2>2. /\ Append(s, Turn(q)) \in Seq(Seq(ItemIds)) /\ Len(Append(s, Turn(q))) = Len(order) + 1
        /\ \A n \in 1..Len(order) : Append(s, Turn(q))[n] = s[n]
        /\ Append(s, Turn(q))[Len(order) + 1] = Turn(q)
    BY <1>1, <2>1
  <2>3. \A n \in 1..(Len(order) + 1) : n \in 1..Len(order) \/ n = Len(order) + 1
    BY <1>1
  <2>4. \A n \in 1..(Len(order) + 1) : r[n] = Append(s, Turn(q))[n]
    BY <1>2, <1>3, <2>2, <2>3
  <2>. QED BY <2>1, <2>2, <2>4, SeqEqual
<1>5. SeqX!FlattenSeq(Append(s, Turn(q))) = SeqX!FlattenSeq(s) \o Turn(q)
  BY <1>4, FlattenAppend
<1>. QED BY <1>4, <1>5 DEF Turns, s, r, more

\* Turns put end to end are a sequence of items.
LEMMA FlattenType ==
  ASSUME NEW T, NEW s \in Seq(Seq(T)) PROVE SeqX!FlattenSeq(s) \in Seq(T)
<1>. DEFINE n == Len(s)
<1>1. n \in Nat /\ \A i \in 1..n : s[i] \in Seq(T)
  OBVIOUS
<1>2. CASE n = 0
  <2>1. SeqX!FlattenSeq(s) = <<>>
    BY <1>2 DEF SeqX!FlattenSeq
  <2>. QED BY <2>1
<1>3. CASE n # 0
  <2>1. PICK f : Flattens(f, s, n) /\ SeqX!FlattenSeq(s) = f[n]
    BY <1>1, <1>3, FlattenSeqLast
  <2>. HIDE DEF n
  <2>. DEFINE Bad == { i \in 1..n : f[i] \notin Seq(T) }
  <2>2. SUFFICES ASSUME Bad # {} PROVE FALSE
    <3>1. n \in 1..n
      BY <1>1, <1>3
    <3>. QED BY <2>1, <3>1
  <2>3. Bad \subseteq Nat
    OBVIOUS
  <2>4. PICK i \in Bad : \A j \in Bad : i <= j
    BY <2>2, <2>3, SmallestOf
  <2>5. i \in 1..n /\ f[i] \notin Seq(T) /\ s[i] \in Seq(T)
    BY <1>1, <2>4
  <2>6. f[i] = IF i = 1 THEN s[i] ELSE f[i - 1] \o s[i]
    BY <1>1, <2>1, <2>5, FlattensAt
  <2>7. i # 1 => f[i - 1] \in Seq(T)
    BY <1>1, <2>4, <2>5
  <2>. QED BY <2>5, <2>6, <2>7
<1>. QED BY <1>2, <1>3

\* In every conversation, at every moment.
AllWhole == \A c \in OfKind(Live(store), "conversation") : Whole(c)

LEMMA TurnType ==
  ASSUME Typed, NEW p \in Requests PROVE Turn(p) \in Seq(ItemIds)
BY RequestFacts, ItemIDsOfConcat DEF Turn

\* A step that answers no turn on c leaves it whole.
LEMMA WholeGoesOn ==
  ASSUME IInv, NEW q \in Requests, ~At(q, "done"), \A r \in Requests \ {q} : req'[r] = req[r],
         NEW c, Kind(c) = "conversation", ItemsStay(c), Whole(c), q \notin AnsweredOn(c)'
  PROVE  Whole(c)'
<1>1. /\ c \in Live(store) /\ c \in Key /\ c[2] \in Requests /\ Stored(c) /\ Placed(q)
      /\ store'.lists[<<c, "items">>] = store.lists[<<c, "items">>]
  BY KeyFacts DEF ItemsStay, IInv, Good, Sound, IsStore
<1>2. c[2] # q /\ q \notin AnsweredOn(c)
  BY <1>1 DEF Stored, Placed, AnsweredOn, At
<1>3. AnsweredOn(c)' = AnsweredOn(c) /\ AnsweredOn(c) \subseteq Requests
  BY <1>2 DEF AnsweredOn
<1>4. req'[c[2]].input = req[c[2]].input
  BY <1>1, <1>2
<1>5. PICK order \in SeqX!SetToSeqs(AnsweredOn(c)) :
        store.lists[<<c, "items">>] = req[c[2]].input \o Turns(order)
  BY DEF Whole
<1>6. Turns(order)' = Turns(order)
  <2>0. order \in [1..Cardinality(AnsweredOn(c)) -> AnsweredOn(c)]
    BY OrderMembers
  <2>1. \A n \in DOMAIN order : order[n] \in AnsweredOn(c)
    BY <2>0
  <2>2. \A n \in DOMAIN order : Turn(order[n])' = Turn(order[n])
    BY <1>2, <1>3, <2>1 DEF Turn
  <2>3. [n \in DOMAIN order |-> Turn(order[n])'] = [n \in DOMAIN order |-> Turn(order[n])]
    BY <2>2
  <2>. QED BY <2>3 DEF Turns
<1>. QED BY <1>1, <1>3, <1>4, <1>5, <1>6 DEF Whole

\* The steps of a request other than its save leave the conversations alone.
LEMMA OthersLeaveItems ==
  ASSUME IInv, NEW q \in Requests,
         ArriveAny(q) \/ (Serve(q) /\ ~SaveTurn(q) /\ ~CreateConversation(q))
  PROVE  \A c \in OfKind(Live(store'), "conversation") : ItemsStay(c)
<1>. SUFFICES ASSUME NEW c \in Live(store'), Kind(c) = "conversation" PROVE ItemsStay(c)
  BY DEF OfKind
<1>0. now \in Nat /\ Good(store, now) /\ Sound(store)
  BY DEF IInv, Good
<1>1. ASSUME Narrowed(store, store') PROVE ItemsStay(c)
  BY <1>1, KeptItems DEF Narrowed
<1>2. CASE ArriveAny(q)
  <2>1. store' = pruneExpired(store, now, FALSE)
    BY <1>2 DEF ArriveAny, ArrivePostResponse, ArrivePostConversation, ArriveUpdate, ArriveOnObject,
           Arrive
  <2>. QED BY <1>0, <1>1, <2>1, PruneStore
<1>3. CASE LookupNothing(q) \/ NormalizeInput(q) \/ UpstreamAnswers(q) \/ UpstreamFails(q)
  BY <1>3 DEF LookupNothing, NormalizeInput, UpstreamAnswers, UpstreamFails, ItemsStay
<1>4. CASE LookupConversation(q) \/ LookupPrevious(q) \/ FetchContext(q) \/ Get(q)
  <2>1. PICK key : store' = read(store, key, now)
    BY <1>4 DEF LookupConversation, LookupPrevious, FetchContext, Get
  <2>. QED BY <2>1, ReadQuiet DEF ItemsStay
<1>5. CASE DeleteObject(q)
  <2>1. PICK key : store' = delete(store, key)
    BY <1>5 DEF DeleteObject
  <2>. QED BY <1>0, <1>1, <2>1, DeleteFrame
<1>6. ASSUME NEW key, NEW value \in Values, store' = update(store, key, value, now)
      PROVE  ItemsStay(c)
  <2>1. Live(store') = Live(store) /\ Updated(store, store', key, value)
    BY <1>0, <1>6, UpdateStore
  <2>. QED BY <2>1 DEF Updated, ItemsStay
<1>7. CASE Cancel(q)
  <2>1. PICK key \in req[q].target :
          \/ store' = store
          \/ key \in Live(store) /\ store' = update(store, key, Cancelled(store.objects[key]), now)
    BY <1>7 DEF Cancel
  <2>2. key \in Live(store) => Cancelled(store.objects[key]) \in Values
    BY <1>0, IdsAssumption DEF Sound, IsStore, Cancelled, Statuses
  <2>. QED BY <1>6, <2>1, <2>2 DEF ItemsStay
<1>8. CASE UpdateConversation(q)
  <2>1. PICK key \in req[q].target, metadata \in Metadata : store' = update(store, key, metadata, now)
    BY <1>8 DEF UpdateConversation
  <2>2. metadata \in Values
    BY IdsAssumption
  <2>. QED BY <1>6, <2>1, <2>2
<1>. QED BY <1>2, <1>3, <1>4, <1>5, <1>7, <1>8, Zenon DEF Serve, Upstream

LEMMA WholeSaved ==
  ASSUME IInv, AllWhole, NEW q \in Requests, SaveTurn(q) PROVE AllWhole'
<1>1. /\ Becomes(q, "done", req[q].context, req[q].output, req[q].status, "ok")
      /\ ~At(q, "done") /\ Placed(q) /\ req[q].kind = "respond" /\ Typed
  BY AnswerBecomes DEF SaveTurn, IInv, Placed, At
<1>2. \A r \in Requests \ {q} : req'[r] = req[r]
  BY <1>1 DEF Becomes
<1>. SUFFICES ASSUME NEW c \in Live(store'), Kind(c) = "conversation" PROVE Whole(c)'
  BY DEF AllWhole, OfKind
<1>3. TurnAtTheEnd(q, c)
  BY SaveTurnStep DEF OfKind
<1>4. c \in Live(store) /\ Whole(c)
  BY <1>3 DEF TurnAtTheEnd, ItemsStay, AllWhole, OfKind
<1>5. CASE c \notin Named(q)
  <2>1. q \notin AnsweredOn(c)'
    BY <1>1, <1>5 DEF Becomes, AnsweredOn, Named
  <2>2. ItemsStay(c)
    BY <1>3, <1>5 DEF TurnAtTheEnd
  <2>. QED BY <1>1, <1>2, <1>4, <2>1, <2>2, WholeGoesOn
<1>6. CASE c \in Named(q)
  <2>. DEFINE S == AnsweredOn(c)
  <2>1. /\ c \in Key /\ c[2] \in Requests /\ c[2] # q /\ req[q].target = {c}
        /\ q \notin S /\ S \subseteq Requests /\ IsFiniteSet(S)
    <3>1. c \in Key /\ c[2] \in Requests /\ Stored(c)
      BY <1>4, KeyFacts DEF IInv, Good, Sound, IsStore
    <3>2. c[2] # q /\ q \notin S
      BY <1>1, <3>1 DEF Stored, Placed, AnsweredOn
    <3>3. req[q].target = {c}
      BY <1>1, <1>6, OneTarget DEF Named
    <3>. QED BY <1>4, <3>1, <3>2, <3>3 DEF AnsweredOn, Whole
  <2>2. AnsweredOn(c)' = S \cup {q}
    BY <1>1, <1>2, <2>1 DEF AnsweredOn, Becomes
  <2>3. \A p \in Requests : Turn(p)' = Turn(p)
    BY <1>1 DEF Becomes, Turn
  <2>4. req'[c[2]].input = req[c[2]].input /\ req[c[2]].input \in Seq(ItemIds)
    BY <1>1, <1>2, <2>1, RequestFacts
  <2>5. PICK order \in SeqX!SetToSeqs(S) :
          store.lists[<<c, "items">>] = req[c[2]].input \o Turns(order)
    BY <1>4 DEF Whole
  <2>. HIDE DEF S
  <2>. DEFINE more == Append(order, q)
  <2>6. order \in Seq(S) /\ IsFiniteSet(S \cup {q}) /\ more \in SeqX!SetToSeqs(S \cup {q})
    BY <2>1, OrderExtended
  <2>7. Turns(more) = Turns(order) \o Turn(q) /\ Turn(q) \in Seq(ItemIds)
    <3>1. \A p \in S \cup {q} : Turn(p) \in Seq(ItemIds)
      BY <1>1, <2>1, TurnType
    <3>. QED BY <2>6, <3>1, TurnsAppended
  <2>8. Turns(more)' = Turns(more)
    <3>1. \A n \in DOMAIN more : more[n] \in Requests
      <4>1. more \in Seq(Requests)
        BY <2>1, <2>6
      <4>. HIDE DEF more
      <4>. QED BY <4>1
    <3>. HIDE DEF more
    <3>2. [n \in DOMAIN more |-> Turn(more[n])'] = [n \in DOMAIN more |-> Turn(more[n])]
      BY <2>3, <3>1
    <3>. QED BY <3>2 DEF Turns
  <2>9. Turns(order) \in Seq(ItemIds)
    <3>. DEFINE s == [n \in DOMAIN order |-> Turn(order[n])]
    <3>1. \A n \in 1..Len(order) : order[n] \in Requests /\ Turn(order[n]) \in Seq(ItemIds)
      BY <1>1, <2>1, <2>6, TurnType
    <3>2. s \in [1..Len(order) -> Seq(ItemIds)] /\ Len(order) \in Nat
      BY <2>6, <3>1
    <3>. HIDE DEF s
    <3>3. s \in Seq(Seq(ItemIds))
      BY <3>2, FunctionIsSeq
    <3>4. SeqX!FlattenSeq(s) \in Seq(ItemIds)
      BY <3>3, FlattenType
    <3>. QED BY <3>4 DEF Turns, s
  <2>. HIDE DEF more
  <2>10. store'.lists[<<c, "items">>] = req'[c[2]].input \o Turns(more)'
    <3>1. store'.lists[<<c, "items">>] = store.lists[<<c, "items">>] \o Turn(q)
      BY <1>3, <1>6 DEF TurnAtTheEnd
    <3>2. (req[c[2]].input \o Turns(order)) \o Turn(q) = req[c[2]].input \o (Turns(order) \o Turn(q))
      <4>. DEFINE x == req[c[2]].input
                  y == Turns(order)
                  z == Turn(q)
      <4>1. x \in Seq(ItemIds) /\ y \in Seq(ItemIds) /\ z \in Seq(ItemIds)
        BY <2>4, <2>7, <2>9
      <4>. HIDE DEF x, y, z
      <4>2. (x \o y) \o z = x \o (y \o z)
        BY <4>1, ConcatAssociative
      <4>. QED BY <4>2 DEF x, y, z
    <3>. QED BY <2>4, <2>5, <2>7, <2>8, <3>1, <3>2
  <2>. QED BY <2>2, <2>6, <2>10 DEF Whole
<1>. QED BY <1>5, <1>6

LEMMA WholeCreated ==
  ASSUME IInv, AllWhole, NEW q \in Requests, CreateConversation(q) PROVE AllWhole'
<1>1. /\ Becomes(q, "done", req[q].context, req[q].output, req[q].status, "ok")
      /\ ~At(q, "done") /\ req[q].kind = "converse" /\ Typed
  BY AnswerBecomes DEF CreateConversation, IInv, Placed, At
<1>2. \A r \in Requests \ {q} : req'[r] = req[r]
  BY <1>1 DEF Becomes
<1>3. /\ store'.lists[<<Conversation(q), "items">>] = req[q].input
      /\ \A c \in OfKind(Live(store'), "conversation") \ {Conversation(q)} : ItemsStay(c)
  BY CreateConversationStep
<1>. SUFFICES ASSUME NEW c \in OfKind(Live(store'), "conversation") PROVE Whole(c)'
  BY DEF AllWhole
<1>4. CASE c # Conversation(q)
  <2>1. Kind(c) = "conversation" /\ ItemsStay(c)
    BY <1>3, <1>4 DEF OfKind
  <2>2. Whole(c)
    BY <2>1 DEF AllWhole, OfKind, ItemsStay
  <2>3. q \notin AnsweredOn(c)'
    BY <1>1 DEF AnsweredOn, Becomes
  <2>. QED BY <1>1, <1>2, <2>1, <2>2, <2>3, WholeGoesOn
<1>5. CASE c = Conversation(q)
  <2>1. c[2] = q /\ Kind(c) = "conversation" /\ ~Known(c)
    BY <1>1, <1>5 DEF Conversation, Kind, Known
  <2>2. AnsweredOn(c)' = {}
    <3>. SUFFICES ASSUME NEW r \in AnsweredOn(c)' PROVE FALSE
      OBVIOUS
    <3>1. r \in Requests /\ req'[r].kind = "respond" /\ req'[r].target = {c}
      BY DEF AnsweredOn
    <3>2. r # q
      BY <1>1, <3>1 DEF Becomes
    <3>3. req[r].target = {c} /\ Informed(r)
      BY <1>2, <3>1, <3>2 DEF IInv
    <3>. QED BY <2>1, <3>3 DEF Informed
  <2>3. <<>> \in SeqX!SetToSeqs({}) /\ IsFiniteSet({})
    <3>1. Cardinality({}) = 0 /\ IsFiniteSet({})
      BY FS_EmptySet
    <3>2. <<>> \in [1..0 -> {}] /\ \A i, j \in 1..0 : i # j => <<>>[i] # <<>>[j]
      OBVIOUS
    <3>. QED BY <3>1, <3>2, OrderMembers
  <2>4. Turns(<<>>)' = <<>>
    <3>1. [n \in DOMAIN <<>> |-> Turn(<<>>[n])'] = <<>>
      OBVIOUS
    <3>2. SeqX!FlattenSeq(<<>>) = <<>>
      BY DEF SeqX!FlattenSeq
    <3>. QED BY <3>1, <3>2 DEF Turns
  <2>5. req'[c[2]].input = req[q].input /\ req[q].input \in Seq(ItemIds)
    BY <1>1, <2>1, RequestFacts DEF Becomes
  <2>6. store'.lists[<<c, "items">>] = req'[c[2]].input \o Turns(<<>>)'
    BY <1>3, <1>5, <2>4, <2>5, ConcatEmptySeq
  <2>. QED BY <2>2, <2>3, <2>6 DEF Whole
<1>. QED BY <1>4, <1>5

LEMMA WholeStep == IInv /\ AllWhole /\ [Next]_vars => AllWhole'
<1>. SUFFICES ASSUME IInv, AllWhole, [Next]_vars PROVE AllWhole'
  OBVIOUS
<1>1. CASE UNCHANGED <<store, req>>
  <2>. SUFFICES ASSUME NEW c \in OfKind(Live(store'), "conversation") PROVE Whole(c)'
    BY DEF AllWhole
  <2>1. Whole(c) /\ AnsweredOn(c)' = AnsweredOn(c) /\ \A order : Turns(order)' = Turns(order)
    BY <1>1 DEF AllWhole, AnsweredOn, Turns, Turn
  <2>. QED BY <1>1, <2>1 DEF Whole
<1>2. ASSUME NEW q \in Requests, ~At(q, "done"), \A r \in Requests \ {q} : req'[r] = req[r],
             req'[q].answer # "ok" \/ req'[q].kind # "respond",
             \A c \in OfKind(Live(store'), "conversation") : ItemsStay(c)
      PROVE  AllWhole'
  <2>. SUFFICES ASSUME NEW c \in OfKind(Live(store'), "conversation") PROVE Whole(c)'
    BY DEF AllWhole
  <2>1. Kind(c) = "conversation" /\ ItemsStay(c) /\ q \notin AnsweredOn(c)'
    BY <1>2 DEF OfKind, AnsweredOn
  <2>2. Whole(c)
    BY <2>1 DEF AllWhole, OfKind, ItemsStay
  <2>. QED BY <1>2, <2>1, <2>2, WholeGoesOn
<1>3. ASSUME NEW q \in Requests, ArriveAny(q) PROVE AllWhole'
  <2>1. Arrived(q) /\ \A c \in OfKind(Live(store'), "conversation") : ItemsStay(c)
    BY <1>3, ArriveAnyStep, OthersLeaveItems
  <2>2. ~At(q, "done")
    BY <1>3 DEF ArriveAny, ArrivePostResponse, ArrivePostConversation, ArriveUpdate, ArriveOnObject,
           Arrive, At
  <2>. QED BY <1>2, <2>1, <2>2 DEF Arrived
<1>4. ASSUME NEW q \in Requests, Serve(q), ~SaveTurn(q), ~CreateConversation(q) PROVE AllWhole'
  <2>1. Further(q) /\ \A c \in OfKind(Live(store'), "conversation") : ItemsStay(c)
    BY <1>4, OnlySavesAnswer, OthersLeaveItems
  <2>. QED BY <1>2, <2>1 DEF Further
<1>5. CASE Tick
  BY <1>1, <1>5 DEF Tick
<1>6. CASE UNCHANGED vars
  BY <1>1, <1>6 DEF vars
<1>. QED BY <1>3, <1>4, <1>5, <1>6, WholeSaved, WholeCreated, Zenon DEF Next

\* However the requests on a conversation overlap, it is its opening and then
\* the turn of every answered request, each whole and each once (SaveResponse
\* appends to the list as it is at the end, ConversationItemsFor copies it).
THEOREM ConversationNeverTorn == Spec => []ConversationIsWholeTurns
<1>1. Init => AllWhole
  BY DEF Init, EmptyStore, Live, OfKind, AllWhole
<1>2. AllWhole => ConversationIsWholeTurns
  BY DEF AllWhole, Whole, Turns, ConversationIsWholeTurns
<1>. QED BY <1>1, <1>2, WholeStep, ResponsesInvariant, PTL DEF Spec
=============================================================================
