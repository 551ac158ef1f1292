------------------------------ MODULE StoreOps ------------------------------
(***************************************************************************)
(* The in-memory store of internal/state/state.go as pure operators on one *)
(* value s.  Each exported method of Store runs under the store's mutex,   *)
(* so each is one operator here, built from the *Locked helpers it calls   *)
(* in the order it calls them.                                             *)
(*                                                                         *)
(* The three tables (Responses, ChatCompletions, Conversations) are kept   *)
(* by three copies of the same code; here they are one table whose keys    *)
(* carry their kind:                                                       *)
(*                                                                         *)
(*   s.objects       Responses, ChatCompletions, Conversations             *)
(*   s.access        responseAccess, chatCompletionAccess, ...             *)
(*   s.before        responseOrder, ...: <<x, y>> is in it when x and y    *)
(*                   are of one kind and x stands before y in that slice   *)
(*   s.lists         ResponseInputItems, ResponseContextItems,             *)
(*                   ChatCompletionMessages, ConversationItems             *)
(*   s.ItemsByID     the ids the item index holds                          *)
(*   s.itemRefCount  the reference counts of the item index                *)
(*   s.lastPrune     the time of the last prune, Never before the first    *)
(*                                                                         *)
(* An item is its id: what an item says matters to no operation here.  No  *)
(* operator is recursive: the loops of the code are closed forms, and      *)
(* module StoreLoops runs the loops and checks that they compute them.     *)
(*                                                                         *)
(* An operator whose name says "Mutant" is a deliberately wrong variant of *)
(* the one after it; it shows that some property notices the mistake.      *)
(***************************************************************************)
EXTENDS Integers, Sequences, FiniteSets, Functions

CONSTANTS
  ResponseIds, ChatIds, ConversationIds,  \* the ids of the three tables
  ItemIds,                                \* the ids of input and output items
  Values,                                 \* what a stored object may say
  MaxResponses, MaxChatCompletions, MaxConversations,  \* 0 is "no limit"
  TTL, PruneInterval                      \* in clock units; TTL 0 is "never"

ASSUME LimitsAssumption ==     \* what normalizeLimits establishes
  /\ MaxResponses \in Nat /\ MaxChatCompletions \in Nat
  /\ MaxConversations \in Nat /\ TTL \in Nat /\ PruneInterval \in Nat

Never == -1        \* the zero time.Time of a store that has not pruned

ResponseKey == {"response"} \X ResponseIds
ChatKey == {"chat"} \X ChatIds
ConversationKey == {"conversation"} \X ConversationIds

Key == ResponseKey \cup ChatKey \cup ConversationKey

Kind(key) == key[1]

Limit(kind) == CASE kind = "response" -> MaxResponses
                 [] kind = "chat" -> MaxChatCompletions
                 [] OTHER -> MaxConversations

\* The slices kept for an object, by the table that holds them.
ListNames(kind) == CASE kind = "response" -> {"input", "context"}
                     [] kind = "chat" -> {"messages"}
                     [] OTHER -> {"items"}

Slices(keys) == UNION { {key} \X ListNames(Kind(key)) : key \in keys }

Live(s) == DOMAIN s.objects

OfKind(keys, kind) == { key \in keys : Kind(key) = kind }

EmptyStore ==
  [ objects |-> <<>>, access |-> <<>>, before |-> {}, lists |-> <<>>,
    ItemsByID |-> {}, itemRefCount |-> <<>>, lastPrune |-> Never ]

-----------------------------------------------------------------------------
(* The item index and its reference counts.                                *)

itemIDs(items) == { items[n] : n \in DOMAIN items }

RefCount(s, i) == IF i \in DOMAIN s.itemRefCount THEN s.itemRefCount[i] ELSE 0

\* The slices that hold references; the messages of a chat completion hold none.
Holding(s) == { l \in DOMAIN s.lists : l[2] # "messages" }

\* The items somebody holds.
Held(s) == UNION { itemIDs(s.lists[l]) : l \in Holding(s) }

\* The slices among L in which item i occurs: each is one reference to i.
Holders(s, L, i) == { l \in L : i \in itemIDs(s.lists[l]) }

registerItems(s, items) == [s EXCEPT !.ItemsByID = @ \cup itemIDs(items)]

\* addItemRefsLocked(items, existing): one reference for each distinct new id.
addItemRefs(s, ids) ==
  [s EXCEPT !.itemRefCount =
     [i \in DOMAIN @ \cup ids |-> RefCount(s, i) + IF i \in ids THEN 1 ELSE 0]]

\* The index entry stays behind.
releaseMutantKeepsIndex(s, L) ==
  LET lost(i) == Cardinality(Holders(s, L, i))
      gone == { i \in ItemIds : lost(i) > 0 /\ RefCount(s, i) <= lost(i) }
  IN  [s EXCEPT !.itemRefCount = [i \in DOMAIN @ \ gone |-> @[i] - lost(i)]]

\* The item goes with the first of its holders.
releaseMutantIgnoresCounts(s, L) ==
  LET lost(i) == Cardinality(Holders(s, L, i))
      gone == { i \in ItemIds : lost(i) > 0 }
  IN  [s EXCEPT !.itemRefCount = [i \in DOMAIN @ \ gone |-> @[i] - lost(i)],
                !.ItemsByID = @ \ gone]

\* releaseItemRefsLocked on every slice of L: an item that loses as many
\* references as it is counted for leaves both the counts and the index.
releaseItemRefs(s, L) ==
  LET lost(i) == Cardinality(Holders(s, L, i))
      gone == { i \in ItemIds : lost(i) > 0 /\ RefCount(s, i) <= lost(i) }
  IN  [s EXCEPT !.itemRefCount = [i \in DOMAIN @ \ gone |-> @[i] - lost(i)],
                !.ItemsByID = @ \ gone]

-----------------------------------------------------------------------------
(* Tables: deletion, the save order, eviction and pruning.                 *)

\* deleteResponseLocked, deleteChatCompletionLocked, deleteConversationLocked
\* on every key of D.
drop(s, D) ==
  [ releaseItemRefs(s, { l \in Holding(s) : l[1] \in D }) EXCEPT
      !.objects = Restrict(@, DOMAIN @ \ D),
      !.access = Restrict(@, DOMAIN @ \ D),
      !.before = { p \in @ : p[1] \notin D /\ p[2] \notin D },
      !.lists = Restrict(@, { l \in DOMAIN @ : l[1] \notin D }) ]

\* An entry saved again is not taken from its old place.
rememberIDMutantTwice(s, key) ==
  [s EXCEPT !.before = @ \cup ((OfKind(Live(s), Kind(key)) \ {key}) \X {key})]

\* rememberID: key becomes the youngest of its kind, wherever it stood.
rememberID(s, key) ==
  [s EXCEPT !.before = { p \in @ : p[1] # key /\ p[2] # key }
              \cup ((OfKind(Live(s), Kind(key)) \ {key}) \X {key})]

\* "len >= limit" at the wrong end: one entry too many is kept.
evictMutantLate(s, kind) ==
  LET table == OfKind(Live(s), kind)
      excess == { x \in table :
                    Cardinality({ y \in table : <<y, x>> \notin s.before }) > Limit(kind) + 1 }
  IN  IF Limit(kind) = 0 THEN s ELSE drop(s, excess)

\* The order is consumed from its young end.
evictMutantYoungest(s, kind) ==
  LET table == OfKind(Live(s), kind)
      excess == { x \in table :
                    Cardinality({ y \in table : <<x, y>> \notin s.before }) > Limit(kind) }
  IN  IF Limit(kind) = 0 THEN s ELSE drop(s, excess)

\* evict...Locked deletes from the front of the order until the table fits:
\* an entry goes when it and the entries not before it exceed the limit.
evict(s, kind) ==
  LET table == OfKind(Live(s), kind)
      excess == { x \in table :
                    Cardinality({ y \in table : <<y, x>> \notin s.before }) > Limit(kind) }
  IN  IF Limit(kind) = 0 THEN s ELSE drop(s, excess)

\* "now - lastPrune <= interval" is taken as not due.
pruneDueMutantLate(s, t, force) ==
  /\ TTL # 0
  /\ \/ force
     \/ s.lastPrune = Never
     \/ PruneInterval = 0
     \/ t - s.lastPrune > PruneInterval

pruneDue(s, t, force) ==
  /\ TTL # 0
  /\ \/ force
     \/ s.lastPrune = Never
     \/ PruneInterval = 0
     \/ t - s.lastPrune >= PruneInterval

\* An entry is expired one unit early.
expiredMutantEarly(s, t) == { key \in DOMAIN s.access : s.access[key] <= t - TTL }

expired(s, t) == { key \in DOMAIN s.access : s.access[key] < t - TTL }

pruneExpired(s, t, force) ==
  IF pruneDue(s, t, force) THEN drop([s EXCEPT !.lastPrune = t], expired(s, t)) ELSE s

\* The assignments that put an object, its slices and its access time in place.
put(s, key, value, lists, t) ==
  [s EXCEPT
     !.objects = [k \in DOMAIN @ \cup {key} |-> IF k = key THEN value ELSE @[k]],
     !.access = [k \in DOMAIN @ \cup {key} |-> IF k = key THEN t ELSE @[k]],
     !.lists = [l \in DOMAIN @ \cup Slices({key}) |->
                  IF l[1] = key THEN lists[l[2]] ELSE @[l]]]

-----------------------------------------------------------------------------
(* The methods of Store, at time t.                                        *)

\* The "if store" block of SaveResponse.
storeResponse(s, key, value, input, full, t) ==
  LET released == releaseItemRefs(s, { l \in Holding(s) : l[1] = key })
      indexed == registerItems(released, full)
      counted == addItemRefs(addItemRefs(indexed, itemIDs(input)), itemIDs(full))
      stored == put(counted, key, value, [input |-> input, context |-> full], t)
  IN  evict(rememberID(stored, key), "response")

\* existingIDs is not consulted: an item the conversation holds counts again.
appendTurnMutantCountsAgain(s, key, added, t) ==
  LET held == s.lists[<<key, "items">>]
      appended == [s EXCEPT !.lists[<<key, "items">>] = held \o added]
      counted == addItemRefs(registerItems(appended, added), itemIDs(added))
  IN  IF key \in Live(s) THEN [counted EXCEPT !.access[key] = t] ELSE s

\* The appended items are not registered.
appendTurnMutantUnregistered(s, key, added, t) ==
  LET held == s.lists[<<key, "items">>]
      appended == [s EXCEPT !.lists[<<key, "items">>] = held \o added]
      counted == addItemRefs(appended, itemIDs(added) \ itemIDs(held))
  IN  IF key \in Live(s) THEN [counted EXCEPT !.access[key] = t] ELSE s

\* A conversation that is gone is created again.
appendTurnMutantRecreates(s, key, added, t) ==
  LET held == IF key \in Live(s) THEN s.lists[<<key, "items">>] ELSE <<>>
      counted == addItemRefs(registerItems(s, added), itemIDs(added) \ itemIDs(held))
  IN  put(counted, key, CHOOSE value \in Values : TRUE, [items |-> held \o added], t)

\* The turn takes the place of the items that were there.
appendTurnMutantReplaces(s, key, added, t) ==
  LET held == s.lists[<<key, "items">>]
      appended == [s EXCEPT !.lists[<<key, "items">>] = added]
      counted == addItemRefs(registerItems(appended, added), itemIDs(added) \ itemIDs(held))
  IN  IF key \in Live(s) THEN [counted EXCEPT !.access[key] = t] ELSE s

\* The "if conversationID" block of SaveResponse.  A conversation that is gone
\* is not recreated.
appendTurn(s, key, added, t) ==
  LET held == s.lists[<<key, "items">>]
      appended == [s EXCEPT !.lists[<<key, "items">>] = held \o added]
      counted == addItemRefs(registerItems(appended, added), itemIDs(added) \ itemIDs(held))
  IN  IF key \in Live(s) THEN [counted EXCEPT !.access[key] = t] ELSE s

\* conversation is the empty set of keys or the one key the request names.
SaveResponse(s, key, value, context, output, store, conversation, current, t) ==
  LET pruned == pruneExpired(s, t, FALSE)
      stored == IF store THEN storeResponse(pruned, key, value, context, context \o output, t)
                         ELSE pruned
  IN  IF conversation = {} THEN stored
      ELSE appendTurn(stored, CHOOSE c \in conversation : TRUE, current \o output, t)

SaveChatCompletion(s, key, value, messages, t) ==
  LET stored == put(pruneExpired(s, t, FALSE), key, value, [messages |-> messages], t)
  IN  evict(rememberID(stored, key), "chat")

SaveConversation(s, key, value, items, t) ==
  LET pruned == pruneExpired(s, t, FALSE)
      released == releaseItemRefs(pruned, { l \in Holding(pruned) : l[1] = key })
      indexed == addItemRefs(registerItems(released, items), itemIDs(items))
      stored == put(indexed, key, value, [items |-> items], t)
  IN  evict(rememberID(stored, key), "conversation")

\* Response, ResponseInput, ResponseContext, ChatCompletion,
\* ChatCompletionMessagesFor, Conversation and ConversationItemsFor: a read
\* that finds its object counts as an access.
read(s, key, t) == IF key \in Live(s) THEN [s EXCEPT !.access[key] = t] ELSE s

\* UpdateResponse, UpdateChatCompletion, UpdateConversation.
update(s, key, value, t) ==
  IF key \in Live(s) THEN [s EXCEPT !.objects[key] = value, !.access[key] = t] ELSE s

\* DeleteResponse, DeleteChatCompletion, DeleteConversation.
delete(s, key) == IF key \in Live(s) THEN drop(s, {key}) ELSE s

-----------------------------------------------------------------------------
(* What a store value is.                                                  *)

\* The shape of a store value: each table a function over the live keys, each
\* slice of a live object and no other, no count of zero.
IsStore(s) ==
  /\ DOMAIN s = {"objects", "access", "before", "lists", "ItemsByID",
                 "itemRefCount", "lastPrune"}
  /\ s = [f \in DOMAIN s |-> s[f]]
  /\ Live(s) \subseteq Key /\ IsFiniteSet(Live(s))
  /\ s.objects \in [Live(s) -> Values]
  /\ s.access \in [Live(s) -> Nat]
  /\ s.lists \in [Slices(Live(s)) -> Seq(ItemIds)]
  /\ s.before \subseteq Live(s) \X Live(s)
  /\ s.ItemsByID \subseteq ItemIds
  /\ DOMAIN s.itemRefCount \subseteq ItemIds
  /\ s.itemRefCount \in [DOMAIN s.itemRefCount -> Nat \ {0}]
  /\ s.lastPrune \in {Never} \cup Nat
=============================================================================
