----------------------------- MODULE StoreLoops -----------------------------
(***************************************************************************)
(* The loops of internal/state/state.go as the code runs them: the save    *)
(* order as a slice that is searched, cut and consumed from its front, the *)
(* reference counts released one id at a time, the access map walked in    *)
(* Go's arbitrary order.  A value c of this module is a store whose field  *)
(* "before" is replaced by "order", one slice per kind.                    *)
(*                                                                         *)
(* Every call is made on both stores at once, on the closed forms of       *)
(* StoreOps and on these loops; LoopsAgree says they never differ.         *)
(***************************************************************************)
EXTENDS Store, SequencesExt

VARIABLE
  loops        \* the store the loops work on

loopVars == <<store, now, loops>>

\* The pairs of entries of a slice of which the one stands before the other.
Pairs(order) == UNION { { <<order[m], order[n]>> : m \in 1..(n - 1) } : n \in 1..Len(order) }

Abstract(c) ==
  [ objects |-> c.objects, access |-> c.access, lists |-> c.lists,
    before |-> UNION { Pairs(c.order[kind]) : kind \in DOMAIN c.order },
    ItemsByID |-> c.ItemsByID, itemRefCount |-> c.itemRefCount, lastPrune |-> c.lastPrune ]

EmptyLoops ==
  [ objects |-> <<>>, access |-> <<>>, lists |-> <<>>,
    order |-> [kind \in {"response", "chat", "conversation"} |-> <<>>],
    ItemsByID |-> {}, itemRefCount |-> <<>>, lastPrune |-> Never ]

-----------------------------------------------------------------------------

\* The search starts at the second element.
forgetIDMutantSkipsFirst(order, id) ==
  IF order = <<>> THEN order ELSE <<Head(order)>> \o RemoveFirst(Tail(order), id)

\* "for i, value := range order": the first occurrence is cut out.
forgetID(order, id) == RemoveFirst(order, id)

rememberLast(order, id) == Append(forgetID(order, id), id)

releaseOne(c, id) ==
  IF RefCount(c, id) <= 1
    THEN [c EXCEPT !.itemRefCount = Restrict(@, DOMAIN @ \ {id}), !.ItemsByID = @ \ {id}]
    ELSE [c EXCEPT !.itemRefCount[id] = @ - 1]

\* "for id := range itemIDs(items)" of releaseItemRefsLocked, over one walk of the ids.
releaseWalk(c, walk) ==
  LET after[n \in 0..Len(walk)] == IF n = 0 THEN c ELSE releaseOne(after[n - 1], walk[n])
  IN  after[Len(walk)]

\* Which walk makes no difference (ReleaseOrderIsFree of StoreProofs): it is some
\* fixed one here.
releaseEach(c, ids) == releaseWalk(c, SetToSeq(ids))

\* A slice that is not there is nil, and has no ids.
releaseSlice(c, key, name) ==
  IF <<key, name>> \in DOMAIN c.lists THEN releaseEach(c, itemIDs(c.lists[<<key, name>>])) ELSE c

releaseSlices(c, key) ==
  CASE Kind(key) = "response" -> releaseSlice(releaseSlice(c, key, "input"), key, "context")
    [] Kind(key) = "conversation" -> releaseSlice(c, key, "items")
    [] OTHER -> c

deleteLocked(c, key) ==
  IF key \notin DOMAIN c.objects THEN c
  ELSE [ releaseSlices(c, key) EXCEPT
           !.objects = Restrict(@, DOMAIN @ \ {key}),
           !.lists = Restrict(@, { l \in DOMAIN @ : l[1] # key }),
           !.access = Restrict(@, DOMAIN @ \ {key}),
           !.order[Kind(key)] = forgetID(@, key) ]

\* One turn of "for len(table) > limit && len(order) > 0", if there is one.
evictTurn(c, kind) ==
  LET order == c.order[kind] IN
    IF order = <<>> \/ Cardinality(OfKind(DOMAIN c.objects, kind)) <= Limit(kind) THEN c
    ELSE IF order[1] \notin DOMAIN c.objects THEN [c EXCEPT !.order[kind] = Tail(@)]
    ELSE deleteLocked(c, order[1])

\* A turn takes the front off the order: there are no more turns than entries.
evictLoop(c, kind) ==
  LET turns == Len(c.order[kind])
      after[n \in 0..turns] == IF n = 0 THEN c ELSE evictTurn(after[n - 1], kind)
  IN  IF Limit(kind) = 0 THEN c ELSE after[turns]

pruneOne(c, key, cutoff) == IF c.access[key] < cutoff THEN deleteLocked(c, key) ELSE c

\* The three "for id, accessed := range" loops, over one walk of the keys.
pruneWalk(c, walk, cutoff) ==
  LET after[n \in 0..Len(walk)] == IF n = 0 THEN c ELSE pruneOne(after[n - 1], walk[n], cutoff)
  IN  after[Len(walk)]

pruneLoop(c, walk, t, force) ==
  IF \/ TTL = 0
     \/ ~force /\ c.lastPrune # Never /\ PruneInterval > 0 /\ t - c.lastPrune < PruneInterval
    THEN c
    ELSE pruneWalk([c EXCEPT !.lastPrune = t], walk, t - TTL)

-----------------------------------------------------------------------------
(* The methods with loops in them; the others are those of StoreOps.       *)

registerAndCount(c, items, ids) ==
  addItemRefs(registerItems(c, items), ids)

saveResponseLoops(c, key, value, context, output, keep, conversation, current, t) ==
  LET full == context \o output
      released == releaseSlices(c, key)
      indexed == addItemRefs(registerAndCount(released, full, itemIDs(context)), itemIDs(full))
      stored == put(indexed, key, value, [input |-> context, context |-> full], t)
      kept == IF keep
                THEN evictLoop([stored EXCEPT !.order.response = rememberLast(@, key)], "response")
                ELSE c
  IN  IF conversation = {} THEN kept
      ELSE appendTurn(kept, CHOOSE k \in conversation : TRUE, current \o output, t)

saveChatLoops(c, key, value, messages, t) ==
  evictLoop([put(c, key, value, [messages |-> messages], t) EXCEPT
               !.order.chat = rememberLast(@, key)], "chat")

saveConversationLoops(c, key, value, items, t) ==
  LET released == IF key \in DOMAIN c.objects THEN releaseSlices(c, key) ELSE c
      stored == put(registerAndCount(released, items, itemIDs(items)), key, value,
                    [items |-> items], t)
  IN  evictLoop([stored EXCEPT !.order.conversation = rememberLast(@, key)], "conversation")

LoopInit == Init /\ loops = EmptyLoops

LoopNext ==
  \E walk \in SetToSeqs(DOMAIN loops.access) :
    LET pruned == pruneLoop(loops, walk, now, FALSE) IN
      \/ Tick /\ UNCHANGED loops
      \/ Prune /\ loops' = pruneLoop(loops, walk, now, TRUE)
      \/ PruneIfDue /\ loops' = pruned
      \/ \E key \in ResponseKey, value \in Values, context, output, current \in ItemLists,
            keep \in BOOLEAN, conversation \in {{}} \cup { {k} : k \in ConversationKey } :
            /\ DoSaveResponse(key, value, context, output, keep, conversation, current)
            /\ loops' = saveResponseLoops(pruned, key, value, context, output, keep,
                                          conversation, current, now)
      \/ \E key \in ChatKey, value \in Values, messages \in ItemLists :
            /\ DoSaveChatCompletion(key, value, messages)
            /\ loops' = saveChatLoops(pruned, key, value, messages, now)
      \/ \E key \in ConversationKey, value \in Values, items \in ItemLists :
            /\ DoSaveConversation(key, value, items)
            /\ loops' = saveConversationLoops(pruned, key, value, items, now)
      \/ \E key \in Key : Read(key) /\ loops' = read(loops, key, now)
      \/ \E key \in Key : Delete(key) /\ loops' = deleteLocked(loops, key)
      \/ \E key \in Key, value \in Values :
            Update(key, value) /\ loops' = update(loops, key, value, now)
      \/ \E items \in ItemLists : RegisterItems(items) /\ loops' = registerItems(loops, items)

LoopSpec == LoopInit /\ [][LoopNext]_loopVars

\* The loops compute the closed forms, whichever way the access map is walked:
\* the results of state.go cannot depend on Go's map iteration order.
LoopsAgree == store = Abstract(loops)

\* A save-order slice holds no entry twice and none that is gone, so the
\* "continue" branch of the eviction loops is never taken.
OrderSlicesExact ==
  \A kind \in DOMAIN loops.order :
    /\ IsInjective(loops.order[kind])
    /\ ToSet(loops.order[kind]) = OfKind(DOMAIN loops.objects, kind)
=============================================================================
