------------------------------- MODULE Store -------------------------------
(***************************************************************************)
(* The store as a system of its own: any caller may call any method at any *)
(* time, and the clock advances between calls.  A step is one critical     *)
(* section of internal/state/state.go.  s.now() is read with the mutex     *)
(* held, so calls see times in the order in which they take effect.        *)
(***************************************************************************)
EXTENDS StoreOps

CONSTANTS
  ItemLists,   \* the item slices callers pass
  MaxTime,     \* bound: the clock stops here
  MaxItems     \* bound: the length up to which a conversation grows

ASSUME CallsAssumption ==
  /\ ItemLists \subseteq Seq(ItemIds)
  /\ MaxTime \in Nat /\ MaxItems \in Nat

VARIABLES
  store,       \* the Store
  now          \* what s.now() returns

vars == <<store, now>>

Init == store = EmptyStore /\ now = 0

-----------------------------------------------------------------------------

Tick == now < MaxTime /\ now' = now + 1 /\ UNCHANGED store

\* Store.Prune, which prunes whatever the interval.
Prune == store' = pruneExpired(store, now, TRUE) /\ UNCHANGED now

\* Store.PruneIfDue, which the router calls for every request.
PruneIfDue == store' = pruneExpired(store, now, FALSE) /\ UNCHANGED now

\* The bound MaxItems on what a step appends to conversation c.
Fits(c, added) ==
  c \in Live(store) => Len(store.lists[<<c, "items">>]) + Len(added) <= MaxItems

DoSaveResponse(key, value, context, output, keep, conversation, current) ==
  /\ \A c \in conversation : Fits(c, current \o output)
  /\ store' = SaveResponse(store, key, value, context, output, keep, conversation, current, now)
  /\ UNCHANGED now

DoSaveChatCompletion(key, value, messages) ==
  store' = SaveChatCompletion(store, key, value, messages, now) /\ UNCHANGED now

DoSaveConversation(key, value, items) ==
  store' = SaveConversation(store, key, value, items, now) /\ UNCHANGED now

Read(key) == store' = read(store, key, now) /\ UNCHANGED now

Update(key, value) == store' = update(store, key, value, now) /\ UNCHANGED now

Delete(key) == store' = delete(store, key) /\ UNCHANGED now

Next ==
  \/ Tick \/ Prune \/ PruneIfDue
  \/ \E key \in ResponseKey, value \in Values, context, output, current \in ItemLists,
        keep \in BOOLEAN, conversation \in {{}} \cup { {c} : c \in ConversationKey } :
        DoSaveResponse(key, value, context, output, keep, conversation, current)
  \/ \E key \in ChatKey, value \in Values, messages \in ItemLists :
        DoSaveChatCompletion(key, value, messages)
  \/ \E key \in ConversationKey, value \in Values, items \in ItemLists :
        DoSaveConversation(key, value, items)
  \/ \E key \in Key : Read(key) \/ Delete(key)
  \/ \E key \in Key, value \in Values : Update(key, value)

Spec == Init /\ [][Next]_vars

\* Store.RegisterItems indexes items nobody holds.  No handler calls it; only
\* the store's own tests do.  The index is exact without it.
RegisterItems(items) == store' = registerItems(store, items) /\ UNCHANGED now

-----------------------------------------------------------------------------
(* What the store promises.                                                *)

\* The tables of the store agree on what is live, and no time of theirs lies
\* in the future.
TypeOK ==
  /\ IsStore(store)
  /\ \A key \in Live(store) : store.access[key] <= now
  /\ store.lastPrune <= now
  /\ now \in 0..MaxTime

\* The count of an item is the number of stored slices it occurs in (a
\* response holds its input and its context, a conversation its items),
\* through every overwrite, append, eviction, expiry and deletion: a count too
\* low unindexes an item somebody still shows, one too high leaks it forever
\* (releaseItemRefsLocked, addItemRefsLocked).
RefCountExact ==
  \A i \in ItemIds : RefCount(store, i) = Cardinality(Holders(store, Holding(store), i))

\* The index that resolves item_reference inputs holds an item exactly as long
\* as some stored Response or Conversation holds it (README.md:436).
IndexExact == store.ItemsByID = Held(store)

\* What is left of IndexExact when RegisterItems may add unowned entries: an
\* item that is held is always found in the index.
HeldIsIndexed == Held(store) \subseteq store.ItemsByID

\* Each save-order slice lists its live entries, each once and in one order:
\* any set of entries of a kind has a front.  A stale or double entry would
\* make eviction delete the wrong object, or nothing (rememberID, forgetID).
OrderIsQueue ==
  /\ \A p \in store.before : Kind(p[1]) = Kind(p[2]) /\ <<p[2], p[1]>> \notin store.before
  /\ \A S \in SUBSET Live(store) :
       S # {} /\ (\A x, y \in S : Kind(x) = Kind(y))
         => \E first \in S : \A y \in S \ {first} : <<first, y>> \in store.before

\* No table outgrows its limit, whatever sequence of saves and overwrites ran.
CapacityRespected ==
  \A kind \in {"response", "chat", "conversation"} :
    Limit(kind) # 0 => Cardinality(OfKind(Live(store), kind)) <= Limit(kind)

\* After a prune at time p nothing last used before p - TTL is left, and no
\* later call can bring such an entry back (pruneExpiredLocked).
PruneFloor ==
  store.lastPrune # Never =>
    \A key \in Live(store) : store.access[key] >= store.lastPrune - TTL

\* A request never meets an entry that idled for TTL + PruneInterval: whenever it
\* comes, either PruneIfDue prunes or the last prune, made by whichever call,
\* still answers for what is left; the interval delays expiry by less than itself.
NothingIdleTooLong ==
  TTL # 0 => LET met == pruneExpired(store, now, FALSE) IN
    \A key \in Live(met) :
      LET idle == now - met.access[key]
      IN  idle <= TTL \/ idle < TTL + PruneInterval

\* The entries of key's kind that key does not precede.
NotAfter(s, key) == { y \in OfKind(Live(s), Kind(key)) : <<key, y>> \notin s.before }

\* An entry disappears for one of three reasons only: it idled longer than
\* the TTL; it was deleted by name, and the call did nothing but delete it; or a
\* new entry of its kind took its place in a full table and nothing saved before
\* it is left (README.md:436, "the oldest saved entry of that type is evicted").
RemovedForAReason ==
  [][ \A key \in Live(store) \ Live(store)' :
        \/ TTL # 0 /\ store.access[key] < now - TTL
        \/ store' = delete(store, key)
        \/ /\ \E new \in Live(store)' \ Live(store) : Kind(new) = Kind(key)
           /\ Cardinality(OfKind(Live(store)', Kind(key))) = Limit(Kind(key))
           /\ NotAfter(store, key) \cap Live(store)' = {} ]_vars
=============================================================================
