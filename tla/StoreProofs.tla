---------------------------- MODULE StoreProofs ----------------------------
(***************************************************************************)
(* Proofs about the store as a system of its own: the inductive invariant  *)
(* that its calls keep, by the lemmas of StoreLemmas, and what follows     *)
(* from it; and about the loops of StoreLoops: whichever way they walk     *)
(* their maps, they compute the closed forms the store is made of.         *)
(*                                                                         *)
(* A loop of the code is a recursive function from the turns taken to what *)
(* they have made of the store.  What such a function computes is shown by *)
(* the least turn after which it is not so (SmallestOf): no turn is.       *)
(***************************************************************************)
EXTENDS StoreLoops, StoreLemmas, WellFoundedInduction

\* The inductive invariant.  RefCountExact and IndexExact need no strengthening
\* of their own between calls: CountsExactly is the one that holds in the
\* middle of them.  PruneFloor needs that no time lies in the future.
IInv == Good(store, now) /\ now \in 0..MaxTime

LEMMA InitIInv == Init => IInv
BY EmptyStoreGood, CallsAssumption DEF Init, IInv

LEMMA NextIInv == IInv /\ [Next]_vars => IInv'
<1>. SUFFICES ASSUME IInv, [Next]_vars PROVE IInv'
  OBVIOUS
<1>0. /\ Good(store, now) /\ now \in Nat /\ now \in 0..MaxTime
      /\ ItemLists \subseteq Seq(ItemIds)
  BY CallsAssumption DEF IInv
<1>1. CASE Tick
  <2>1. now' \in 0..MaxTime /\ now' > now /\ store' = store
    BY <1>0, <1>1, CallsAssumption DEF Tick
  <2>. QED BY <1>0, <2>1, LaterGood DEF IInv
<1>2. CASE Prune
  BY <1>0, <1>2, PruneGood DEF Prune, IInv
<1>3. CASE PruneIfDue
  BY <1>0, <1>3, PruneGood DEF PruneIfDue, IInv
<1>4. ASSUME NEW key \in ResponseKey, NEW value \in Values, NEW context \in ItemLists,
             NEW output \in ItemLists, NEW current \in ItemLists, NEW keep \in BOOLEAN,
             NEW conversation \in {{}} \cup { {c} : c \in ConversationKey },
             DoSaveResponse(key, value, context, output, keep, conversation, current)
      PROVE  IInv'
  <2>1. context \in Seq(ItemIds) /\ output \in Seq(ItemIds) /\ current \in Seq(ItemIds)
    BY <1>0
  <2>2. Good(SaveResponse(store, key, value, context, output, keep, conversation, current, now), now)
    BY <1>0, <2>1, SaveResponseGood
  <2>. QED BY <1>0, <1>4, <2>2 DEF DoSaveResponse, IInv
<1>5. ASSUME NEW key \in ChatKey, NEW value \in Values, NEW messages \in ItemLists,
             DoSaveChatCompletion(key, value, messages)
      PROVE  IInv'
  <2>1. Good(SaveChatCompletion(store, key, value, messages, now), now)
    BY <1>0, SaveChatCompletionGood
  <2>. QED BY <1>0, <1>5, <2>1 DEF DoSaveChatCompletion, IInv
<1>6. ASSUME NEW key \in ConversationKey, NEW value \in Values, NEW items \in ItemLists,
             DoSaveConversation(key, value, items)
      PROVE  IInv'
  <2>1. Good(SaveConversation(store, key, value, items, now), now)
    BY <1>0, SaveConversationGood
  <2>. QED BY <1>0, <1>6, <2>1 DEF DoSaveConversation, IInv
<1>7. ASSUME NEW key \in Key, Read(key) PROVE IInv'
  BY <1>0, <1>7, ReadUpdateGood DEF Read, IInv
<1>8. ASSUME NEW key \in Key, NEW value \in Values, Update(key, value) PROVE IInv'
  BY <1>0, <1>8, ReadUpdateGood DEF Update, IInv
<1>9. ASSUME NEW key \in Key, Delete(key) PROVE IInv'
  BY <1>0, <1>9, DeleteGood DEF Delete, IInv
<1>10. CASE UNCHANGED vars
  BY <1>10 DEF vars, IInv
<1>. QED
  BY <1>1, <1>2, <1>3, <1>4, <1>5, <1>6, <1>7, <1>8, <1>9, <1>10 DEF Next

\* Between any two calls the store is in order.
THEOREM StoreInvariant == Spec => []IInv
BY InitIInv, NextIInv, PTL DEF Spec

\* The tables agree on what is live, every count is positive and no time lies
\* in the future, whatever the callers do.
THEOREM TypeCorrect == Spec => []TypeOK
<1>1. IInv => TypeOK
  BY DEF IInv, Good, Sound, Aged, TypeOK
<1>. QED BY <1>1, StoreInvariant, PTL

\* Every reference count is the number of stored slices the item occurs in:
\* no release is forgotten and none is made twice, for any number of objects
\* and items (addItemRefsLocked, releaseItemRefsLocked).
THEOREM CountsAreExact == Spec => []RefCountExact
<1>1. IInv => RefCountExact
  BY DEF IInv, Good, Sound, CountsExactly, RefCountExact
<1>. QED BY <1>1, StoreInvariant, PTL

\* An item can be referenced exactly as long as a stored Response or
\* Conversation holds it: it is neither lost early nor leaked.
THEOREM IndexIsExact == Spec => []IndexExact
<1>1. IInv => IndexExact
  BY IndexOfSound DEF IInv, Good, IndexExact
<1>. QED BY <1>1, StoreInvariant, PTL

\* What a stored object holds is always found in the index, so no reference to it
\* is refused.
THEOREM HeldStaysIndexed == Spec => []HeldIsIndexed
<1>1. IndexExact => HeldIsIndexed
  BY DEF IndexExact, HeldIsIndexed
<1>. QED BY <1>1, IndexIsExact, PTL

\* What a prune has found expired stays gone: no entry is older than the last
\* prune allows.
THEOREM PruneFloorHolds == Spec => []PruneFloor
<1>1. IInv => PruneFloor
  BY DEF IInv, Good, Aged, PruneFloor
<1>. QED BY <1>1, StoreInvariant, PTL

\* No request meets an entry that idled for TTL + PruneInterval, whichever calls
\* pruned before it and whatever reads kept entries young.
THEOREM IdleEntriesGo == Spec => []NothingIdleTooLong
<1>1. IInv => NothingIdleTooLong
  <2>. DEFINE met == pruneExpired(store, now, FALSE)
  <2>. SUFFICES ASSUME IInv, TTL # 0, NEW key \in Live(met)
                PROVE  LET idle == now - met.access[key]
                       IN  idle <= TTL \/ idle < TTL + PruneInterval
    BY DEF NothingIdleTooLong
  <2>1. /\ now \in Nat /\ Good(store, now)
        /\ TTL \in Nat /\ PruneInterval \in Nat
    BY CallsAssumption, LimitsAssumption DEF IInv
  <2>2. /\ Good(met, now)
        /\ met.lastPrune = IF pruneDue(store, now, FALSE) THEN now ELSE store.lastPrune
    BY <2>1, PruneGood, PruneStore DEF Good
  <2>. HIDE DEF met
  <2>3. met.access[key] \in Nat /\ store.lastPrune \in {Never} \cup Nat
    BY <2>1, <2>2 DEF Good, Sound, IsStore
  <2>4. met.lastPrune # Never => met.access[key] >= met.lastPrune - TTL
    BY <2>2 DEF Good, Aged
  <2>5. CASE pruneDue(store, now, FALSE)
    BY <2>1, <2>2, <2>3, <2>4, <2>5 DEF Never
  <2>6. CASE ~pruneDue(store, now, FALSE)
    <3>1. store.lastPrune # Never /\ now - store.lastPrune < PruneInterval
      BY <2>1, <2>3, <2>6 DEF pruneDue, Never
    <3>. QED BY <2>1, <2>2, <2>3, <2>4, <2>6, <3>1 DEF Never
  <2>. QED BY <2>5, <2>6
<1>. QED BY <1>1, StoreInvariant, PTL

\* The save-order slices list exactly the live entries, each once, through any
\* sequence of saves, overwrites, evictions, expiries and deletions.
THEOREM OrderStaysQueue == Spec => []OrderIsQueue
<1>1. IInv => OrderIsQueue
  BY DEF IInv, Good, Tables, QueueOf, OrderIsQueue
<1>. QED BY <1>1, StoreInvariant, PTL

\* No table outgrows its limit: eviction frees the place that a save needs.
THEOREM CapacityHolds == Spec => []CapacityRespected
<1>1. IInv => CapacityRespected
  BY DEF IInv, Good, Tables, Within, TableKinds, CapacityRespected
<1>. QED BY <1>1, StoreInvariant, PTL
-----------------------------------------------------------------------------
(* Why entries disappear.                                                  *)

\* RemovedForAReason of one call, at time t, that makes r out of s.
Reason(s, r, k, t) ==
  \/ TTL # 0 /\ s.access[k] < t - TTL
  \/ r = delete(s, k)
  \/ /\ \E new \in Live(r) \ Live(s) : Kind(new) = Kind(k)
     /\ Cardinality(OfKind(Live(r), Kind(k))) = Limit(Kind(k))
     /\ NotAfter(s, k) \cap Live(r) = {}

\* A save first prunes.  What it then evicts was the first of the queue, and was
\* so before the prune: a full table after the prune is one that lost nothing.
LEMMA SaveReason ==
  ASSUME NEW s, NEW t \in Nat, Good(s, t), NEW key \in Key, NEW keep \in BOOLEAN, NEW r,
         RoomFor(s, r, keep, key, t), NEW k \in Live(s) \ Live(r)
  PROVE  Reason(s, r, k, t)
<1>. DEFINE p == pruneExpired(s, t, FALSE)
            kind == Kind(key)
<1>0. IsStore(s) /\ Tables(s) /\ kind \in TableKinds
  <2>1. kind \in TableKinds
    BY DEF Key, ResponseKey, ChatKey, ConversationKey, Kind, TableKinds
  <2>. QED BY <2>1 DEF Good, Sound
<1>1. PICK D : /\ Without(s, p, D)
               /\ \A x \in Live(s) \cap D : TTL # 0 /\ s.access[x] < t - TTL
  BY PruneTakes DEF Good
<1>. HIDE DEF p
<1>2. CASE k \in D
  BY <1>1, <1>2 DEF Reason
<1>3. CASE k \notin D
  <2>1. Live(p) = Live(s) \ D /\ k \in Live(p) /\ \A q \in p.before : q \in s.before
    BY <1>1, <1>3 DEF Without
  <2>2. MadeRoom(p, r, key)
    <3>1. CASE keep
      BY <3>1 DEF RoomFor, p
    <3>2. CASE ~keep
      <4>1. Live(r) = Live(p)
        BY <3>2 DEF RoomFor, p
      <4>. QED BY <2>1, <4>1
    <3>. QED BY <3>1, <3>2
  <2>3. /\ Kind(k) = kind /\ key \notin Live(p) /\ key \in Live(r)
        /\ Live(r) \subseteq Live(p) \cup {key}
        /\ Cardinality(OfKind(Live(p), kind)) = Limit(kind)
        /\ Cardinality(OfKind(Live(r), kind)) = Limit(kind)
        /\ \A y \in OfKind(Live(p), kind) : y \in Live(r) => <<k, y>> \in p.before
    BY <2>1, <2>2 DEF MadeRoom
  <2>4. OfKind(Live(s), kind) = OfKind(Live(p), kind)
    <3>. DEFINE S == OfKind(Live(s), kind)
                P == OfKind(Live(p), kind)
    <3>1. IsFiniteSet(S) /\ P \in SUBSET S /\ Cardinality(S) \in Nat
      <4>1. P \in SUBSET S
        BY <2>1 DEF OfKind
      <4>2. IsFiniteSet(Live(s)) /\ Live(s) \in SUBSET Live(s)
        BY <1>0 DEF IsStore
      <4>3. IsFiniteSet(S) /\ Cardinality(S) \in Nat
        BY <4>2, OfKindSmaller
      <4>. QED BY <4>1, <4>3
    <3>2. P # {} /\ IsFiniteSet(P)
      BY <2>1, <2>3, <3>1, FS_Subset DEF OfKind
    <3>3. Limit(kind) # 0 /\ Limit(kind) \in Nat /\ Cardinality(S) <= Limit(kind)
      <4>1. Cardinality(P) # 0
        BY <3>2, FS_EmptySet
      <4>2. Limit(kind) # 0
        BY <2>3, <4>1
      <4>3. Within(s, kind)
        BY <1>0 DEF Tables
      <4>. QED BY <4>2, <4>3, LimitType DEF Within
    <3>4. Cardinality(P) <= Cardinality(S) /\ (Cardinality(S) = Cardinality(P) => S = P)
      <4>. HIDE DEF S, P
      <4>. QED BY <3>1, FS_Subset
    <3>. HIDE DEF S, P, kind
    <3>5. Cardinality(P) = Limit(kind)
      BY <2>3 DEF P
    <3>. QED BY <3>1, <3>3, <3>4, <3>5 DEF S, P
  <2>5. key \in Live(r) \ Live(s)
    <3>1. key \notin OfKind(Live(p), kind)
      BY <2>3 DEF OfKind
    <3>. QED BY <2>3, <2>4, <3>1 DEF OfKind
  <2>6. NotAfter(s, k) \cap Live(r) = {}
    <3>1. ASSUME NEW y \in OfKind(Live(s), Kind(k)), y \in Live(r) PROVE <<k, y>> \in s.before
      BY <2>1, <2>3, <2>4, <3>1
    <3>. QED BY <3>1 DEF NotAfter
  <2>. QED BY <2>3, <2>5, <2>6 DEF Reason
<1>. QED BY <1>2, <1>3

LEMMA SaveResponseRoom ==
  ASSUME NEW s, NEW t \in Nat, Good(s, t), NEW key \in ResponseKey, NEW value \in Values,
         NEW context \in Seq(ItemIds), NEW output \in Seq(ItemIds), NEW keep \in BOOLEAN,
         NEW conversation \in {{}} \cup { {c} : c \in ConversationKey },
         NEW current \in Seq(ItemIds), NEW r,
         r = SaveResponse(s, key, value, context, output, keep, conversation, current, t)
  PROVE  RoomFor(s, r, keep, key, t)
BY SaveResponseGood

LEMMA NextReason ==
  ASSUME IInv, [Next]_vars, NEW k \in Live(store) \ Live(store')
  PROVE  Reason(store, store', k, now)
<1>0. /\ Good(store, now) /\ now \in Nat
      /\ ItemLists \subseteq Seq(ItemIds)
  BY CallsAssumption DEF IInv
<1>1. CASE Tick
  BY <1>1 DEF Tick
<1>2. CASE Prune \/ PruneIfDue
  <2>1. PICK force \in BOOLEAN : store' = pruneExpired(store, now, force)
    BY <1>2 DEF Prune, PruneIfDue
  <2>2. PICK D : /\ Without(store, store', D)
                 /\ \A x \in Live(store) \cap D : TTL # 0 /\ store.access[x] < now - TTL
    BY <1>0, <2>1, PruneTakes DEF Good
  <2>. QED BY <2>2 DEF Without, Reason
<1>4. ASSUME NEW key \in ResponseKey, NEW value \in Values, NEW context \in ItemLists,
             NEW output \in ItemLists, NEW current \in ItemLists, NEW keep \in BOOLEAN,
             NEW conversation \in {{}} \cup { {c} : c \in ConversationKey },
             DoSaveResponse(key, value, context, output, keep, conversation, current)
      PROVE  Reason(store, store', k, now)
  <2>1. context \in Seq(ItemIds) /\ output \in Seq(ItemIds) /\ current \in Seq(ItemIds)
    BY <1>0
  <2>2. store' = SaveResponse(store, key, value, context, output, keep, conversation, current, now)
    BY <1>4 DEF DoSaveResponse
  <2>3. RoomFor(store, store', keep, key, now)
    BY <1>0, <2>1, <2>2, SaveResponseRoom
  <2>4. key \in Key
    BY KeyKinds
  <2>. QED BY <1>0, <2>3, <2>4, SaveReason
<1>5. ASSUME NEW key \in ChatKey, NEW value \in Values, NEW messages \in ItemLists,
             DoSaveChatCompletion(key, value, messages)
      PROVE  Reason(store, store', k, now)
  <2>1. RoomFor(store, SaveChatCompletion(store, key, value, messages, now), TRUE, key, now)
    BY <1>0, SaveChatCompletionGood
  <2>2. key \in Key /\ RoomFor(store, store', TRUE, key, now)
    BY <1>5, <2>1, KeyKinds DEF DoSaveChatCompletion
  <2>. QED BY <1>0, <2>2, SaveReason
<1>6. ASSUME NEW key \in ConversationKey, NEW value \in Values, NEW items \in ItemLists,
             DoSaveConversation(key, value, items)
      PROVE  Reason(store, store', k, now)
  <2>1. RoomFor(store, SaveConversation(store, key, value, items, now), TRUE, key, now)
    BY <1>0, SaveConversationGood
  <2>2. key \in Key /\ RoomFor(store, store', TRUE, key, now)
    BY <1>6, <2>1, KeyKinds DEF DoSaveConversation
  <2>. QED BY <1>0, <2>2, SaveReason
<1>7. ASSUME NEW key \in Key, Read(key) PROVE Reason(store, store', k, now)
  BY <1>0, <1>7, ReadStore DEF Read, Good
<1>8. ASSUME NEW key \in Key, NEW value \in Values, Update(key, value)
      PROVE  Reason(store, store', k, now)
  BY <1>0, <1>8, UpdateStore DEF Update, Good
<1>9. ASSUME NEW key \in Key, Delete(key) PROVE Reason(store, store', k, now)
  <2>1. store' = delete(store, key)
    BY <1>9 DEF Delete
  <2>2. Live(store') = Live(store) \ {key}
    BY <1>0, <2>1, DeleteFrame DEF Good
  <2>3. k = key
    BY <2>2
  <2>. QED BY <2>1, <2>3 DEF Reason
<1>10. CASE UNCHANGED vars
  BY <1>10 DEF vars
<1>. QED
  BY <1>1, <1>2, <1>4, <1>5, <1>6, <1>7, <1>8, <1>9, <1>10 DEF Next

\* An entry disappears by idling, by name, or as the first of a full queue to a
\* new entry: nothing else a call does can lose one (README.md:436).
THEOREM RemovalsHaveReasons == Spec => RemovedForAReason
<1>1. IInv /\ [Next]_vars =>
        \A key \in Live(store) \ Live(store)' :
          \/ TTL # 0 /\ store.access[key] < now - TTL
          \/ store' = delete(store, key)
          \/ /\ \E new \in Live(store)' \ Live(store) : Kind(new) = Kind(key)
             /\ Cardinality(OfKind(Live(store)', Kind(key))) = Limit(Kind(key))
             /\ NotAfter(store, key) \cap Live(store)' = {}
  BY NextReason DEF Reason, Live
<1>. QED BY <1>1, StoreInvariant, PTL DEF Spec, RemovedForAReason

-----------------------------------------------------------------------------
(* Walks of a set, and the numbers of their steps.                         *)

\* A set of natural numbers that is not empty has a least element.
LEMMA SmallestOf ==
  ASSUME NEW S, S \subseteq Nat, S # {}
  PROVE  \E n \in S : \A m \in S : n <= m
<1>1. \E R : IsWellFoundedOn(R, Nat) /\ \A m \in Nat, n \in Nat : m < n => <<m, n>> \in R
  <2>1. IsWellFoundedOn(OpToRel(<, Nat), Nat)
    BY NatLessThanWellFounded
  <2>2. \A m \in Nat, n \in Nat : m < n => <<m, n>> \in OpToRel(<, Nat)
    BY DEF OpToRel
  <2>. QED BY <2>1, <2>2, Zenon
<1>2. PICK R : IsWellFoundedOn(R, Nat) /\ \A m \in Nat, n \in Nat : m < n => <<m, n>> \in R
  BY <1>1
<1>3. IsWellFoundedOn(R, Nat)
  BY <1>2
<1>4. \E n \in S : \A m \in S : ~ (<<m, n>> \in R)
  BY <1>3, WFMin, Zenon
<1>5. PICK n \in S : \A m \in S : ~ (<<m, n>> \in R)
  BY <1>4
<1>6. \A m \in S : m \in Nat /\ n \in Nat /\ ~(m < n)
  BY <1>2, <1>5
<1>. QED BY <1>6

\* walk passes every element of S once.
Walks(walk, S) ==
  /\ walk \in Seq(S)
  /\ \A m, n \in 1..Len(walk) : m # n => walk[m] # walk[n]
  /\ { walk[n] : n \in 1..Len(walk) } = S

LEMMA WalkLength ==
  ASSUME NEW S, NEW walk, Walks(walk, S)
  PROVE  IsFiniteSet(S) /\ Cardinality(S) = Len(walk)
<1>1. walk \in Seq(S) /\ Len(walk) \in Nat
  BY DEF Walks
<1>2. walk \in [1..Len(walk) -> S]
  BY <1>1
<1>3. walk \in Bijection(1..Len(walk), S)
  BY <1>2 DEF Walks, Bijection, Injection, IsInjective, Surjection
<1>4. ExistsBijection(1..Len(walk), S)
  BY <1>3 DEF ExistsBijection
<1>. QED BY <1>1, <1>4, FS_NatBijection, FS_CountingElements

LEMMA SetToSeqsWalk ==
  ASSUME NEW S, IsFiniteSet(S), NEW walk \in SetToSeqs(S)
  PROVE  Walks(walk, S)
<1>. DEFINE N == Cardinality(S)
<1>1. N \in Nat
  BY FS_CardinalityType
<1>2. walk \in [1..N -> S] /\ \A i, j \in 1..N : i # j => walk[i] # walk[j]
  BY DEF SetToSeqs
<1>. HIDE DEF N
<1>3. walk \in Seq(S) /\ Len(walk) = N
  BY <1>1, <1>2
<1>4. Cardinality(1..N) = N /\ IsFiniteSet(1..N)
  BY <1>1, FS_Interval
<1>5. walk \in Injection(1..N, S)
  BY <1>2 DEF Injection, IsInjective
<1>6. walk \in Surjection(1..N, S)
  <2>1. Cardinality(1..N) = Cardinality(S)
    BY <1>4 DEF N
  <2>. QED BY <1>5, <2>1, FS_Injection
<1>7. { walk[n] : n \in 1..N } = S
  BY <1>2, <1>6 DEF Surjection
<1>. QED BY <1>2, <1>3, <1>7 DEF Walks, N

LEMMA SetToSeqWalk ==
  ASSUME NEW S, IsFiniteSet(S)
  PROVE  Walks(SetToSeq(S), S)
<1>. DEFINE N == Cardinality(S)
<1>1. ExistsBijection(1..N, S)
  BY FS_CardinalityType
<1>. HIDE DEF N
<1>2. \E f \in [1..N -> S] : IsInjective(f)
  BY <1>1 DEF ExistsBijection, Bijection, Injection
<1>3. SetToSeq(S) \in [1..N -> S] /\ IsInjective(SetToSeq(S))
  BY <1>2 DEF SetToSeq, N
<1>4. SetToSeq(S) \in SetToSeqs(S)
  <2>. DEFINE f == SetToSeq(S)
  <2>1. f \in [1..N -> S] /\ IsInjective(f)
    BY <1>3
  <2>. HIDE DEF f
  <2>2. f \in { g \in [1..N -> S] : \A i, j \in 1..N : i # j => g[i] # g[j] }
    BY <2>1 DEF IsInjective
  <2>. QED BY <2>2 DEF SetToSeqs, N, f
<1>. QED BY <1>4, SetToSeqsWalk

\* The elements a walk has passed after n steps.
Passed(walk, n) == { walk[m] : m \in 1..n }

LEMMA PassOne ==
  ASSUME NEW S, NEW walk, Walks(walk, S), NEW n \in 1..Len(walk)
  PROVE  /\ walk[n] \in S /\ walk[n] \notin Passed(walk, n - 1)
         /\ Passed(walk, n) = Passed(walk, n - 1) \cup {walk[n]}
         /\ Passed(walk, n - 1) \subseteq S
<1>1. walk \in Seq(S) /\ Len(walk) \in Nat
  BY DEF Walks
<1>2. \A m \in 1..Len(walk) : walk[m] \in S
  BY <1>1
<1>3. \A m \in 1..(n - 1) : m \in 1..Len(walk) /\ m # n
  BY <1>1
<1>4. \A m \in 1..(n - 1) : walk[m] # walk[n]
  BY <1>3 DEF Walks
<1>5. 1..n = (1..(n - 1)) \cup {n}
  BY <1>1
<1>. QED BY <1>2, <1>3, <1>4, <1>5 DEF Passed

LEMMA PassAll ==
  ASSUME NEW S, NEW walk, Walks(walk, S)
  PROVE  Passed(walk, 0) = {} /\ Passed(walk, Len(walk)) = S
<1>1. 1..0 = {}
  OBVIOUS
<1>. QED BY <1>1 DEF Passed, Walks

-----------------------------------------------------------------------------
(* References let go of, one at a time and all at once.                    *)

\* c has counts to let go of; c may be a store or what the loops work on.
Counts(c) ==
  /\ c = [f \in DOMAIN c |-> c[f]]
  /\ "itemRefCount" \in DOMAIN c /\ "ItemsByID" \in DOMAIN c
  /\ DOMAIN c.itemRefCount \subseteq ItemIds
  /\ c.itemRefCount \in [DOMAIN c.itemRefCount -> Nat \ {0}]

\* r is c after item i has lost lost[i] references: what loses as many as it is
\* counted for leaves the counts and the index.
Lessened(c, r, lost) ==
  LET gone == { i \in ItemIds : lost[i] > 0 /\ RefCount(c, i) <= lost[i] }
  IN  /\ DOMAIN r = DOMAIN c /\ r = [f \in DOMAIN r |-> r[f]]
      /\ r.ItemsByID = c.ItemsByID \ gone
      /\ r.itemRefCount = [i \in DOMAIN c.itemRefCount \ gone |-> c.itemRefCount[i] - lost[i]]
      /\ \A f \in DOMAIN c \ {"itemRefCount", "ItemsByID"} : r[f] = c[f]

LEMMA LessenedIsOne ==
  ASSUME NEW c, NEW r, NEW q, NEW lost, Lessened(c, r, lost), Lessened(c, q, lost)
  PROVE  r = q
<1>1. DOMAIN r = DOMAIN q /\ r = [f \in DOMAIN r |-> r[f]] /\ q = [f \in DOMAIN q |-> q[f]]
  BY DEF Lessened
<1>2. \A f \in DOMAIN r : r[f] = q[f]
  BY DEF Lessened
<1>. QED BY <1>1, <1>2

\* What is counted for after a loss.
LEMMA LessenedCounts ==
  ASSUME NEW c, Counts(c), NEW lost \in [ItemIds -> Nat], NEW r, Lessened(c, r, lost)
  PROVE  /\ Counts(r)
         /\ \A i \in ItemIds : /\ RefCount(c, i) \in Nat
                               /\ RefCount(r, i) = IF RefCount(c, i) <= lost[i] THEN 0
                                                   ELSE RefCount(c, i) - lost[i]
<1>. DEFINE gone == { i \in ItemIds : lost[i] > 0 /\ RefCount(c, i) <= lost[i] }
<1>1. /\ DOMAIN r = DOMAIN c /\ r = [f \in DOMAIN r |-> r[f]]
      /\ r.itemRefCount = [i \in DOMAIN c.itemRefCount \ gone |-> c.itemRefCount[i] - lost[i]]
  BY DEF Lessened
<1>2. \A i \in ItemIds : lost[i] \in Nat
  OBVIOUS
<1>3. \A i \in ItemIds : i \in gone <=> lost[i] > 0 /\ RefCount(c, i) <= lost[i]
  OBVIOUS
<1>. HIDE DEF gone
<1>4. \A i \in DOMAIN c.itemRefCount :
        /\ i \in ItemIds /\ c.itemRefCount[i] = RefCount(c, i)
        /\ RefCount(c, i) \in Nat /\ RefCount(c, i) > 0
  BY DEF Counts, RefCount
<1>5. \A i \in ItemIds \ DOMAIN c.itemRefCount : RefCount(c, i) = 0
  BY DEF RefCount
<1>6. DOMAIN r.itemRefCount = DOMAIN c.itemRefCount \ gone
  BY <1>1
<1>7. \A i \in DOMAIN r.itemRefCount : r.itemRefCount[i] = RefCount(c, i) - lost[i]
  BY <1>1, <1>4, <1>6
<1>8. \A i \in DOMAIN r.itemRefCount : RefCount(c, i) - lost[i] \in Nat \ {0}
  BY <1>2, <1>3, <1>4, <1>6
<1>9. Counts(r)
  <2>1. r.itemRefCount \in [DOMAIN r.itemRefCount -> Nat \ {0}]
    BY <1>1, <1>6, <1>7, <1>8
  <2>. QED BY <1>1, <1>6, <2>1 DEF Counts
<1>10. ASSUME NEW i \in ItemIds
       PROVE  /\ RefCount(c, i) \in Nat
              /\ RefCount(r, i) = IF RefCount(c, i) <= lost[i] THEN 0 ELSE RefCount(c, i) - lost[i]
  <2>1. CASE i \in DOMAIN r.itemRefCount
    <3>1. RefCount(r, i) = RefCount(c, i) - lost[i]
      BY <1>7, <2>1 DEF RefCount
    <3>2. RefCount(c, i) \in Nat /\ lost[i] \in Nat /\ RefCount(c, i) - lost[i] \in Nat \ {0}
      BY <1>2, <1>4, <1>6, <1>8, <2>1
    <3>. QED BY <3>1, <3>2
  <2>2. CASE i \notin DOMAIN r.itemRefCount
    <3>1. RefCount(r, i) = 0
      BY <2>2 DEF RefCount
    <3>2. RefCount(c, i) \in Nat /\ RefCount(c, i) <= lost[i]
      <4>1. CASE i \in DOMAIN c.itemRefCount
        BY <1>3, <1>4, <1>6, <2>2, <4>1
      <4>2. CASE i \notin DOMAIN c.itemRefCount
        BY <1>2, <1>5, <4>2
      <4>. QED BY <4>1, <4>2
    <3>. QED BY <3>1, <3>2
  <2>. QED BY <2>1, <2>2
<1>. QED BY <1>9, <1>10

\* Two losses are one.
LEMMA LessenedTwice ==
  ASSUME NEW c, Counts(c), NEW a \in [ItemIds -> Nat], NEW b \in [ItemIds -> Nat],
         NEW both \in [ItemIds -> Nat], \A i \in ItemIds : both[i] = a[i] + b[i],
         NEW m, Lessened(c, m, a), NEW r, Lessened(m, r, b)
  PROVE  Lessened(c, r, both)
<1>. DEFINE goneA == { i \in ItemIds : a[i] > 0 /\ RefCount(c, i) <= a[i] }
            goneB == { i \in ItemIds : b[i] > 0 /\ RefCount(m, i) <= b[i] }
            gone == { i \in ItemIds : both[i] > 0 /\ RefCount(c, i) <= both[i] }
<1>1. /\ DOMAIN r = DOMAIN c /\ r = [f \in DOMAIN r |-> r[f]]
      /\ \A f \in DOMAIN c \ {"itemRefCount", "ItemsByID"} : r[f] = c[f]
  BY DEF Lessened
<1>2. /\ m.ItemsByID = c.ItemsByID \ goneA
      /\ m.itemRefCount = [i \in DOMAIN c.itemRefCount \ goneA |-> c.itemRefCount[i] - a[i]]
      /\ r.ItemsByID = m.ItemsByID \ goneB
      /\ r.itemRefCount = [i \in DOMAIN m.itemRefCount \ goneB |-> m.itemRefCount[i] - b[i]]
  BY DEF Lessened
<1>3. ASSUME NEW i \in ItemIds PROVE i \in gone <=> i \in goneA \/ i \in goneB
  <2>1. /\ a[i] \in Nat /\ b[i] \in Nat /\ both[i] = a[i] + b[i] /\ RefCount(c, i) \in Nat
        /\ RefCount(m, i) = IF RefCount(c, i) <= a[i] THEN 0 ELSE RefCount(c, i) - a[i]
    BY LessenedCounts
  <2>2. \A x, y, z \in Nat :
          x + y > 0 /\ z <= x + y
            <=> (x > 0 /\ z <= x) \/ (y > 0 /\ (IF z <= x THEN 0 ELSE z - x) <= y)
    OBVIOUS
  <2>3. a[i] + b[i] > 0 /\ RefCount(c, i) <= a[i] + b[i]
          <=> (a[i] > 0 /\ RefCount(c, i) <= a[i]) \/ (b[i] > 0 /\ RefCount(m, i) <= b[i])
    BY <2>1, <2>2
  <2>. QED BY <2>1, <2>3
<1>4. gone = goneA \cup goneB
  BY <1>3
<1>5. \A i \in DOMAIN c.itemRefCount :
         c.itemRefCount[i] \in Nat /\ a[i] \in Nat /\ b[i] \in Nat /\ both[i] = a[i] + b[i]
  BY DEF Counts
<1>. HIDE DEF goneA, goneB, gone
<1>6. r.ItemsByID = c.ItemsByID \ gone
  BY <1>2, <1>4
<1>7. DOMAIN m.itemRefCount \ goneB = DOMAIN c.itemRefCount \ gone
  BY <1>2, <1>4
<1>8. \A i \in DOMAIN c.itemRefCount \ gone : m.itemRefCount[i] - b[i] = c.itemRefCount[i] - both[i]
  BY <1>2, <1>4, <1>5
<1>9. r.itemRefCount = [i \in DOMAIN c.itemRefCount \ gone |-> c.itemRefCount[i] - both[i]]
  BY <1>2, <1>7, <1>8
<1>. QED BY <1>1, <1>6, <1>9 DEF Lessened, gone

LEMMA LessenedByNothing ==
  ASSUME NEW c, Counts(c), NEW lost \in [ItemIds -> Nat], \A i \in ItemIds : lost[i] = 0
  PROVE  Lessened(c, c, lost)
<1>. DEFINE gone == { i \in ItemIds : lost[i] > 0 /\ RefCount(c, i) <= lost[i] }
<1>1. gone = {}
  OBVIOUS
<1>. HIDE DEF gone
<1>2. c.itemRefCount = [i \in DOMAIN c.itemRefCount \ gone |-> c.itemRefCount[i] - lost[i]]
  <2>1. \A i \in DOMAIN c.itemRefCount : c.itemRefCount[i] - lost[i] = c.itemRefCount[i]
    BY DEF Counts
  <2>2. c.itemRefCount = [i \in DOMAIN c.itemRefCount |-> c.itemRefCount[i]]
    BY DEF Counts
  <2>. QED BY <1>1, <2>1, <2>2
<1>3. c.ItemsByID = c.ItemsByID \ gone
  BY <1>1
<1>. QED BY <1>2, <1>3 DEF Lessened, gone, Counts

\* One turn of the loop of releaseItemRefsLocked.
LEMMA ReleaseOneLessens ==
  ASSUME NEW c, Counts(c), NEW id \in ItemIds, NEW lost \in [ItemIds -> Nat],
         \A i \in ItemIds : lost[i] = IF i = id THEN 1 ELSE 0
  PROVE  Lessened(c, releaseOne(c, id), lost)
<1>. DEFINE r == releaseOne(c, id)
            gone == { i \in ItemIds : lost[i] > 0 /\ RefCount(c, i) <= lost[i] }
<1>1. \A i \in DOMAIN c.itemRefCount : c.itemRefCount[i] \in Nat /\ i \in ItemIds
  BY DEF Counts
<1>2. \A i \in ItemIds : lost[i] > 0 <=> i = id
  OBVIOUS
<1>3. lost[id] = 1
  OBVIOUS
<1>4. CASE RefCount(c, id) <= 1
  <2>1. gone = {id}
    BY <1>2, <1>3, <1>4
  <2>2. /\ DOMAIN r = DOMAIN c /\ r = [f \in DOMAIN r |-> r[f]]
        /\ r.itemRefCount = Restrict(c.itemRefCount, DOMAIN c.itemRefCount \ {id})
        /\ r.ItemsByID = c.ItemsByID \ {id}
        /\ \A f \in DOMAIN c \ {"itemRefCount", "ItemsByID"} : r[f] = c[f]
    BY <1>4 DEF releaseOne, Counts
  <2>. HIDE DEF r, gone
  <2>3. \A i \in DOMAIN c.itemRefCount \ {id} : c.itemRefCount[i] - lost[i] = c.itemRefCount[i]
    BY <1>1
  <2>4. r.itemRefCount = [i \in DOMAIN c.itemRefCount \ gone |-> c.itemRefCount[i] - lost[i]]
    BY <2>1, <2>2, <2>3 DEF Restrict
  <2>. QED BY <2>1, <2>2, <2>4 DEF Lessened, r, gone
<1>5. CASE ~(RefCount(c, id) <= 1)
  <2>1. gone = {}
    BY <1>2, <1>3, <1>5
  <2>2. id \in DOMAIN c.itemRefCount
    BY <1>5 DEF RefCount
  <2>3. /\ DOMAIN r = DOMAIN c /\ r = [f \in DOMAIN r |-> r[f]]
        /\ r.itemRefCount = [c.itemRefCount EXCEPT ![id] = @ - 1]
        /\ r.ItemsByID = c.ItemsByID
        /\ \A f \in DOMAIN c \ {"itemRefCount", "ItemsByID"} : r[f] = c[f]
    BY <1>5 DEF releaseOne, Counts
  <2>. HIDE DEF r, gone
  <2>4. c.itemRefCount = [i \in DOMAIN c.itemRefCount |-> c.itemRefCount[i]]
    BY DEF Counts
  <2>5. \A i \in DOMAIN c.itemRefCount :
          (IF i = id THEN c.itemRefCount[i] - 1 ELSE c.itemRefCount[i]) = c.itemRefCount[i] - lost[i]
    BY <1>1
  <2>6. r.itemRefCount = [i \in DOMAIN c.itemRefCount \ gone |-> c.itemRefCount[i] - lost[i]]
    BY <2>1, <2>3, <2>4, <2>5
  <2>. QED BY <2>1, <2>3, <2>6 DEF Lessened, r, gone
<1>. QED BY <1>4, <1>5

\* f says what the loop over walk has made of c after each of n turns.
Releases(f, c, walk, n) ==
  f = [k \in 0..n |-> IF k = 0 THEN c ELSE releaseOne(f[k - 1], walk[k])]

LEMMA ReleasesExtend ==
  ASSUME NEW c, NEW walk, NEW n \in Nat, NEW f, Releases(f, c, walk, n)
  PROVE  \E g : Releases(g, c, walk, n + 1)
<1>. DEFINE e(k) == IF k = 0 THEN c ELSE releaseOne(f[k - 1], walk[k])
            g == [k \in 0..(n + 1) |-> e(k)]
<1>1. \A k \in 0..n : g[k] = f[k]
  BY DEF Releases
<1>2. \A k \in 0..(n + 1) : k # 0 => g[k - 1] = f[k - 1]
  <2>1. \A k \in 0..(n + 1) : k # 0 => k - 1 \in 0..n
    OBVIOUS
  <2>. HIDE DEF g
  <2>. QED BY <1>1, <2>1
<1>3. \A k \in 0..(n + 1) : e(k) = IF k = 0 THEN c ELSE releaseOne(g[k - 1], walk[k])
  BY <1>2
<1>4. g = [k \in 0..(n + 1) |-> IF k = 0 THEN c ELSE releaseOne(g[k - 1], walk[k])]
  BY <1>3
<1>. QED BY <1>4 DEF Releases

LEMMA ReleasesExist ==
  ASSUME NEW c, NEW walk, NEW n \in Nat PROVE \E f : Releases(f, c, walk, n)
<1>. DEFINE Bad == { k \in Nat : ~ \E f : Releases(f, c, walk, k) }
<1>. SUFFICES ASSUME Bad # {} PROVE FALSE
  OBVIOUS
<1>1. PICK k \in Bad : \A j \in Bad : k <= j
  BY SmallestOf
<1>2. CASE k = 0
  <2>. DEFINE f == [j \in 0..0 |-> c]
  <2>1. f = [j \in 0..0 |-> IF j = 0 THEN c ELSE releaseOne(f[j - 1], walk[j])]
    OBVIOUS
  <2>. QED BY <1>1, <1>2, <2>1 DEF Releases
<1>3. CASE k # 0
  <2>1. k - 1 \in Nat /\ k - 1 \notin Bad /\ (k - 1) + 1 = k
    BY <1>1, <1>3
  <2>2. PICK f : Releases(f, c, walk, k - 1)
    BY <2>1
  <2>3. \E g : Releases(g, c, walk, k)
    BY <2>1, <2>2, ReleasesExtend
  <2>. QED BY <1>1, <2>3
<1>. QED BY <1>2, <1>3

\* releaseItemRefsLocked takes one reference from each of the ids, in whatever
\* order it meets them.
LEMMA ReleaseWalkLessens ==
  ASSUME NEW c, Counts(c), NEW ids \in SUBSET ItemIds, NEW walk, Walks(walk, ids),
         NEW lost \in [ItemIds -> Nat], \A i \in ItemIds : lost[i] = IF i \in ids THEN 1 ELSE 0
  PROVE  Lessened(c, releaseWalk(c, walk), lost)
<1>. DEFINE N == Len(walk)
            F == CHOOSE f : f = [n \in 0..N |->
                                   IF n = 0 THEN c ELSE releaseOne(f[n - 1], walk[n])]
            one(S) == [i \in ItemIds |-> IF i \in S THEN 1 ELSE 0]
            Bad == { n \in 0..N : ~Lessened(c, F[n], one(Passed(walk, n))) }
<1>1. Walks(walk, ids)
  OBVIOUS
<1>2. N \in Nat
  BY <1>1 DEF Walks
<1>3. releaseWalk(c, walk) = F[N]
  BY DEF releaseWalk
<1>4. F = [n \in 0..N |-> IF n = 0 THEN c ELSE releaseOne(F[n - 1], walk[n])]
  <2>. HIDE DEF N
  <2>1. PICK f : Releases(f, c, walk, N)
    BY <1>2, ReleasesExist
  <2>2. f = [n \in 0..N |-> IF n = 0 THEN c ELSE releaseOne(f[n - 1], walk[n])]
    BY <2>1 DEF Releases
  <2>. QED BY <2>2
<1>. HIDE DEF F, N
<1>5. \A S : one(S) \in [ItemIds -> Nat] /\ \A i \in ItemIds : one(S)[i] = IF i \in S THEN 1 ELSE 0
  OBVIOUS
<1>. HIDE DEF one
<1>6. Bad = {}
  <2>. SUFFICES ASSUME Bad # {} PROVE FALSE
    OBVIOUS
  <2>0. Bad \subseteq Nat
    BY <1>2
  <2>1. PICK n \in Bad : \A m \in Bad : n <= m
    <3>. HIDE DEF Bad
    <3>. QED BY <2>0, SmallestOf
  <2>2. n \in 0..N /\ ~Lessened(c, F[n], one(Passed(walk, n)))
    BY <2>1
  <2>3. CASE n = 0
    <3>1. F[0] = c
      BY <1>2, <1>4
    <3>2. \A i \in ItemIds : one(Passed(walk, 0))[i] = 0
      BY <1>1, <1>5, PassAll
    <3>3. Lessened(c, c, one(Passed(walk, 0)))
      BY <1>5, <3>2, LessenedByNothing
    <3>. QED BY <2>2, <2>3, <3>1, <3>3
  <2>4. CASE n # 0
    <3>1. n - 1 \in 0..N /\ ~(n <= n - 1) /\ n \in 1..N
      BY <1>2, <2>2, <2>4
    <3>2. n - 1 \notin Bad
      <4>. HIDE DEF Bad
      <4>. QED BY <2>1, <3>1
    <3>3. Lessened(c, F[n - 1], one(Passed(walk, n - 1)))
      BY <3>1, <3>2
    <3>4. F[n] = releaseOne(F[n - 1], walk[n])
      BY <1>2, <1>4, <2>2, <2>4
    <3>5. /\ walk[n] \in ids /\ walk[n] \notin Passed(walk, n - 1)
          /\ Passed(walk, n) = Passed(walk, n - 1) \cup {walk[n]}
      BY <1>1, <3>1, PassOne DEF N
    <3>. HIDE DEF Bad
    <3>6. Counts(F[n - 1])
      BY <1>5, <3>3, LessenedCounts
    <3>7. Lessened(F[n - 1], releaseOne(F[n - 1], walk[n]), one({walk[n]}))
      <4>1. walk[n] \in ItemIds /\ one({walk[n]}) \in [ItemIds -> Nat]
        BY <1>5, <3>5
      <4>2. \A i \in ItemIds : one({walk[n]})[i] = IF i = walk[n] THEN 1 ELSE 0
        BY <1>5
      <4>. QED BY <3>6, <4>1, <4>2, ReleaseOneLessens
    <3>8. \A i \in ItemIds : one(Passed(walk, n))[i]
                               = one(Passed(walk, n - 1))[i] + one({walk[n]})[i]
      BY <1>5, <3>5
    <3>9. Lessened(c, F[n], one(Passed(walk, n)))
      BY <1>5, <3>3, <3>4, <3>7, <3>8, LessenedTwice
    <3>. QED BY <2>2, <3>9
  <2>. QED BY <2>3, <2>4
<1>7. Lessened(c, F[N], one(ids))
  <2>1. N \in 0..N /\ Passed(walk, N) = ids
    BY <1>1, <1>2, PassAll DEF N
  <2>. QED BY <1>6, <2>1
<1>8. one(ids) = lost
  BY <1>5
<1>. QED BY <1>3, <1>7, <1>8

\* Go's order of the map of ids makes no difference to what is left.
LEMMA ReleaseOrderIsFree ==
  ASSUME NEW c, Counts(c), NEW ids \in SUBSET ItemIds,
         NEW walk, Walks(walk, ids), NEW other, Walks(other, ids)
  PROVE  releaseWalk(c, walk) = releaseWalk(c, other)
<1>. DEFINE lost == [i \in ItemIds |-> IF i \in ids THEN 1 ELSE 0]
<1>1. lost \in [ItemIds -> Nat] /\ \A i \in ItemIds : lost[i] = IF i \in ids THEN 1 ELSE 0
  OBVIOUS
<1>. HIDE DEF lost
<1>2. Lessened(c, releaseWalk(c, walk), lost) /\ Lessened(c, releaseWalk(c, other), lost)
  BY <1>1, ReleaseWalkLessens
<1>. QED BY <1>2, LessenedIsOne

LEMMA ReleaseEachLessens ==
  ASSUME NEW c, Counts(c), NEW ids \in SUBSET ItemIds, IsFiniteSet(ids),
         NEW lost \in [ItemIds -> Nat], \A i \in ItemIds : lost[i] = IF i \in ids THEN 1 ELSE 0
  PROVE  Lessened(c, releaseEach(c, ids), lost)
<1>1. Walks(SetToSeq(ids), ids)
  BY SetToSeqWalk
<1>. QED BY <1>1, ReleaseWalkLessens DEF releaseEach

-----------------------------------------------------------------------------
(* What the loops work on beside the store they stand for.                 *)

LoopFields == {"objects", "access", "lists", "order", "ItemsByID", "itemRefCount", "lastPrune"}

\* c says what s says, the order by its slices.
Agrees(c, s) ==
  /\ DOMAIN c = LoopFields /\ c = [f \in DOMAIN c |-> c[f]]
  /\ c.objects = s.objects /\ c.access = s.access /\ c.lists = s.lists
  /\ c.ItemsByID = s.ItemsByID /\ c.itemRefCount = s.itemRefCount
  /\ c.lastPrune = s.lastPrune
  /\ s.before = UNION { Pairs(c.order[kind]) : kind \in DOMAIN c.order }

LEMMA AgreesCounts ==
  ASSUME NEW s, IsStore(s), NEW c, Agrees(c, s)
  PROVE  Counts(s) /\ Counts(c)
<1>1. /\ DOMAIN c.itemRefCount \subseteq ItemIds
      /\ c.itemRefCount \in [DOMAIN c.itemRefCount -> Nat \ {0}]
  BY DEF Agrees, IsStore
<1>. QED BY <1>1 DEF Agrees, IsStore, Counts, LoopFields

\* A store in order and what agrees with it determine each other's values.
LEMMA AgreesAbstract ==
  ASSUME NEW s, IsStore(s), NEW c, Agrees(c, s)
  PROVE  s = Abstract(c)
<1>. DEFINE a == Abstract(c)
<1>1. /\ DOMAIN a = {"objects", "access", "before", "lists", "ItemsByID",
                     "itemRefCount", "lastPrune"}
      /\ a = [f \in DOMAIN a |-> a[f]]
      /\ a.objects = c.objects /\ a.access = c.access /\ a.lists = c.lists
      /\ a.before = UNION { Pairs(c.order[kind]) : kind \in DOMAIN c.order }
      /\ a.ItemsByID = c.ItemsByID /\ a.itemRefCount = c.itemRefCount
      /\ a.lastPrune = c.lastPrune
  BY DEF Abstract
<1>. HIDE DEF a
<1>2. DOMAIN a = DOMAIN s /\ s = [f \in DOMAIN s |-> s[f]]
  BY <1>1 DEF IsStore
<1>3. \A f \in DOMAIN s : a[f] = s[f]
  BY <1>1 DEF Agrees, IsStore
<1>4. a = s
  BY <1>1, <1>2, <1>3
<1>. QED BY <1>4 DEF a

\* The same loss on both sides.
LEMMA AgreesLessened ==
  ASSUME NEW s, IsStore(s), NEW c, Agrees(c, s), NEW lost,
         NEW r, Lessened(c, r, lost), NEW q, Lessened(s, q, lost)
  PROVE  Agrees(r, q) /\ r.order = c.order
<1>1. DOMAIN r = LoopFields /\ r = [f \in DOMAIN r |-> r[f]]
  BY DEF Agrees, Lessened
<1>2. /\ r.objects = c.objects /\ r.access = c.access /\ r.lists = c.lists
      /\ r.order = c.order /\ r.lastPrune = c.lastPrune
  BY DEF Agrees, Lessened, LoopFields
<1>3. /\ q.objects = s.objects /\ q.access = s.access /\ q.lists = s.lists
      /\ q.before = s.before /\ q.lastPrune = s.lastPrune
  BY DEF Lessened, IsStore
<1>4. \A i \in ItemIds : RefCount(c, i) = RefCount(s, i)
  BY DEF Agrees, RefCount
<1>5. r.ItemsByID = q.ItemsByID /\ r.itemRefCount = q.itemRefCount
  <2>. DEFINE goneC == { i \in ItemIds : lost[i] > 0 /\ RefCount(c, i) <= lost[i] }
              goneS == { i \in ItemIds : lost[i] > 0 /\ RefCount(s, i) <= lost[i] }
  <2>1. goneC = goneS
    BY <1>4
  <2>2. /\ r.ItemsByID = c.ItemsByID \ goneC /\ q.ItemsByID = s.ItemsByID \ goneS
        /\ r.itemRefCount = [i \in DOMAIN c.itemRefCount \ goneC |-> c.itemRefCount[i] - lost[i]]
        /\ q.itemRefCount = [i \in DOMAIN s.itemRefCount \ goneS |-> s.itemRefCount[i] - lost[i]]
    BY DEF Lessened
  <2>. HIDE DEF goneC, goneS
  <2>. QED BY <2>1, <2>2 DEF Agrees
<1>. QED BY <1>1, <1>2, <1>3, <1>5 DEF Agrees

\* The references that the slices of L hold.
Lost(s, L) == [i \in ItemIds |-> Cardinality(Holders(s, L, i))]

LEMMA LostType ==
  ASSUME NEW s, NEW L, IsFiniteSet(L)
  PROVE  /\ Lost(s, L) \in [ItemIds -> Nat]
         /\ \A i \in ItemIds : Lost(s, L)[i] = Cardinality(Holders(s, L, i))
BY HoldersFinite DEF Lost

LEMMA LostOfBoth ==
  ASSUME NEW s, NEW L, IsFiniteSet(L), NEW M, IsFiniteSet(M), \A l \in L : l \notin M
  PROVE  /\ Lost(s, L \cup M) \in [ItemIds -> Nat]
         /\ \A i \in ItemIds : Lost(s, L \cup M)[i] = Lost(s, L)[i] + Lost(s, M)[i]
<1>1. IsFiniteSet(L \cup M)
  BY FS_Union
<1>2. ASSUME NEW i \in ItemIds
      PROVE  Cardinality(Holders(s, L \cup M, i))
               = Cardinality(Holders(s, L, i)) + Cardinality(Holders(s, M, i))
  <2>1. /\ Holders(s, L \cup M, i) = Holders(s, L, i) \cup Holders(s, M, i)
        /\ Holders(s, L, i) \cap Holders(s, M, i) = {}
    BY DEF Holders
  <2>2. IsFiniteSet(Holders(s, L, i)) /\ IsFiniteSet(Holders(s, M, i))
    BY HoldersFinite
  <2>3. Cardinality(Holders(s, L \cup M, i))
          = Cardinality(Holders(s, L, i)) + Cardinality(Holders(s, M, i)) - Cardinality({})
    <3>. DEFINE A == Holders(s, L, i)
                B == Holders(s, M, i)
    <3>1. IsFiniteSet(A) /\ IsFiniteSet(B) /\ A \cap B = {} /\ Holders(s, L \cup M, i) = A \cup B
      BY <2>1, <2>2
    <3>. HIDE DEF A, B
    <3>2. Cardinality(A \cup B) = Cardinality(A) + Cardinality(B) - Cardinality(A \cap B)
      BY <3>1, FS_Union
    <3>3. Cardinality(Holders(s, L \cup M, i)) = Cardinality(A) + Cardinality(B) - Cardinality({})
      BY <3>1, <3>2
    <3>. QED BY <3>3 DEF A, B
  <2>4. /\ Cardinality({}) = 0
        /\ Cardinality(Holders(s, L, i)) \in Nat /\ Cardinality(Holders(s, M, i)) \in Nat
    BY HoldersFinite, FS_EmptySet
  <2>. QED BY <2>3, <2>4
<1>. QED BY <1>1, <1>2, LostType

LEMMA LostOfSame ==
  ASSUME NEW s, NEW r, NEW L, \A l \in L : s.lists[l] = r.lists[l]
  PROVE  Lost(s, L) = Lost(r, L)
<1>1. \A i : Holders(s, L, i) = Holders(r, L, i)
  BY HoldersSame
<1>. QED BY <1>1 DEF Lost

LEMMA ReleaseItemRefsLessens ==
  ASSUME NEW s, Counts(s), NEW L
  PROVE  Lessened(s, releaseItemRefs(s, L), Lost(s, L))
<1>. DEFINE r == releaseItemRefs(s, L)
            lost == Lost(s, L)
            gone == { i \in ItemIds : lost[i] > 0 /\ RefCount(s, i) <= lost[i] }
            gone2 == { i \in ItemIds : /\ Cardinality(Holders(s, L, i)) > 0
                                       /\ RefCount(s, i) <= Cardinality(Holders(s, L, i)) }
<1>1. \A i \in ItemIds : lost[i] = Cardinality(Holders(s, L, i))
  BY DEF Lost
<1>2. gone = gone2
  BY <1>1
<1>3. /\ DOMAIN r = DOMAIN s
      /\ r = [f \in DOMAIN r |-> r[f]]
      /\ r.itemRefCount = [i \in DOMAIN s.itemRefCount \ gone2 |->
                             s.itemRefCount[i] - Cardinality(Holders(s, L, i))]
      /\ r.ItemsByID = s.ItemsByID \ gone2
      /\ \A f \in DOMAIN s \ {"itemRefCount", "ItemsByID"} : r[f] = s[f]
  BY DEF releaseItemRefs, Counts
<1>4. \A i \in DOMAIN s.itemRefCount : i \in ItemIds
  BY DEF Counts
<1>. HIDE DEF r, gone2, lost
<1>5. r.itemRefCount = [i \in DOMAIN s.itemRefCount \ gone2 |-> s.itemRefCount[i] - lost[i]]
  BY <1>1, <1>3, <1>4
<1>. QED BY <1>2, <1>3, <1>5 DEF Lessened, r, lost

\* The slices of key that hold references.
Own(s, key) == { l \in Holding(s) : l[1] = key }

\* Releasing one slice lets go of what it holds, and of nothing if it is not there.
LEMMA ReleaseSliceLessens ==
  ASSUME NEW c, Counts(c), \A l \in DOMAIN c.lists : c.lists[l] \in Seq(ItemIds), NEW key, NEW name
  PROVE  Lessened(c, releaseSlice(c, key, name), Lost(c, {<<key, name>>} \cap DOMAIN c.lists))
<1>. DEFINE slice == <<key, name>>
            L == {slice} \cap DOMAIN c.lists
<1>0. IsFiniteSet(L)
  <2>1. IsFiniteSet({slice})
    BY FS_Singleton
  <2>. QED BY <2>1, FS_Subset
<1>1. CASE slice \in DOMAIN c.lists
  <2>. DEFINE ids == itemIDs(c.lists[slice])
  <2>1. ids \subseteq ItemIds
    BY <1>1, ItemIDsType
  <2>2. IsFiniteSet(ids)
    <3>1. c.lists[slice] \in Seq(ItemIds)
      BY <1>1
    <3>2. \A items \in Seq(ItemIds) : IsFiniteSet(itemIDs(items))
      <4>. TAKE items \in Seq(ItemIds)
      <4>1. IsFiniteSet(DOMAIN items)
        <5>1. DOMAIN items = 1..Len(items) /\ Len(items) \in Nat
          OBVIOUS
        <5>. QED BY <5>1, FS_Interval
      <4>2. items \in Surjection(DOMAIN items, itemIDs(items))
        <5>1. items \in [DOMAIN items -> itemIDs(items)]
          BY DEF itemIDs
        <5>2. \A i \in itemIDs(items) : \E n \in DOMAIN items : items[n] = i
          BY DEF itemIDs
        <5>. QED BY <5>1, <5>2 DEF Surjection
      <4>. QED BY <4>1, <4>2, FS_Surjection
    <3>. QED BY <3>1, <3>2
  <2>3. L = {slice}
    BY <1>1
  <2>4. \A i : Cardinality(Holders(c, L, i)) = IF i \in ids THEN 1 ELSE 0
    <3>. TAKE i
    <3>1. Holders(c, L, i) = IF i \in ids THEN {slice} ELSE {}
      BY <2>3 DEF Holders
    <3>2. Cardinality({slice}) = 1 /\ Cardinality({}) = 0
      BY FS_Singleton, FS_EmptySet
    <3>. QED BY <3>1, <3>2
  <2>5. \A i \in ItemIds : Lost(c, L)[i] = IF i \in ids THEN 1 ELSE 0
    BY <1>0, <2>4, LostType
  <2>6. Lost(c, L) \in [ItemIds -> Nat]
    BY <1>0, LostType
  <2>7. releaseSlice(c, key, name) = releaseEach(c, ids)
    BY <1>1 DEF releaseSlice
  <2>. HIDE DEF ids, L, slice
  <2>8. Lessened(c, releaseEach(c, ids), Lost(c, L))
    BY <2>1, <2>2, <2>5, <2>6, ReleaseEachLessens
  <2>. QED BY <2>7, <2>8 DEF L, slice
<1>2. CASE slice \notin DOMAIN c.lists
  <2>1. L = {}
    BY <1>2
  <2>2. \A i : Cardinality(Holders(c, {}, i)) = 0
    BY FS_EmptySet DEF Holders
  <2>3. releaseSlice(c, key, name) = c
    BY <1>2 DEF releaseSlice
  <2>4. Lost(c, {}) \in [ItemIds -> Nat] /\ \A i \in ItemIds : Lost(c, {})[i] = 0
    BY <2>2, FS_EmptySet, LostType
  <2>. QED BY <2>1, <2>3, <2>4, LessenedByNothing
<1>. QED BY <1>1, <1>2

\* releaseResponseItemRefsLocked and its like let go of all the slices of key
\* that hold references.
LEMMA ReleaseSlicesLessens ==
  ASSUME NEW s, IsStore(s), NEW c, Agrees(c, s), NEW key \in Key
  PROVE  /\ IsFiniteSet(Own(s, key))
         /\ Lessened(c, releaseSlices(c, key), Lost(s, Own(s, key)))
<1>. DEFINE lists == c.lists
            L(name) == {<<key, name>>} \cap DOMAIN lists
            own == Own(s, key)
<1>1. /\ Counts(c) /\ c.lists = s.lists
      /\ \A l \in DOMAIN lists : lists[l] \in Seq(ItemIds)
  BY AgreesCounts DEF Agrees, IsStore
<1>2. IsFiniteSet(own)
  BY HoldingFinite, FS_Subset DEF Own
<1>3. \A l \in DOMAIN lists : l[1] = key => \E name \in ListNames(Kind(key)) : l = <<key, name>>
  BY <1>1, OwnSlices
<1>4. \A l : l \in own <=> l \in DOMAIN lists /\ l[2] # "messages" /\ l[1] = key
  BY <1>1 DEF Own, Holding
<1>5. Lost(c, own) = Lost(s, own)
  BY <1>1, LostOfSame
<1>6. key \in ResponseKey \/ key \in ChatKey \/ key \in ConversationKey
  BY DEF Key
<1>7. CASE key \in ResponseKey
  <2>. DEFINE m == releaseSlice(c, key, "input")
              r == releaseSlice(m, key, "context")
  <2>1. Kind(key) = "response" /\ ListNames(Kind(key)) = {"input", "context"}
    BY <1>7, KeyKinds
  <2>2. releaseSlices(c, key) = r
    BY <2>1 DEF releaseSlices
  <2>3. own = L("input") \cup L("context") /\ L("input") \cap L("context") = {}
    <3>1. \A l \in DOMAIN lists : l[1] = key => l = <<key, "input">> \/ l = <<key, "context">>
      BY <1>3, <2>1
    <3>2. <<key, "input">>[2] = "input" /\ <<key, "context">>[2] = "context"
      OBVIOUS
    <3>3. <<key, "input">>[1] = key /\ <<key, "context">>[1] = key
      OBVIOUS
    <3>. HIDE DEF lists, own
    <3>. QED BY <1>4, <3>1, <3>2, <3>3
  <2>4. IsFiniteSet(L("input")) /\ IsFiniteSet(L("context"))
    BY <1>2, <2>3, FS_Subset
  <2>5. Lessened(c, m, Lost(c, L("input")))
    BY <1>1, ReleaseSliceLessens
  <2>6. Counts(m) /\ m.lists = c.lists
    <3>1. Counts(m)
      BY <1>1, <2>4, <2>5, LostType, LessenedCounts
    <3>2. m.lists = c.lists
      BY <2>5 DEF Lessened, Agrees, LoopFields
    <3>. QED BY <3>1, <3>2
  <2>. HIDE DEF m
  <2>7. Lessened(m, r, Lost(m, L("context")))
    BY <1>1, <2>6, ReleaseSliceLessens
  <2>8. Lost(m, L("context")) = Lost(c, L("context"))
    BY <2>6, LostOfSame
  <2>. HIDE DEF r, L
  <2>9. /\ Lost(c, L("input")) \in [ItemIds -> Nat] /\ Lost(c, L("context")) \in [ItemIds -> Nat]
        /\ Lost(c, own) \in [ItemIds -> Nat]
        /\ \A i \in ItemIds : Lost(c, own)[i] = Lost(c, L("input"))[i] + Lost(c, L("context"))[i]
    <3>. DEFINE A == L("input")
                B == L("context")
    <3>1. IsFiniteSet(A) /\ IsFiniteSet(B) /\ (\A l \in A : l \notin B) /\ own = A \cup B
      BY <2>3, <2>4
    <3>. HIDE DEF A, B, own
    <3>2. /\ Lost(c, A \cup B) \in [ItemIds -> Nat]
          /\ \A i \in ItemIds : Lost(c, A \cup B)[i] = Lost(c, A)[i] + Lost(c, B)[i]
      <4>1. /\ IsFiniteSet(A)
            /\ IsFiniteSet(B)
            /\ \A l \in A : l \notin B
        BY <3>1
      <4>2. IsFiniteSet(A \cup B)
        BY <4>1, FS_Union
      <4>3. Lost(c, A \cup B) \in [ItemIds -> Nat]
        BY <4>2, LostType
      <4>4. \A i \in ItemIds : Lost(c, A \cup B)[i] = Lost(c, A)[i] + Lost(c, B)[i]
        BY <4>1, LostOfBoth
      <4>. QED BY <4>3, <4>4
    <3>3. Lost(c, A) \in [ItemIds -> Nat] /\ Lost(c, B) \in [ItemIds -> Nat]
      BY <3>1, LostType
    <3>. QED BY <3>1, <3>2, <3>3 DEF A, B
  <2>10. Lessened(c, r, Lost(c, own))
    BY <1>1, <2>5, <2>7, <2>8, <2>9, LessenedTwice
  <2>. QED BY <1>2, <1>5, <2>2, <2>10
<1>8. CASE key \in ChatKey
  <2>1. Kind(key) = "chat" /\ ListNames(Kind(key)) = {"messages"}
    BY <1>8, KeyKinds
  <2>2. releaseSlices(c, key) = c
    BY <2>1 DEF releaseSlices
  <2>3. own = {}
    <3>1. \A l \in DOMAIN lists : l[1] = key => l = <<key, "messages">>
      BY <1>3, <2>1
    <3>2. <<key, "messages">>[2] = "messages"
      OBVIOUS
    <3>. HIDE DEF lists, own
    <3>. QED BY <1>4, <3>1, <3>2
  <2>4. \A i : Cardinality(Holders(c, {}, i)) = 0
    BY FS_EmptySet DEF Holders
  <2>5. Lost(c, {}) \in [ItemIds -> Nat] /\ \A i \in ItemIds : Lost(c, {})[i] = 0
    BY <2>4, FS_EmptySet, LostType
  <2>. QED BY <1>1, <1>2, <1>5, <2>2, <2>3, <2>5, LessenedByNothing
<1>9. CASE key \in ConversationKey
  <2>1. Kind(key) = "conversation" /\ ListNames(Kind(key)) = {"items"}
    BY <1>9, KeyKinds
  <2>2. releaseSlices(c, key) = releaseSlice(c, key, "items")
    BY <2>1 DEF releaseSlices
  <2>3. own = L("items")
    <3>1. \A l \in DOMAIN lists : l[1] = key => l = <<key, "items">>
      BY <1>3, <2>1
    <3>2. <<key, "items">>[2] = "items" /\ <<key, "items">>[1] = key
      OBVIOUS
    <3>. HIDE DEF lists, own
    <3>. QED BY <1>4, <3>1, <3>2
  <2>4. Lessened(c, releaseSlice(c, key, "items"), Lost(c, L("items")))
    BY <1>1, ReleaseSliceLessens
  <2>. QED BY <1>2, <1>5, <2>2, <2>3, <2>4
<1>. QED BY <1>6, <1>7, <1>8, <1>9

-----------------------------------------------------------------------------
(* The save-order slices.                                                  *)

LEMMA PairsMembers ==
  ASSUME NEW S, NEW order \in Seq(S), NEW p
  PROVE  p \in Pairs(order) <=>
           \E m, n \in 1..Len(order) : m < n /\ p = <<order[m], order[n]>>
<1>1. Len(order) \in Nat
  OBVIOUS
<1>2. p \in Pairs(order) <=> \E n \in 1..Len(order) : \E m \in 1..(n - 1) : p = <<order[m], order[n]>>
  BY DEF Pairs
<1>3. \A n \in 1..Len(order) : \A m : m \in 1..(n - 1) <=> m \in 1..Len(order) /\ m < n
  BY <1>1
<1>. QED BY <1>2, <1>3

LEMMA WalkPlaces ==
  ASSUME NEW S, NEW order, Walks(order, S)
  PROVE  /\ Len(order) \in Nat /\ order \in Seq(S)
         /\ \A n \in 1..Len(order) : order[n] \in S
         /\ \A x \in S : \E n \in 1..Len(order) : order[n] = x
         /\ \A m, n \in 1..Len(order) : order[m] = order[n] => m = n
<1>1. order \in Seq(S) /\ Len(order) \in Nat
  BY DEF Walks
<1>. QED BY <1>1 DEF Walks

\* The first of an order is before all others, and nothing is before it.
LEMMA PairsOfFirst ==
  ASSUME NEW S, NEW order, Walks(order, S), order # <<>>
  PROVE  /\ order[1] \in S
         /\ \A y \in S \ {order[1]} : <<order[1], y>> \in Pairs(order)
         /\ \A y : <<y, order[1]>> \notin Pairs(order)
<1>1. /\ Len(order) \in Nat /\ order \in Seq(S)
      /\ \A n \in 1..Len(order) : order[n] \in S
      /\ \A x \in S : \E n \in 1..Len(order) : order[n] = x
      /\ \A m, n \in 1..Len(order) : order[m] = order[n] => m = n
  BY WalkPlaces
<1>2. 1 \in 1..Len(order)
  BY <1>1
<1>3. ASSUME NEW y \in S \ {order[1]} PROVE <<order[1], y>> \in Pairs(order)
  <2>1. PICK n \in 1..Len(order) : order[n] = y
    BY <1>1
  <2>2. 1 < n
    BY <1>1, <2>1
  <2>3. <<order[1], y>> = <<order[1], order[n]>>
    BY <2>1
  <2>. QED BY <1>1, <1>2, <2>2, <2>3, PairsMembers
<1>4. ASSUME NEW y, <<y, order[1]>> \in Pairs(order) PROVE FALSE
  <2>1. PICK m, n \in 1..Len(order) : m < n /\ <<y, order[1]>> = <<order[m], order[n]>>
    <3>. DEFINE q == <<y, order[1]>>
    <3>1. q \in Pairs(order)
      BY <1>4
    <3>. HIDE DEF q
    <3>2. \E m, n \in 1..Len(order) : m < n /\ q = <<order[m], order[n]>>
      BY <1>1, <3>1, PairsMembers
    <3>. QED BY <3>2 DEF q
  <2>2. order[1] = order[n]
    BY <2>1
  <2>3. n = 1
    BY <1>1, <1>2, <2>2
  <2>. QED BY <1>1, <2>1, <2>3
<1>. QED BY <1>1, <1>2, <1>3, <1>4

\* What forgetID leaves.
LEMMA ForgetPlaces ==
  ASSUME NEW S, NEW order, Walks(order, S), NEW p \in 1..Len(order)
  PROVE  LET r == forgetID(order, order[p])
         IN  /\ r \in Seq(S) /\ Len(r) = Len(order) - 1
             /\ \A n \in 1..Len(r) : r[n] = IF n < p THEN order[n] ELSE order[n + 1]
<1>1. /\ Len(order) \in Nat /\ order \in Seq(S)
      /\ \A m, n \in 1..Len(order) : order[m] = order[n] => m = n
  BY WalkPlaces
<1>. DEFINE I == { n \in 1..Len(order) : order[n] = order[p] }
            a == SubSeq(order, 1, p - 1)
            b == SubSeq(order, p + 1, Len(order))
<1>2. I = {p}
  BY <1>1
<1>3. Min({p}) = p
  BY <1>1 DEF Min
<1>4. forgetID(order, order[p]) = RemoveAt(order, p)
  <2>1. SelectInSeq(order, LAMBDA v : v = order[p]) = IF I # {} THEN Min(I) ELSE 0
    BY DEF SelectInSeq
  <2>2. SelectInSeq(order, LAMBDA v : v = order[p]) = p
    BY <1>2, <1>3, <2>1
  <2>3. \E n \in 1..Len(order) : order[n] = order[p]
    OBVIOUS
  <2>. QED BY <2>2, <2>3 DEF forgetID, RemoveFirst
<1>5. RemoveAt(order, p) = a \o b
  BY DEF RemoveAt
<1>6. /\ a \in Seq(S) /\ Len(a) = p - 1
      /\ \A n \in 1..(p - 1) : a[n] = order[n]
  BY <1>1
<1>7. /\ b \in Seq(S) /\ Len(b) = Len(order) - p
      /\ \A n \in 1..(Len(order) - p) : b[n] = order[p + n]
  BY <1>1
<1>. HIDE DEF a, b
<1>8. /\ a \o b \in Seq(S) /\ Len(a \o b) = Len(order) - 1
      /\ \A n \in 1..(Len(order) - 1) : (a \o b)[n] = IF n < p THEN order[n] ELSE order[n + 1]
  <2>1. a \o b \in Seq(S) /\ Len(a \o b) = Len(a) + Len(b)
    <3>1. a \in Seq(S) /\ b \in Seq(S)
      BY <1>6, <1>7
    <3>. QED BY <3>1
  <2>2. Len(a \o b) = Len(order) - 1
    BY <1>1, <1>6, <1>7, <2>1
  <2>3. ASSUME NEW n \in 1..(Len(order) - 1)
        PROVE  (a \o b)[n] = IF n < p THEN order[n] ELSE order[n + 1]
    <3>1. CASE n < p
      <4>1. n \in 1..Len(a) /\ n \in 1..(p - 1)
        BY <1>1, <1>6, <3>1
      <4>2. (a \o b)[n] = a[n]
        <5>1. a \in Seq(S) /\ b \in Seq(S)
          BY <1>6, <1>7
        <5>. QED BY <4>1, <5>1
      <4>. QED BY <1>6, <3>1, <4>1, <4>2
    <3>2. CASE ~(n < p)
      <4>1. n - (p - 1) \in 1..(Len(order) - p) /\ n > Len(a) /\ n <= Len(a) + Len(b)
        BY <1>1, <1>6, <1>7, <3>2
      <4>2. (a \o b)[n] = b[n - Len(a)]
        <5>1. a \in Seq(S) /\ b \in Seq(S)
          BY <1>6, <1>7
        <5>. QED BY <4>1, <5>1
      <4>3. b[n - (p - 1)] = order[p + (n - (p - 1))]
        BY <1>7, <4>1
      <4>4. p + (n - (p - 1)) = n + 1
        BY <1>1
      <4>. QED BY <1>6, <3>2, <4>2, <4>3, <4>4
    <3>. QED BY <3>1, <3>2
  <2>. QED BY <2>1, <2>2, <2>3
<1>. QED BY <1>4, <1>5, <1>8

LEMMA PairPlaces ==
  ASSUME NEW S, NEW order \in Seq(S), NEW x, NEW y
  PROVE  <<x, y>> \in Pairs(order) <=>
           \E m, n \in 1..Len(order) : m < n /\ x = order[m] /\ y = order[n]
<1>. DEFINE q == <<x, y>>
<1>1. q \in Pairs(order) <=> \E m, n \in 1..Len(order) : m < n /\ q = <<order[m], order[n]>>
  <2>. HIDE DEF q
  <2>. QED BY PairsMembers
<1>2. \A m, n : q = <<order[m], order[n]>> <=> x = order[m] /\ y = order[n]
  OBVIOUS
<1>. QED BY <1>1, <1>2

LEMMA SeqOfElements ==
  ASSUME NEW S, NEW T, NEW walk \in Seq(S), \A n \in 1..Len(walk) : walk[n] \in T
  PROVE  walk \in Seq(T)
OBVIOUS

\* forgetID takes an entry away and leaves the others in their order.
LEMMA ForgetWalks ==
  ASSUME NEW S, NEW order, Walks(order, S), NEW id
  PROVE  /\ Walks(forgetID(order, id), S \ {id})
         /\ \A x, y : <<x, y>> \in Pairs(forgetID(order, id))
                        <=> <<x, y>> \in Pairs(order) /\ x # id /\ y # id
<1>. DEFINE r == forgetID(order, id)
<1>1. /\ Len(order) \in Nat /\ order \in Seq(S)
      /\ \A n \in 1..Len(order) : order[n] \in S
      /\ \A x \in S : \E n \in 1..Len(order) : order[n] = x
      /\ \A m, n \in 1..Len(order) : order[m] = order[n] => m = n
  BY WalkPlaces
<1>0. order \in Seq(S)
  BY <1>1
<1>2. CASE id \notin S
  <2>1. S \ {id} = S
    BY <1>2
  <2>2. r = order
    BY <1>1, <1>2 DEF forgetID, RemoveFirst
  <2>3. ASSUME NEW x, NEW y, <<x, y>> \in Pairs(order) PROVE x # id /\ y # id
    <3>1. PICK m, n \in 1..Len(order) : m < n /\ x = order[m] /\ y = order[n]
      BY <1>0, <2>3, PairPlaces
    <3>. QED BY <1>1, <1>2, <3>1
  <2>. QED BY <2>1, <2>2, <2>3
<1>3. CASE id \in S
  <2>1. PICK p \in 1..Len(order) : order[p] = id
    BY <1>1, <1>3
  <2>. DEFINE up(n) == IF n < p THEN n ELSE n + 1
              down(n) == IF n < p THEN n ELSE n - 1
              N == Len(order)
  <2>2. /\ r \in Seq(S) /\ Len(r) = N - 1
        /\ \A n \in 1..Len(r) : r[n] = order[up(n)]
    BY <2>1, ForgetPlaces
  <2>20. r \in Seq(S)
    BY <2>2
  <2>21. N \in Nat /\ p \in 1..N
    BY <1>1
  <2>. HIDE DEF r, N
  <2>3. \A n \in 1..(N - 1) : up(n) \in 1..N /\ up(n) # p
    BY <2>21
  <2>4. \A n \in 1..N : n # p => down(n) \in 1..(N - 1) /\ up(down(n)) = n
    BY <2>21
  <2>5. \A m, n \in 1..(N - 1) : /\ m < n => up(m) < up(n)
                                 /\ up(m) = up(n) => m = n
    BY <2>21
  <2>6. \A m, n \in 1..N : m # p /\ n # p /\ m < n => down(m) < down(n)
    BY <2>21
  <2>. HIDE DEF up, down
  <2>22. /\ \A n \in 1..N : order[n] \in S
         /\ \A x \in S : \E n \in 1..N : order[n] = x
         /\ \A m, n \in 1..N : order[m] = order[n] => m = n
         /\ p \in 1..N
         /\ \A x, y : <<x, y>> \in Pairs(order) <=>
                          \E m, n \in 1..N : m < n /\ x = order[m] /\ y = order[n]
    <3>1. \A x, y : <<x, y>> \in Pairs(order) <=>
                       \E m, n \in 1..Len(order) : m < n /\ x = order[m] /\ y = order[n]
      BY <1>0, PairPlaces
    <3>. QED BY <1>1, <3>1 DEF N
  <2>23. 1..Len(r) = 1..(N - 1)
    BY <2>2
  <2>24. \A n \in 1..(N - 1) : r[n] = order[up(n)]
    BY <2>2
  <2>7. \A n \in 1..(N - 1) : r[n] \in S \ {id}
    BY <2>1, <2>3, <2>22, <2>24
  <2>8. \A n \in 1..N : n # p => down(n) \in 1..(N - 1) /\ r[down(n)] = order[n]
    BY <2>4, <2>24
  <2>9. Walks(r, S \ {id})
    <3>1. r \in Seq(S \ {id})
      <4>1. \A n \in 1..Len(r) : r[n] \in S \ {id}
        BY <2>2, <2>7
      <4>. QED BY <2>20, <4>1, SeqOfElements
    <3>2. \A m, n \in 1..(N - 1) : m # n => r[m] # r[n]
      BY <2>3, <2>5, <2>22, <2>24
    <3>3. \A x \in S \ {id} : \E n \in 1..(N - 1) : r[n] = x
      BY <2>1, <2>8, <2>22
    <3>4. { r[n] : n \in 1..(N - 1) } = S \ {id}
      BY <2>7, <3>3
    <3>. QED BY <2>2, <3>1, <3>2, <3>4 DEF Walks
  <2>10. ASSUME NEW x, NEW y, <<x, y>> \in Pairs(r)
         PROVE  <<x, y>> \in Pairs(order) /\ x # id /\ y # id
    <3>1. PICK m, n \in 1..(N - 1) : m < n /\ x = r[m] /\ y = r[n]
      <4>1. PICK m, n \in 1..Len(r) : m < n /\ x = r[m] /\ y = r[n]
        BY <2>10, <2>20, PairPlaces
      <4>. QED BY <2>23, <4>1
    <3>2. /\ up(m) \in 1..N /\ up(n) \in 1..N /\ up(m) < up(n)
          /\ x = order[up(m)] /\ y = order[up(n)]
      BY <2>3, <2>5, <2>24, <3>1
    <3>3. <<x, y>> \in Pairs(order)
      BY <2>22, <3>2
    <3>. QED BY <2>7, <3>1, <3>3
  <2>11. ASSUME NEW x, NEW y, <<x, y>> \in Pairs(order), x # id, y # id
         PROVE  <<x, y>> \in Pairs(r)
    <3>1. PICK m, n \in 1..N : m < n /\ x = order[m] /\ y = order[n]
      BY <2>11, <2>22
    <3>2. m # p /\ n # p
      BY <2>1, <2>11, <3>1
    <3>3. /\ down(m) \in 1..(N - 1) /\ down(n) \in 1..(N - 1) /\ down(m) < down(n)
          /\ x = r[down(m)] /\ y = r[down(n)]
      BY <2>6, <2>8, <3>1, <3>2
    <3>4. /\ down(m) \in 1..Len(r) /\ down(n) \in 1..Len(r) /\ down(m) < down(n)
          /\ x = r[down(m)] /\ y = r[down(n)]
      BY <2>23, <3>3
    <3>. QED BY <2>20, <3>4, PairPlaces
  <2>. QED BY <2>9, <2>10, <2>11 DEF r
<1>. QED BY <1>2, <1>3

\* rememberID makes an entry the last, and leaves the others in their order.
LEMMA RememberWalks ==
  ASSUME NEW S, NEW order, Walks(order, S), NEW id
  PROVE  /\ Walks(rememberLast(order, id), S \cup {id})
         /\ \A x, y : <<x, y>> \in Pairs(rememberLast(order, id))
                        <=> \/ <<x, y>> \in Pairs(order) /\ x # id /\ y # id
                            \/ x \in S \ {id} /\ y = id
<1>. DEFINE f == forgetID(order, id)
            r == Append(f, id)
            T == S \cup {id}
<1>0. /\ Walks(f, S \ {id})
      /\ \A x, y : <<x, y>> \in Pairs(f) <=> <<x, y>> \in Pairs(order) /\ x # id /\ y # id
  BY ForgetWalks
<1>. HIDE DEF f
<1>1. /\ Len(f) \in Nat /\ f \in Seq(S \ {id})
      /\ \A n \in 1..Len(f) : f[n] \in S \ {id}
      /\ \A x \in S \ {id} : \E n \in 1..Len(f) : f[n] = x
      /\ \A m, n \in 1..Len(f) : f[m] = f[n] => m = n
  BY <1>0, WalkPlaces
<1>2. f \in Seq(T)
  <2>1. \A n \in 1..Len(f) : f[n] \in T
    BY <1>1
  <2>2. f \in Seq(S \ {id})
    BY <1>1
  <2>. HIDE DEF T
  <2>. QED BY <2>1, <2>2, SeqOfElements
<1>3. /\ r \in Seq(T) /\ Len(r) = Len(f) + 1 /\ r[Len(f) + 1] = id
      /\ \A n \in 1..Len(f) : r[n] = f[n]
  <2>1. id \in T
    OBVIOUS
  <2>. HIDE DEF T
  <2>. QED BY <1>2, <2>1
<1>. HIDE DEF r
<1>4. \A n \in 1..Len(r) : n \in 1..Len(f) \/ n = Len(f) + 1
  BY <1>1, <1>3
<1>5. Walks(r, T)
  <2>1. \A m, n \in 1..Len(r) : m # n => r[m] # r[n]
    BY <1>1, <1>3, <1>4
  <2>2. { r[n] : n \in 1..Len(r) } = T
    <3>1. \A n \in 1..Len(r) : r[n] \in T
      BY <1>1, <1>3, <1>4
    <3>2. \A x \in S \ {id} : \E n \in 1..Len(r) : r[n] = x
      BY <1>1, <1>3
    <3>3. Len(f) + 1 \in 1..Len(r)
      BY <1>1, <1>3
    <3>. QED BY <1>3, <3>1, <3>2, <3>3
  <2>. QED BY <1>3, <2>1, <2>2 DEF Walks
<1>6. ASSUME NEW x, NEW y
      PROVE  <<x, y>> \in Pairs(r) <=> <<x, y>> \in Pairs(f) \/ (x \in S \ {id} /\ y = id)
  <2>1. ASSUME <<x, y>> \in Pairs(r) PROVE <<x, y>> \in Pairs(f) \/ (x \in S \ {id} /\ y = id)
    <3>1. PICK m, n \in 1..Len(r) : m < n /\ x = r[m] /\ y = r[n]
      BY <1>3, <2>1, PairPlaces
    <3>2. m \in 1..Len(f)
      BY <1>1, <1>3, <3>1
    <3>3. x = f[m] /\ x \in S \ {id}
      BY <1>1, <1>3, <3>1, <3>2
    <3>4. CASE n \in 1..Len(f)
      BY <1>1, <1>3, <3>1, <3>2, <3>3, <3>4, PairPlaces
    <3>5. CASE n = Len(f) + 1
      BY <1>3, <3>1, <3>3, <3>5
    <3>. QED BY <1>4, <3>4, <3>5
  <2>2. ASSUME <<x, y>> \in Pairs(f) PROVE <<x, y>> \in Pairs(r)
    <3>1. PICK m, n \in 1..Len(f) : m < n /\ x = f[m] /\ y = f[n]
      BY <1>2, <2>2, PairPlaces
    <3>2. m \in 1..Len(r) /\ n \in 1..Len(r) /\ x = r[m] /\ y = r[n]
      <4>1. 1..Len(f) \subseteq 1..Len(r)
        BY <1>1, <1>3
      <4>2. r[m] = f[m] /\ r[n] = f[n]
        BY <1>3
      <4>. QED BY <3>1, <4>1, <4>2
    <3>. QED BY <1>3, <3>1, <3>2, PairPlaces
  <2>3. ASSUME x \in S \ {id}, y = id PROVE <<x, y>> \in Pairs(r)
    <3>1. PICK m \in 1..Len(f) : f[m] = x
      BY <1>1, <2>3
    <3>2. m \in 1..Len(r) /\ Len(f) + 1 \in 1..Len(r) /\ m < Len(f) + 1 /\ x = r[m]
      BY <1>1, <1>3, <3>1
    <3>. QED BY <1>3, <2>3, <3>2, PairPlaces
  <2>. QED BY <2>1, <2>2, <2>3
<1>7. rememberLast(order, id) = r
  BY DEF rememberLast, r, f
<1>. QED BY <1>0, <1>5, <1>6, <1>7

-----------------------------------------------------------------------------
(* The loops' store beside the store of the closed forms.                  *)

\* The save-order slices list the keys of K, each kind its own.
Ordered(c, K) ==
  /\ c.order = [kind \in TableKinds |-> c.order[kind]]
  /\ \A kind \in TableKinds : Walks(c.order[kind], OfKind(K, kind))

\* What the loops work on, and the store it stands for; K is what the save-order
\* slices list, which is what is live except in the middle of a save.
Beside(c, s, K) == IsStore(s) /\ Agrees(c, s) /\ Ordered(c, K)

LEMMA KeyKind ==
  ASSUME NEW key \in Key PROVE Kind(key) \in TableKinds
BY KeyKinds DEF Key, TableKinds

\* What is before what, in the slice of its kind.
LEMMA BeforeInOrder ==
  ASSUME NEW s, NEW c, NEW K, Agrees(c, s), Ordered(c, K), NEW x, NEW y
  PROVE  <<x, y>> \in s.before
           <=> \E kind \in TableKinds : <<x, y>> \in Pairs(c.order[kind])
BY DEF Agrees, Ordered

LEMMA PairsOfKind ==
  ASSUME NEW c, NEW K, Ordered(c, K), NEW kind \in TableKinds, NEW x, NEW y,
         <<x, y>> \in Pairs(c.order[kind])
  PROVE  x \in OfKind(K, kind) /\ y \in OfKind(K, kind)
<1>1. Walks(c.order[kind], OfKind(K, kind))
  BY DEF Ordered
<1>2. c.order[kind] \in Seq(OfKind(K, kind))
  BY <1>1 DEF Walks
<1>3. \A n \in 1..Len(c.order[kind]) : c.order[kind][n] \in OfKind(K, kind)
  BY <1>1, WalkPlaces
<1>4. PICK m, n \in 1..Len(c.order[kind]) : m < n /\ x = c.order[kind][m] /\ y = c.order[kind][n]
  BY <1>2, PairPlaces
<1>. QED BY <1>3, <1>4

\* The slices of the keys of D that hold references.
HeldBy(s, D) == { l \in Holding(s) : l[1] \in D }

\* r is s without the objects of D, and without the references they held.
Dropped(s, r, D) ==
  /\ IsStore(r) /\ Live(r) = Live(s) \ D
  /\ r.objects = Restrict(s.objects, DOMAIN s.objects \ D)
  /\ r.access = Restrict(s.access, DOMAIN s.access \ D)
  /\ r.before = { p \in s.before : p[1] \notin D /\ p[2] \notin D }
  /\ r.lists = Restrict(s.lists, { l \in DOMAIN s.lists : l[1] \notin D })
  /\ r.lastPrune = s.lastPrune
  /\ IsFiniteSet(HeldBy(s, D))
  /\ \E m : /\ Lessened(s, m, Lost(s, HeldBy(s, D)))
            /\ r.ItemsByID = m.ItemsByID /\ r.itemRefCount = m.itemRefCount

LEMMA DropDrops ==
  ASSUME NEW s, IsStore(s), NEW D
  PROVE  Dropped(s, drop(s, D), D)
<1>. DEFINE L == { l \in Holding(s) : l[1] \in D }
            m == releaseItemRefs(s, L)
            r == drop(s, D)
<1>0. Counts(s)
  BY DEF IsStore, Counts
<1>1. IsFiniteSet(L)
  BY HoldingFinite, FS_Subset
<1>2. Lessened(s, m, Lost(s, L))
  BY <1>0, ReleaseItemRefsLessens
<1>. HIDE DEF m
<1>3. /\ DOMAIN m = DOMAIN s /\ m = [f \in DOMAIN m |-> m[f]]
      /\ m.objects = s.objects /\ m.access = s.access /\ m.before = s.before
      /\ m.lists = s.lists /\ m.lastPrune = s.lastPrune
      /\ m.ItemsByID \subseteq s.ItemsByID
  <2>1. \A f \in DOMAIN s \ {"itemRefCount", "ItemsByID"} : m[f] = s[f]
    BY <1>2 DEF Lessened
  <2>2. DOMAIN m = DOMAIN s /\ m = [f \in DOMAIN m |-> m[f]] /\ m.ItemsByID \subseteq s.ItemsByID
    BY <1>2 DEF Lessened
  <2>. QED BY <2>1, <2>2 DEF IsStore
<1>4. Counts(m)
  <2>1. Lost(s, L) \in [ItemIds -> Nat]
    BY <1>1, LostType
  <2>. HIDE DEF L
  <2>. QED BY <1>0, <1>2, <2>1, LessenedCounts
<1>5. /\ DOMAIN r = DOMAIN m
      /\ r = [f \in DOMAIN r |-> r[f]]
      /\ r.objects = Restrict(m.objects, DOMAIN m.objects \ D)
      /\ r.access = Restrict(m.access, DOMAIN m.access \ D)
      /\ r.before = { p \in m.before : p[1] \notin D /\ p[2] \notin D }
      /\ r.lists = Restrict(m.lists, { l \in DOMAIN m.lists : l[1] \notin D })
      /\ r.ItemsByID = m.ItemsByID /\ r.itemRefCount = m.itemRefCount
      /\ r.lastPrune = m.lastPrune
  BY <1>3 DEF drop, IsStore, m
<1>. HIDE DEF r, L
<1>6. Live(r) = Live(s) \ D /\ IsFiniteSet(Live(r))
  BY <1>3, <1>5, FS_Difference DEF Live, Restrict, IsStore
<1>7. r.objects \in [Live(r) -> Values] /\ r.access \in [Live(r) -> Nat]
  BY <1>3, <1>5, <1>6 DEF Restrict, IsStore, Live
<1>8. r.lists \in [Slices(Live(r)) -> Seq(ItemIds)]
  <2>0. Slices(Live(s) \ D) = { l \in Slices(Live(s)) : l[1] \notin D }
    BY SlicesOfPart
  <2>1. Slices(Live(r)) = { l \in Slices(Live(s)) : l[1] \notin D }
    BY <1>6, <2>0
  <2>2. s.lists \in [Slices(Live(s)) -> Seq(ItemIds)]
    BY DEF IsStore
  <2>3. r.lists = Restrict(s.lists, { l \in DOMAIN s.lists : l[1] \notin D })
    BY <1>3, <1>5
  <2>. QED BY <2>1, <2>2, <2>3 DEF Restrict
<1>9. r.before \subseteq Live(r) \X Live(r)
  BY <1>3, <1>5, <1>6 DEF IsStore
<1>10. IsStore(r)
  <2>1. r.ItemsByID \subseteq ItemIds /\ DOMAIN r.itemRefCount \subseteq ItemIds
    BY <1>3, <1>4, <1>5 DEF IsStore, Counts
  <2>2. r.itemRefCount \in [DOMAIN r.itemRefCount -> Nat \ {0}]
    BY <1>4, <1>5 DEF Counts
  <2>3. DOMAIN r = {"objects", "access", "before", "lists", "ItemsByID", "itemRefCount", "lastPrune"}
    BY <1>3, <1>5 DEF IsStore
  <2>4. Live(r) \subseteq Key /\ r.lastPrune \in {Never} \cup Nat
    BY <1>3, <1>5, <1>6 DEF IsStore
  <2>. QED BY <1>5, <1>6, <1>7, <1>8, <1>9, <2>1, <2>2, <2>3, <2>4 DEF IsStore
<1>11. HeldBy(s, D) = L
  BY DEF HeldBy, L
<1>. QED BY <1>1, <1>2, <1>3, <1>5, <1>6, <1>10, <1>11 DEF r, Dropped

\* delete*Locked takes one entry away as drop does, from the order too.
LEMMA DeleteBeside ==
  ASSUME NEW s, NEW c, Beside(c, s, Live(s)), NEW key \in Live(s)
  PROVE  Beside(deleteLocked(c, key), drop(s, {key}), Live(s) \ {key})
<1>. DEFINE m == releaseSlices(c, key)
            r == deleteLocked(c, key)
            d == drop(s, {key})
            kind == Kind(key)
            L == HeldBy(s, {key})
<1>0. IsStore(s) /\ Agrees(c, s) /\ Ordered(c, Live(s))
  BY DEF Beside
<1>1. key \in Key /\ kind \in TableKinds /\ key \in DOMAIN c.objects
  BY <1>0, KeyKind DEF IsStore, Agrees, Live
<1>2. L = Own(s, key)
  BY DEF Own, HeldBy
<1>17. Dropped(s, d, {key})
  BY <1>0, DropDrops
<1>3. Lessened(c, m, Lost(s, L))
  BY <1>0, <1>1, <1>2, ReleaseSlicesLessens
<1>4. PICK q : Lessened(s, q, Lost(s, L)) /\ d.ItemsByID = q.ItemsByID /\ d.itemRefCount = q.itemRefCount
  BY <1>17 DEF Dropped
<1>5. /\ IsStore(d) /\ Live(d) = Live(s) \ {key}
      /\ d.objects = Restrict(s.objects, DOMAIN s.objects \ {key})
      /\ d.access = Restrict(s.access, DOMAIN s.access \ {key})
      /\ d.before = { p \in s.before : p[1] # key /\ p[2] # key }
      /\ d.lists = Restrict(s.lists, { l \in DOMAIN s.lists : l[1] # key })
      /\ d.lastPrune = s.lastPrune
  <2>1. /\ IsStore(d) /\ Live(d) = Live(s) \ {key}
        /\ d.objects = Restrict(s.objects, DOMAIN s.objects \ {key})
        /\ d.access = Restrict(s.access, DOMAIN s.access \ {key})
        /\ d.before = { p \in s.before : p[1] \notin {key} /\ p[2] \notin {key} }
        /\ d.lists = Restrict(s.lists, { l \in DOMAIN s.lists : l[1] \notin {key} })
        /\ d.lastPrune = s.lastPrune
    BY <1>17 DEF Dropped
  <2>2. { p \in s.before : p[1] \notin {key} /\ p[2] \notin {key} }
          = { p \in s.before : p[1] # key /\ p[2] # key }
    OBVIOUS
  <2>3. { l \in DOMAIN s.lists : l[1] \notin {key} } = { l \in DOMAIN s.lists : l[1] # key }
    OBVIOUS
  <2>. QED BY <2>1, <2>2, <2>3
<1>. HIDE DEF L, m, d
<1>6. Agrees(m, q) /\ m.order = c.order
  BY <1>0, <1>3, <1>4, AgreesLessened
<1>7. /\ DOMAIN m = LoopFields /\ m = [f \in DOMAIN m |-> m[f]]
      /\ m.objects = s.objects /\ m.access = s.access /\ m.lists = s.lists
      /\ m.lastPrune = s.lastPrune
      /\ m.ItemsByID = d.ItemsByID /\ m.itemRefCount = d.itemRefCount
  <2>1. /\ DOMAIN m = LoopFields /\ m = [f \in DOMAIN m |-> m[f]]
        /\ m.ItemsByID = d.ItemsByID /\ m.itemRefCount = d.itemRefCount
    BY <1>4, <1>6 DEF Agrees
  <2>2. \A f \in DOMAIN c \ {"itemRefCount", "ItemsByID"} : m[f] = c[f]
    BY <1>3 DEF Lessened
  <2>3. DOMAIN c = LoopFields
    BY <1>0 DEF Agrees
  <2>4. m.objects = c.objects /\ m.access = c.access /\ m.lists = c.lists /\ m.lastPrune = c.lastPrune
    BY <2>2, <2>3 DEF LoopFields
  <2>. QED BY <1>0, <2>1, <2>4 DEF Agrees
<1>8. /\ DOMAIN r = LoopFields /\ r = [f \in DOMAIN r |-> r[f]]
      /\ r.objects = Restrict(m.objects, DOMAIN m.objects \ {key})
      /\ r.lists = Restrict(m.lists, { l \in DOMAIN m.lists : l[1] # key })
      /\ r.access = Restrict(m.access, DOMAIN m.access \ {key})
      /\ r.order = [m.order EXCEPT ![kind] = forgetID(@, key)]
      /\ r.ItemsByID = m.ItemsByID /\ r.itemRefCount = m.itemRefCount
      /\ r.lastPrune = m.lastPrune
  BY <1>1, <1>7 DEF deleteLocked, m, LoopFields
<1>. HIDE DEF r
<1>9. /\ r.objects = d.objects /\ r.access = d.access /\ r.lists = d.lists
      /\ r.ItemsByID = d.ItemsByID /\ r.itemRefCount = d.itemRefCount
      /\ r.lastPrune = d.lastPrune
  BY <1>5, <1>7, <1>8
<1>10. /\ r.order = [k \in TableKinds |-> r.order[k]]
       /\ r.order[kind] = forgetID(c.order[kind], key)
       /\ \A k \in TableKinds \ {kind} : r.order[k] = c.order[k]
  BY <1>0, <1>1, <1>6, <1>8 DEF Ordered
<1>11. /\ Walks(r.order[kind], OfKind(Live(s), kind) \ {key})
       /\ \A x, y : <<x, y>> \in Pairs(r.order[kind])
                      <=> <<x, y>> \in Pairs(c.order[kind]) /\ x # key /\ y # key
  <2>1. Walks(c.order[kind], OfKind(Live(s), kind))
    BY <1>0, <1>1 DEF Ordered
  <2>. HIDE DEF kind
  <2>. QED BY <1>10, <2>1, ForgetWalks
<1>12. /\ OfKind(Live(s) \ {key}, kind) = OfKind(Live(s), kind) \ {key}
       /\ \A k \in TableKinds \ {kind} : /\ OfKind(Live(s) \ {key}, k) = OfKind(Live(s), k)
                                         /\ key \notin OfKind(Live(s), k)
  BY DEF OfKind
<1>. HIDE DEF kind
<1>13. Ordered(r, Live(s) \ {key})
  <2>1. ASSUME NEW k \in TableKinds PROVE Walks(r.order[k], OfKind(Live(s) \ {key}, k))
    <3>1. CASE k = kind
      BY <1>11, <1>12, <3>1
    <3>2. CASE k # kind
      <4>1. Walks(c.order[k], OfKind(Live(s), k))
        BY <1>0 DEF Ordered
      <4>. QED BY <1>10, <1>12, <3>2, <4>1
    <3>. QED BY <3>1, <3>2
  <2>. QED BY <1>10, <2>1 DEF Ordered
<1>14. ASSUME NEW k \in TableKinds, NEW x, NEW y
       PROVE  <<x, y>> \in Pairs(r.order[k]) <=> <<x, y>> \in Pairs(c.order[k]) /\ x # key /\ y # key
  <2>1. CASE k = kind
    BY <1>11, <2>1
  <2>2. CASE k # kind
    <3>1. <<x, y>> \in Pairs(c.order[k]) => x # key /\ y # key
      BY <1>0, <1>12, <2>2, PairsOfKind
    <3>. QED BY <1>10, <2>2, <3>1
  <2>. QED BY <2>1, <2>2
<1>15. d.before = UNION { Pairs(r.order[k]) : k \in DOMAIN r.order }
  <2>0. DOMAIN r.order = TableKinds /\ DOMAIN c.order = TableKinds
    BY <1>0, <1>10 DEF Ordered
  <2>. DEFINE B == UNION { Pairs(r.order[k]) : k \in TableKinds }
  <2>1. \A x, y : <<x, y>> \in B <=> \E k \in TableKinds : <<x, y>> \in Pairs(r.order[k])
    OBVIOUS
  <2>2. \A x, y : <<x, y>> \in s.before <=> \E k \in TableKinds : <<x, y>> \in Pairs(c.order[k])
    BY <1>0, BeforeInOrder
  <2>3. \A x, y : <<x, y>> \in d.before <=> <<x, y>> \in s.before /\ x # key /\ y # key
    BY <1>5
  <2>4. \A x, y : <<x, y>> \in B <=> <<x, y>> \in d.before
    BY <1>14, <2>1, <2>2, <2>3
  <2>5. \A p \in B : \E x, y : p = <<x, y>>
    BY DEF Pairs
  <2>6. \A p \in d.before : \E x, y : p = <<x, y>>
    BY <1>5 DEF IsStore
  <2>7. d.before = B
    <3>. HIDE DEF B
    <3>. QED BY <2>4, <2>5, <2>6
  <2>. QED BY <2>0, <2>7
<1>16. Agrees(r, d)
  BY <1>8, <1>9, <1>15 DEF Agrees
<1>. QED BY <1>5, <1>13, <1>16 DEF Beside, r, d

LEMMA DroppedIsOne ==
  ASSUME NEW s, IsStore(s), NEW D, NEW r, Dropped(s, r, D), NEW q, Dropped(s, q, D)
  PROVE  r = q
<1>1. PICK m : /\ Lessened(s, m, Lost(s, HeldBy(s, D)))
               /\ r.ItemsByID = m.ItemsByID /\ r.itemRefCount = m.itemRefCount
  BY DEF Dropped
<1>2. PICK n : /\ Lessened(s, n, Lost(s, HeldBy(s, D)))
               /\ q.ItemsByID = n.ItemsByID /\ q.itemRefCount = n.itemRefCount
  BY DEF Dropped
<1>3. m = n
  BY <1>1, <1>2, LessenedIsOne
<1>4. /\ r.objects = q.objects /\ r.access = q.access /\ r.before = q.before
      /\ r.lists = q.lists /\ r.lastPrune = q.lastPrune
      /\ r.ItemsByID = q.ItemsByID /\ r.itemRefCount = q.itemRefCount
  <2>1. r.ItemsByID = q.ItemsByID /\ r.itemRefCount = q.itemRefCount
    BY <1>1, <1>2, <1>3
  <2>. QED BY <2>1 DEF Dropped
<1>5. /\ DOMAIN r = DOMAIN q /\ r = [f \in DOMAIN r |-> r[f]] /\ q = [f \in DOMAIN q |-> q[f]]
      /\ DOMAIN r = {"objects", "access", "before", "lists", "ItemsByID",
                     "itemRefCount", "lastPrune"}
  BY DEF Dropped, IsStore
<1>6. \A f \in DOMAIN r : r[f] = q[f]
  BY <1>4, <1>5
<1>. QED BY <1>5, <1>6

\* Taking away D and then E is taking away both.
LEMMA DropTwice ==
  ASSUME NEW s, IsStore(s), NEW D, NEW E, NEW B, B = D \cup E
  PROVE  drop(drop(s, D), E) = drop(s, B)
<1>. DEFINE r == drop(s, D)
            q == drop(r, E)
            L == HeldBy(s, D)
            M == HeldBy(r, E)
<1>1. Dropped(s, r, D)
  BY DropDrops
<1>2. IsStore(r)
  BY <1>1 DEF Dropped
<1>3. Dropped(r, q, E)
  BY <1>2, DropDrops
<1>. HIDE DEF r, q
<1>4. /\ IsStore(q) /\ Live(q) = Live(s) \ B
      /\ q.objects = Restrict(s.objects, DOMAIN s.objects \ B)
      /\ q.access = Restrict(s.access, DOMAIN s.access \ B)
  BY <1>1, <1>3 DEF Dropped, Restrict
<1>5. /\ q.before = { p \in s.before : p[1] \notin B /\ p[2] \notin B }
      /\ q.lists = Restrict(s.lists, { l \in DOMAIN s.lists : l[1] \notin B })
      /\ q.lastPrune = s.lastPrune
  BY <1>1, <1>3 DEF Dropped, Restrict
<1>6. /\ DOMAIN r.lists = { l \in DOMAIN s.lists : l[1] \notin D }
      /\ \A l \in DOMAIN r.lists : r.lists[l] = s.lists[l]
  BY <1>1 DEF Dropped, Restrict
<1>7. /\ HeldBy(s, B) = L \cup M
      /\ \A l \in L : l \notin M
      /\ \A l \in M : r.lists[l] = s.lists[l]
  BY <1>6 DEF HeldBy, Holding
<1>8. IsFiniteSet(L) /\ IsFiniteSet(M)
  BY <1>1, <1>3 DEF Dropped
<1>9. Lost(r, M) = Lost(s, M)
  BY <1>7, LostOfSame
<1>10. PICK m : /\ Lessened(s, m, Lost(s, L))
                /\ r.ItemsByID = m.ItemsByID /\ r.itemRefCount = m.itemRefCount
  BY <1>1 DEF Dropped
<1>11. PICK n : /\ Lessened(r, n, Lost(r, M))
                /\ q.ItemsByID = n.ItemsByID /\ q.itemRefCount = n.itemRefCount
  BY <1>3 DEF Dropped
<1>. HIDE DEF L, M
<1>. DEFINE x == [m EXCEPT !.itemRefCount = n.itemRefCount, !.ItemsByID = n.ItemsByID]
            lost == Lost(r, M)
<1>12. /\ DOMAIN m = DOMAIN s /\ m = [f \in DOMAIN m |-> m[f]]
       /\ "itemRefCount" \in DOMAIN m /\ "ItemsByID" \in DOMAIN m
  BY <1>10 DEF Lessened, IsStore
<1>13. /\ DOMAIN x = DOMAIN m /\ x = [f \in DOMAIN x |-> x[f]]
       /\ x.itemRefCount = n.itemRefCount /\ x.ItemsByID = n.ItemsByID
       /\ \A f \in DOMAIN m \ {"itemRefCount", "ItemsByID"} : x[f] = m[f]
  BY <1>12
<1>. HIDE DEF x, lost
<1>14. Lessened(m, x, lost)
  <2>. DEFINE goneR == { i \in ItemIds : lost[i] > 0 /\ RefCount(r, i) <= lost[i] }
              goneM == { i \in ItemIds : lost[i] > 0 /\ RefCount(m, i) <= lost[i] }
  <2>1. \A i \in ItemIds : RefCount(r, i) = RefCount(m, i)
    BY <1>10 DEF RefCount
  <2>2. goneR = goneM
    BY <2>1
  <2>3. /\ n.ItemsByID = r.ItemsByID \ goneR
        /\ n.itemRefCount = [i \in DOMAIN r.itemRefCount \ goneR |-> r.itemRefCount[i] - lost[i]]
    BY <1>11 DEF Lessened, lost
  <2>. HIDE DEF goneR, goneM
  <2>4. /\ x.ItemsByID = m.ItemsByID \ goneM
        /\ x.itemRefCount = [i \in DOMAIN m.itemRefCount \ goneM |-> m.itemRefCount[i] - lost[i]]
    BY <1>10, <1>13, <2>2, <2>3
  <2>. QED BY <1>13, <2>4 DEF Lessened, goneM
<1>15. Lessened(s, x, Lost(s, L \cup M))
  <2>1. Lost(s, L) \in [ItemIds -> Nat] /\ Lost(s, M) \in [ItemIds -> Nat]
    BY <1>8, LostType
  <2>2. IsFiniteSet(L \cup M)
    BY <1>8, FS_Union
  <2>3. Lost(s, L \cup M) \in [ItemIds -> Nat]
    BY <2>2, LostType
  <2>4. /\ IsFiniteSet(L)
        /\ IsFiniteSet(M)
        /\ \A l \in L : l \notin M
    BY <1>7, <1>8
  <2>5. \A i \in ItemIds : Lost(s, L \cup M)[i] = Lost(s, L)[i] + Lost(s, M)[i]
    BY <2>4, LostOfBoth
  <2>6. Counts(s)
    BY DEF IsStore, Counts
  <2>7. Lessened(s, m, Lost(s, L)) /\ Lessened(m, x, Lost(s, M))
    BY <1>9, <1>10, <1>14 DEF lost
  <2>. QED BY <2>1, <2>3, <2>5, <2>6, <2>7, LessenedTwice
<1>16. /\ Lessened(s, x, Lost(s, HeldBy(s, B)))
       /\ q.ItemsByID = x.ItemsByID /\ q.itemRefCount = x.itemRefCount
       /\ IsFiniteSet(HeldBy(s, B))
  <2>1. HeldBy(s, B) = L \cup M
    BY <1>7
  <2>2. Lessened(s, x, Lost(s, HeldBy(s, B)))
    BY <1>15, <2>1
  <2>3. IsFiniteSet(HeldBy(s, B))
    BY <1>8, <2>1, FS_Union
  <2>. QED BY <1>11, <1>13, <2>2, <2>3
<1>17. Dropped(s, q, B)
  BY <1>4, <1>5, <1>16 DEF Dropped
<1>18. q = drop(s, B)
  BY <1>17, DropDrops, DroppedIsOne
<1>. QED BY <1>18 DEF q, r

\* Nobody goes, nothing changes.
LEMMA DropNobody ==
  ASSUME NEW s, IsStore(s), NEW D, D \cap Live(s) = {}
  PROVE  drop(s, D) = s
<1>1. HeldBy(s, D) = {} /\ \A l \in DOMAIN s.lists : l[1] \notin D
  <2>1. \A l \in DOMAIN s.lists : l[1] \in Live(s)
    <3>1. DOMAIN s.lists = Slices(Live(s))
      BY DEF IsStore
    <3>. QED BY <3>1, SliceMembers
  <2>. QED BY <2>1 DEF HeldBy, Holding
<1>2. Lessened(s, s, Lost(s, {}))
  <2>1. \A i : Cardinality(Holders(s, {}, i)) = 0
    BY FS_EmptySet DEF Holders
  <2>2. Lost(s, {}) \in [ItemIds -> Nat] /\ \A i \in ItemIds : Lost(s, {})[i] = 0
    BY <2>1, FS_EmptySet, LostType
  <2>3. Counts(s)
    BY DEF IsStore, Counts
  <2>. QED BY <2>2, <2>3, LessenedByNothing
<1>3. /\ Live(s) = Live(s) \ D
      /\ s.objects = Restrict(s.objects, DOMAIN s.objects \ D)
      /\ s.access = Restrict(s.access, DOMAIN s.access \ D)
      /\ s.before = { p \in s.before : p[1] \notin D /\ p[2] \notin D }
      /\ s.lists = Restrict(s.lists, { l \in DOMAIN s.lists : l[1] \notin D })
  <2>1. DOMAIN s.objects = Live(s) /\ DOMAIN s.access = Live(s)
    BY DEF Live, IsStore
  <2>2. Live(s) = Live(s) \ D
    OBVIOUS
  <2>3. { l \in DOMAIN s.lists : l[1] \notin D } = DOMAIN s.lists
    BY <1>1
  <2>4. s.objects = Restrict(s.objects, Live(s)) /\ s.access = Restrict(s.access, Live(s))
    BY <2>1 DEF IsStore, Restrict
  <2>5. s.lists = Restrict(s.lists, DOMAIN s.lists)
    BY DEF IsStore, Restrict
  <2>6. s.before = { p \in s.before : p[1] \notin D /\ p[2] \notin D }
    BY DEF IsStore
  <2>. QED BY <2>1, <2>2, <2>3, <2>4, <2>5, <2>6
<1>4. Dropped(s, s, D)
  BY <1>1, <1>2, <1>3, FS_EmptySet DEF Dropped
<1>. QED BY <1>4, DropDrops, DroppedIsOne

\* Between the calls, and between the turns of a loop, the order lists what lives.
Twins(c, s) == Beside(c, s, Live(s))

LEMMA DeleteTwins ==
  ASSUME NEW s, NEW c, Twins(c, s), NEW key \in Live(s)
  PROVE  Twins(deleteLocked(c, key), drop(s, {key}))
<1>1. IsStore(s)
  BY DEF Twins, Beside
<1>2. Live(drop(s, {key})) = Live(s) \ {key}
  BY <1>1, DropDrops DEF Dropped
<1>. QED BY <1>2, DeleteBeside DEF Twins

LEMMA LiveTwins ==
  ASSUME NEW s, NEW c, Twins(c, s)
  PROVE  /\ IsStore(s) /\ DOMAIN c.objects = Live(s) /\ DOMAIN c.access = Live(s)
         /\ c.access = s.access /\ IsFiniteSet(Live(s)) /\ Live(s) \subseteq Key
BY DEF Twins, Beside, Agrees, Live, IsStore

-----------------------------------------------------------------------------
(* The prune, key by key.                                                  *)

\* f says what the walk has made of c after each of n keys.
Prunes(f, c, walk, cutoff, n) ==
  f = [k \in 0..n |-> IF k = 0 THEN c ELSE pruneOne(f[k - 1], walk[k], cutoff)]

LEMMA PrunesExtend ==
  ASSUME NEW c, NEW walk, NEW cutoff, NEW n \in Nat, NEW f, Prunes(f, c, walk, cutoff, n)
  PROVE  \E g : Prunes(g, c, walk, cutoff, n + 1)
<1>. DEFINE e(k) == IF k = 0 THEN c ELSE pruneOne(f[k - 1], walk[k], cutoff)
            g == [k \in 0..(n + 1) |-> e(k)]
<1>1. \A k \in 0..n : g[k] = f[k]
  BY DEF Prunes
<1>2. \A k \in 0..(n + 1) : k # 0 => g[k - 1] = f[k - 1]
  <2>1. \A k \in 0..(n + 1) : k # 0 => k - 1 \in 0..n
    OBVIOUS
  <2>. HIDE DEF g
  <2>. QED BY <1>1, <2>1
<1>3. \A k \in 0..(n + 1) : e(k) = IF k = 0 THEN c ELSE pruneOne(g[k - 1], walk[k], cutoff)
  BY <1>2
<1>4. g = [k \in 0..(n + 1) |-> IF k = 0 THEN c ELSE pruneOne(g[k - 1], walk[k], cutoff)]
  BY <1>3
<1>. QED BY <1>4 DEF Prunes

LEMMA PrunesExist ==
  ASSUME NEW c, NEW walk, NEW cutoff, NEW n \in Nat PROVE \E f : Prunes(f, c, walk, cutoff, n)
<1>. DEFINE Bad == { k \in Nat : ~ \E f : Prunes(f, c, walk, cutoff, k) }
<1>. SUFFICES ASSUME Bad # {} PROVE FALSE
  OBVIOUS
<1>1. PICK k \in Bad : \A j \in Bad : k <= j
  BY SmallestOf
<1>2. CASE k = 0
  <2>. DEFINE f == [j \in 0..0 |-> c]
  <2>1. f = [j \in 0..0 |-> IF j = 0 THEN c ELSE pruneOne(f[j - 1], walk[j], cutoff)]
    OBVIOUS
  <2>. QED BY <1>1, <1>2, <2>1 DEF Prunes
<1>3. CASE k # 0
  <2>1. k - 1 \in Nat /\ k - 1 \notin Bad /\ (k - 1) + 1 = k
    BY <1>1, <1>3
  <2>2. PICK f : Prunes(f, c, walk, cutoff, k - 1)
    BY <2>1
  <2>3. \E g : Prunes(g, c, walk, cutoff, k)
    BY <2>1, <2>2, PrunesExtend
  <2>. QED BY <1>1, <2>3
<1>. QED BY <1>2, <1>3

\* The prune's loops, in whatever order they walk the entries, take away those
\* whose time has run out.
LEMMA PruneWalkTwins ==
  ASSUME NEW s, NEW c, Twins(c, s), NEW walk, Walks(walk, Live(s)), NEW cutoff,
         NEW D, D = { key \in DOMAIN s.access : s.access[key] < cutoff }
  PROVE  Twins(pruneWalk(c, walk, cutoff), drop(s, D))
<1>. DEFINE N == Len(walk)
            F == CHOOSE f : f = [n \in 0..N |->
                                   IF n = 0 THEN c ELSE pruneOne(f[n - 1], walk[n], cutoff)]
            gone(n) == Passed(walk, n) \cap D
            Bad == { n \in 0..N : ~Twins(F[n], drop(s, gone(n))) }
<1>1. N \in Nat
  BY DEF Walks
<1>2. IsStore(s) /\ DOMAIN s.access = Live(s)
  BY LiveTwins DEF IsStore
<1>3. pruneWalk(c, walk, cutoff) = F[N]
  BY DEF pruneWalk
<1>4. F = [n \in 0..N |-> IF n = 0 THEN c ELSE pruneOne(F[n - 1], walk[n], cutoff)]
  <2>. HIDE DEF N
  <2>1. PICK f : Prunes(f, c, walk, cutoff, N)
    BY <1>1, PrunesExist
  <2>2. f = [n \in 0..N |-> IF n = 0 THEN c ELSE pruneOne(f[n - 1], walk[n], cutoff)]
    BY <2>1 DEF Prunes
  <2>. QED BY <2>2
<1>. HIDE DEF F, N
<1>5. Bad = {}
  <2>. SUFFICES ASSUME Bad # {} PROVE FALSE
    OBVIOUS
  <2>0. Bad \subseteq Nat
    BY <1>1
  <2>1. PICK n \in Bad : \A m \in Bad : n <= m
    <3>. HIDE DEF Bad
    <3>. QED BY <2>0, SmallestOf
  <2>2. n \in 0..N /\ ~Twins(F[n], drop(s, gone(n)))
    BY <2>1
  <2>3. CASE n = 0
    <3>1. F[0] = c
      BY <1>1, <1>4
    <3>2. gone(0) = {}
      BY PassAll
    <3>3. drop(s, {}) = s
      BY <1>2, DropNobody
    <3>. QED BY <2>2, <2>3, <3>1, <3>2, <3>3
  <2>4. CASE n # 0
    <3>1. n - 1 \in 0..N /\ ~(n <= n - 1) /\ n \in 1..N
      BY <1>1, <2>2, <2>4
    <3>2. n - 1 \notin Bad
      <4>. HIDE DEF Bad
      <4>. QED BY <2>1, <3>1
    <3>. DEFINE before == gone(n - 1)
                key == walk[n]
                b == F[n - 1]
                d == drop(s, before)
    <3>3. Twins(b, d)
      BY <3>1, <3>2
    <3>4. F[n] = pruneOne(b, key, cutoff)
      BY <1>1, <1>4, <2>2, <2>4
    <3>5. /\ key \in Live(s) /\ key \notin before
          /\ gone(n) = before \cup ({key} \cap D)
      <4>1. /\ key \in Live(s) /\ key \notin Passed(walk, n - 1)
            /\ Passed(walk, n) = Passed(walk, n - 1) \cup {key}
        BY <3>1, PassOne DEF N
      <4>. QED BY <4>1
    <3>. HIDE DEF Bad, before, key, b
    <3>6. Live(d) = Live(s) \ before /\ d.access[key] = s.access[key]
      <4>1. Dropped(s, d, before)
        BY <1>2, DropDrops
      <4>. HIDE DEF d
      <4>2. Live(d) = Live(s) \ before /\ d.access = Restrict(s.access, Live(s) \ before)
        BY <1>2, <4>1 DEF Dropped
      <4>3. key \in Live(s) \ before
        BY <3>5
      <4>. QED BY <4>2, <4>3 DEF Restrict
    <3>7. b.access[key] = s.access[key]
      BY <3>3, <3>6, LiveTwins
    <3>8. key \in D <=> s.access[key] < cutoff
      BY <1>2, <3>5
    <3>9. CASE key \in D
      <4>1. F[n] = deleteLocked(b, key)
        BY <3>4, <3>7, <3>8, <3>9 DEF pruneOne
      <4>2. Twins(deleteLocked(b, key), drop(d, {key}))
        <5>1. key \in Live(d)
          BY <3>5, <3>6
        <5>. HIDE DEF d
        <5>. QED BY <3>3, <5>1, DeleteTwins
      <4>3. gone(n) = before \cup {key}
        BY <3>5, <3>9
      <4>4. drop(d, {key}) = drop(s, gone(n))
        <5>. HIDE DEF gone
        <5>. QED BY <1>2, <4>3, DropTwice
      <4>. QED BY <2>2, <4>1, <4>2, <4>4
    <3>10. CASE key \notin D
      <4>1. F[n] = b
        BY <3>4, <3>7, <3>8, <3>10 DEF pruneOne
      <4>2. gone(n) = before
        BY <3>5, <3>10
      <4>3. Twins(F[n], drop(s, gone(n)))
        <5>. HIDE DEF gone
        <5>. QED BY <3>3, <4>1, <4>2
      <4>. QED BY <2>2, <4>3
    <3>. QED BY <3>9, <3>10
  <2>. QED BY <2>3, <2>4
<1>6. gone(N) = D
  <2>1. Passed(walk, N) = Live(s)
    BY PassAll DEF N
  <2>. QED BY <1>2, <2>1
<1>7. N \in 0..N
  BY <1>1
<1>. QED BY <1>3, <1>5, <1>6, <1>7

-----------------------------------------------------------------------------
(* What both stores do in the same words.                                  *)

\* r and q say the same but for the order.
Same(r, q) ==
  /\ DOMAIN r = LoopFields /\ r = [f \in DOMAIN r |-> r[f]]
  /\ r.objects = q.objects /\ r.access = q.access /\ r.lists = q.lists
  /\ r.ItemsByID = q.ItemsByID /\ r.itemRefCount = q.itemRefCount
  /\ r.lastPrune = q.lastPrune

\* A change that is the same on both sides and not in the order.
LEMMA SameChange ==
  ASSUME NEW s, NEW c, NEW K, Beside(c, s, K),
         NEW r, NEW q, IsStore(q), Same(r, q), r.order = c.order, q.before = s.before
  PROVE  Beside(r, q, K)
BY DEF Beside, Same, Agrees, Ordered

LEMMA BesideFields ==
  ASSUME NEW s, NEW c, NEW K, Beside(c, s, K)
  PROVE  /\ IsStore(s) /\ Same(c, s)
         /\ Live(c) = Live(s)
         /\ \A i : RefCount(c, i) = RefCount(s, i)
BY DEF Beside, Agrees, Same, Live, RefCount

LEMMA RegisterBeside ==
  ASSUME NEW s, NEW c, NEW K, Beside(c, s, K), NEW items \in Seq(ItemIds)
  PROVE  Beside(registerItems(c, items), registerItems(s, items), K)
<1>. DEFINE r == registerItems(c, items)
            q == registerItems(s, items)
<1>1. IsStore(s) /\ Same(c, s)
  BY BesideFields
<1>2. /\ DOMAIN r = LoopFields /\ r = [f \in DOMAIN r |-> r[f]]
      /\ r.objects = c.objects /\ r.access = c.access /\ r.lists = c.lists /\ r.order = c.order
      /\ r.ItemsByID = c.ItemsByID \cup itemIDs(items) /\ r.itemRefCount = c.itemRefCount
      /\ r.lastPrune = c.lastPrune
  BY <1>1 DEF registerItems, Same, LoopFields
<1>3. /\ IsStore(q) /\ q.ItemsByID = s.ItemsByID \cup itemIDs(items)
      /\ \A f \in DOMAIN s \ {"ItemsByID"} : q[f] = s[f]
  BY <1>1, RegisterItemsStore
<1>4. /\ q.objects = s.objects /\ q.access = s.access /\ q.lists = s.lists
      /\ q.before = s.before /\ q.itemRefCount = s.itemRefCount /\ q.lastPrune = s.lastPrune
  BY <1>1, <1>3 DEF IsStore
<1>. HIDE DEF r, q
<1>5. Same(r, q)
  BY <1>1, <1>2, <1>3, <1>4 DEF Same
<1>6. Beside(r, q, K)
  BY <1>2, <1>3, <1>4, <1>5, SameChange
<1>. QED BY <1>6 DEF r, q

LEMMA AddRefsBeside ==
  ASSUME NEW s, NEW c, NEW K, Beside(c, s, K), NEW ids \in SUBSET ItemIds
  PROVE  Beside(addItemRefs(c, ids), addItemRefs(s, ids), K)
<1>. DEFINE r == addItemRefs(c, ids)
            q == addItemRefs(s, ids)
            counts == [i \in DOMAIN s.itemRefCount \cup ids |->
                         RefCount(s, i) + IF i \in ids THEN 1 ELSE 0]
<1>1. IsStore(s) /\ Same(c, s) /\ \A i : RefCount(c, i) = RefCount(s, i)
  BY BesideFields
<1>2. /\ DOMAIN r = LoopFields /\ r = [f \in DOMAIN r |-> r[f]]
      /\ r.objects = c.objects /\ r.access = c.access /\ r.lists = c.lists /\ r.order = c.order
      /\ r.ItemsByID = c.ItemsByID /\ r.lastPrune = c.lastPrune
      /\ r.itemRefCount = [i \in DOMAIN c.itemRefCount \cup ids |->
                             RefCount(c, i) + IF i \in ids THEN 1 ELSE 0]
  BY <1>1 DEF addItemRefs, Same, LoopFields
<1>3. q.itemRefCount = counts /\ DOMAIN q = DOMAIN s
  BY <1>1 DEF addItemRefs, IsStore
<1>4. IsStore(q) /\ \A f \in DOMAIN s \ {"itemRefCount"} : q[f] = s[f]
  BY <1>1, AddItemRefsStore
<1>5. /\ q.objects = s.objects /\ q.access = s.access /\ q.lists = s.lists
      /\ q.before = s.before /\ q.ItemsByID = s.ItemsByID /\ q.lastPrune = s.lastPrune
  BY <1>1, <1>4 DEF IsStore
<1>6. r.itemRefCount = counts
  BY <1>1, <1>2 DEF Same
<1>. HIDE DEF r, q, counts
<1>7. Same(r, q)
  BY <1>1, <1>2, <1>3, <1>5, <1>6 DEF Same
<1>8. Beside(r, q, K)
  BY <1>2, <1>4, <1>5, <1>7, SameChange
<1>. QED BY <1>8 DEF r, q

LEMMA PutBeside ==
  ASSUME NEW s, NEW c, NEW K, Beside(c, s, K), NEW key \in Key, NEW value \in Values,
         NEW t \in Nat, NEW lists \in [ListNames(Kind(key)) -> Seq(ItemIds)]
  PROVE  /\ Beside(put(c, key, value, lists, t), put(s, key, value, lists, t), K)
         /\ Live(put(s, key, value, lists, t)) = Live(s) \cup {key}
         /\ put(s, key, value, lists, t).before = s.before
<1>. DEFINE r == put(c, key, value, lists, t)
            q == put(s, key, value, lists, t)
<1>1. IsStore(s) /\ Same(c, s)
  BY BesideFields
<1>2. /\ DOMAIN r = LoopFields /\ r = [f \in DOMAIN r |-> r[f]]
      /\ r.objects = [k \in DOMAIN c.objects \cup {key} |-> IF k = key THEN value ELSE c.objects[k]]
      /\ r.access = [k \in DOMAIN c.access \cup {key} |-> IF k = key THEN t ELSE c.access[k]]
      /\ r.lists = [l \in DOMAIN c.lists \cup Slices({key}) |->
                      IF l[1] = key THEN lists[l[2]] ELSE c.lists[l]]
      /\ r.order = c.order /\ r.ItemsByID = c.ItemsByID /\ r.itemRefCount = c.itemRefCount
      /\ r.lastPrune = c.lastPrune
  BY <1>1 DEF put, Same, LoopFields
<1>3. /\ q.objects = [k \in DOMAIN s.objects \cup {key} |-> IF k = key THEN value ELSE s.objects[k]]
      /\ q.access = [k \in DOMAIN s.access \cup {key} |-> IF k = key THEN t ELSE s.access[k]]
      /\ q.lists = [l \in DOMAIN s.lists \cup Slices({key}) |->
                      IF l[1] = key THEN lists[l[2]] ELSE s.lists[l]]
      /\ q.before = s.before /\ q.ItemsByID = s.ItemsByID /\ q.itemRefCount = s.itemRefCount
      /\ q.lastPrune = s.lastPrune
  BY <1>1 DEF put, IsStore
<1>4. IsStore(q) /\ Live(q) = Live(s) \cup {key}
  <2>1. PutInto(s, q, key, value, lists, t)
    BY <1>1, PutStore
  <2>. HIDE DEF q
  <2>. QED BY <2>1 DEF PutInto
<1>. HIDE DEF r, q
<1>5. Same(r, q)
  BY <1>1, <1>2, <1>3 DEF Same
<1>6. Beside(r, q, K)
  BY <1>2, <1>3, <1>4, <1>5, SameChange
<1>. QED BY <1>3, <1>4, <1>6 DEF r, q

LEMMA ReadBeside ==
  ASSUME NEW s, NEW c, NEW K, Beside(c, s, K), NEW key, NEW t \in Nat
  PROVE  /\ Beside(read(c, key, t), read(s, key, t), K)
         /\ Live(read(s, key, t)) = Live(s)
<1>. DEFINE r == [c EXCEPT !.access[key] = t]
            q == [s EXCEPT !.access[key] = t]
<1>1. IsStore(s) /\ Same(c, s) /\ Live(c) = Live(s)
  BY BesideFields
<1>2. CASE key \notin Live(s)
  BY <1>1, <1>2 DEF read
<1>3. CASE key \in Live(s)
  <2>1. /\ DOMAIN r = LoopFields /\ r = [f \in DOMAIN r |-> r[f]]
        /\ r.access = [c.access EXCEPT ![key] = t] /\ r.objects = c.objects
        /\ r.lists = c.lists /\ r.order = c.order /\ r.ItemsByID = c.ItemsByID
        /\ r.itemRefCount = c.itemRefCount /\ r.lastPrune = c.lastPrune
    BY <1>1 DEF Same, LoopFields
  <2>2. /\ DOMAIN q = DOMAIN s /\ q = [f \in DOMAIN q |-> q[f]]
        /\ q.access = [s.access EXCEPT ![key] = t] /\ q.objects = s.objects
        /\ q.lists = s.lists /\ q.before = s.before /\ q.ItemsByID = s.ItemsByID
        /\ q.itemRefCount = s.itemRefCount /\ q.lastPrune = s.lastPrune
    BY <1>1 DEF IsStore
  <2>. HIDE DEF r, q
  <2>3. Live(q) = Live(s) /\ q.access \in [Live(s) -> Nat]
    BY <1>1, <2>2 DEF IsStore, Live
  <2>4. IsStore(q)
    BY <1>1, <2>2, <2>3 DEF IsStore
  <2>5. Same(r, q)
    BY <1>1, <2>1, <2>2 DEF Same
  <2>6. Beside(r, q, K)
    BY <2>1, <2>2, <2>4, <2>5, SameChange
  <2>7. read(c, key, t) = r /\ read(s, key, t) = q
    BY <1>1, <1>3 DEF read, r, q
  <2>. QED BY <2>3, <2>6, <2>7
<1>. QED BY <1>2, <1>3

LEMMA UpdateBeside ==
  ASSUME NEW s, NEW c, NEW K, Beside(c, s, K), NEW key, NEW value \in Values, NEW t \in Nat
  PROVE  /\ Beside(update(c, key, value, t), update(s, key, value, t), K)
         /\ Live(update(s, key, value, t)) = Live(s)
<1>. DEFINE r == [c EXCEPT !.objects[key] = value, !.access[key] = t]
            q == [s EXCEPT !.objects[key] = value, !.access[key] = t]
<1>1. IsStore(s) /\ Same(c, s) /\ Live(c) = Live(s)
  BY BesideFields
<1>2. CASE key \notin Live(s)
  BY <1>1, <1>2 DEF update
<1>3. CASE key \in Live(s)
  <2>1. /\ DOMAIN r = LoopFields /\ r = [f \in DOMAIN r |-> r[f]]
        /\ r.access = [c.access EXCEPT ![key] = t]
        /\ r.objects = [c.objects EXCEPT ![key] = value]
        /\ r.lists = c.lists /\ r.order = c.order /\ r.ItemsByID = c.ItemsByID
        /\ r.itemRefCount = c.itemRefCount /\ r.lastPrune = c.lastPrune
    BY <1>1 DEF Same, LoopFields
  <2>2. /\ DOMAIN q = DOMAIN s /\ q = [f \in DOMAIN q |-> q[f]]
        /\ q.access = [s.access EXCEPT ![key] = t]
        /\ q.objects = [s.objects EXCEPT ![key] = value]
        /\ q.lists = s.lists /\ q.before = s.before /\ q.ItemsByID = s.ItemsByID
        /\ q.itemRefCount = s.itemRefCount /\ q.lastPrune = s.lastPrune
    BY <1>1 DEF IsStore
  <2>. HIDE DEF r, q
  <2>3. Live(q) = Live(s) /\ q.access \in [Live(s) -> Nat] /\ q.objects \in [Live(s) -> Values]
    BY <1>1, <2>2 DEF IsStore, Live
  <2>4. IsStore(q)
    BY <1>1, <2>2, <2>3 DEF IsStore
  <2>5. Same(r, q)
    BY <1>1, <2>1, <2>2 DEF Same
  <2>6. Beside(r, q, K)
    BY <2>1, <2>2, <2>4, <2>5, SameChange
  <2>7. update(c, key, value, t) = r /\ update(s, key, value, t) = q
    BY <1>1, <1>3 DEF update, r, q
  <2>. QED BY <2>3, <2>6, <2>7
<1>. QED BY <1>2, <1>3

LEMMA AppendBeside ==
  ASSUME NEW s, NEW c, NEW K, Beside(c, s, K), NEW key \in ConversationKey, NEW t \in Nat,
         NEW added \in Seq(ItemIds)
  PROVE  /\ Beside(appendTurn(c, key, added, t), appendTurn(s, key, added, t), K)
         /\ Live(appendTurn(s, key, added, t)) = Live(s)
<1>. DEFINE l == <<key, "items">>
            held == s.lists[l]
            ids == itemIDs(added) \ itemIDs(held)
            r == [c EXCEPT !.lists[l] = held \o added]
            q == [s EXCEPT !.lists[l] = held \o added]
            rr == addItemRefs(registerItems(r, added), ids)
            qq == addItemRefs(registerItems(q, added), ids)
<1>1. IsStore(s) /\ Same(c, s) /\ Live(c) = Live(s)
  BY BesideFields
<1>2. CASE key \notin Live(s)
  BY <1>1, <1>2 DEF appendTurn
<1>3. CASE key \in Live(s)
  <2>0. l \in DOMAIN s.lists /\ held \in Seq(ItemIds) /\ DOMAIN s.lists = Slices(Live(s))
    <3>1. "items" \in ListNames(Kind(key))
      BY KeyKinds
    <3>2. l \in DOMAIN s.lists /\ s.lists[l] \in Seq(ItemIds)
      BY <1>1, <1>3, <3>1, LiveSlices
    <3>. QED BY <1>1, <3>2 DEF IsStore
  <2>1. c.lists[l] = held
    BY <1>1 DEF Same
  <2>2. held \o added \in Seq(ItemIds) /\ ids \in SUBSET ItemIds
    BY <2>0, ItemIDsOfConcat, ItemIDsType
  <2>. HIDE DEF l, held, ids
  <2>3. /\ DOMAIN r = LoopFields /\ r = [f \in DOMAIN r |-> r[f]]
        /\ r.lists = [c.lists EXCEPT ![l] = held \o added]
        /\ r.access = c.access /\ r.objects = c.objects
        /\ r.order = c.order /\ r.ItemsByID = c.ItemsByID
        /\ r.itemRefCount = c.itemRefCount /\ r.lastPrune = c.lastPrune
    BY <1>1 DEF Same, LoopFields
  <2>4. /\ DOMAIN q = DOMAIN s /\ q = [f \in DOMAIN q |-> q[f]]
        /\ q.lists = [s.lists EXCEPT ![l] = held \o added]
        /\ q.access = s.access /\ q.objects = s.objects
        /\ q.before = s.before /\ q.ItemsByID = s.ItemsByID
        /\ q.itemRefCount = s.itemRefCount /\ q.lastPrune = s.lastPrune
    BY <1>1 DEF IsStore
  <2>. HIDE DEF r, q
  <2>5. Live(q) = Live(s) /\ q.lists \in [Slices(Live(s)) -> Seq(ItemIds)]
    BY <1>1, <2>0, <2>2, <2>4 DEF IsStore, Live
  <2>6. IsStore(q)
    BY <1>1, <2>4, <2>5 DEF IsStore
  <2>7. Same(r, q)
    BY <1>1, <2>3, <2>4 DEF Same
  <2>8. Beside(r, q, K)
    BY <2>3, <2>4, <2>6, <2>7, SameChange
  <2>9. Beside(rr, qq, K)
    BY <2>2, <2>8, RegisterBeside, AddRefsBeside
  <2>10. Live(qq) = Live(s)
    <3>. DEFINE m == registerItems(q, added)
    <3>1. IsStore(m) /\ \A f \in DOMAIN q \ {"ItemsByID"} : m[f] = q[f]
      BY <2>6, RegisterItemsStore
    <3>2. "objects" \in DOMAIN q \ {"ItemsByID"}
      BY <2>6 DEF IsStore
    <3>3. m.objects = q.objects
      BY <3>1, <3>2
    <3>. HIDE DEF m
    <3>4. \A f \in DOMAIN m \ {"itemRefCount"} : addItemRefs(m, ids)[f] = m[f]
      BY <2>2, <3>1, AddItemRefsStore
    <3>5. "objects" \in DOMAIN m \ {"itemRefCount"}
      BY <3>1 DEF IsStore
    <3>6. addItemRefs(m, ids).objects = m.objects
      BY <3>4, <3>5
    <3>. QED BY <2>5, <3>3, <3>6 DEF Live, m
  <2>. HIDE DEF rr, qq
  <2>11. read(qq, key, t) = [qq EXCEPT !.access[key] = t]
    BY <1>3, <2>10 DEF read
  <2>12. read(rr, key, t) = [rr EXCEPT !.access[key] = t]
    BY <1>3, <2>9, <2>10, BesideFields DEF read
  <2>13. appendTurn(s, key, added, t) = read(qq, key, t)
    BY <1>3, <2>11 DEF appendTurn, qq, q, held, ids, l
  <2>14. appendTurn(c, key, added, t) = read(rr, key, t)
    <3>1. appendTurn(c, key, added, t) = [rr EXCEPT !.access[key] = t]
      BY <1>1, <1>3, <2>1 DEF appendTurn, rr, r, held, ids, l
    <3>. QED BY <2>12, <3>1
  <2>. QED BY <2>9, <2>10, <2>13, <2>14, ReadBeside
<1>. QED BY <1>2, <1>3

\* The prune's loop and the closed form agree on whether, and on what, to prune.
LEMMA PruneLoopTwins ==
  ASSUME NEW s, NEW c, Twins(c, s), NEW walk, Walks(walk, Live(s)), NEW t \in Nat,
         NEW force \in BOOLEAN
  PROVE  Twins(pruneLoop(c, walk, t, force), pruneExpired(s, t, force))
<1>. DEFINE r == [c EXCEPT !.lastPrune = t]
            q == [s EXCEPT !.lastPrune = t]
            D == expired(s, t)
<1>1. IsStore(s) /\ Same(c, s)
  BY BesideFields DEF Twins
<1>2. /\ DOMAIN r = LoopFields /\ r = [f \in DOMAIN r |-> r[f]]
      /\ r.objects = c.objects /\ r.access = c.access /\ r.lists = c.lists /\ r.order = c.order
      /\ r.ItemsByID = c.ItemsByID /\ r.itemRefCount = c.itemRefCount /\ r.lastPrune = t
  BY <1>1 DEF Same, LoopFields
<1>3. /\ DOMAIN q = DOMAIN s /\ q = [f \in DOMAIN q |-> q[f]]
      /\ q.objects = s.objects /\ q.access = s.access /\ q.lists = s.lists
      /\ q.before = s.before /\ q.ItemsByID = s.ItemsByID
      /\ q.itemRefCount = s.itemRefCount /\ q.lastPrune = t
  BY <1>1 DEF IsStore
<1>. HIDE DEF r, q
<1>4. IsStore(q) /\ Live(q) = Live(s)
  BY <1>1, <1>3 DEF IsStore, Live
<1>5. Same(r, q)
  BY <1>1, <1>2, <1>3 DEF Same
<1>6. Twins(r, q)
  BY <1>2, <1>3, <1>4, <1>5, SameChange DEF Twins
<1>7. Twins(pruneWalk(r, walk, t - TTL), drop(q, D))
  <2>1. D = { key \in DOMAIN q.access : q.access[key] < t - TTL }
    BY <1>3 DEF expired
  <2>2. Walks(walk, Live(q))
    BY <1>4
  <2>. HIDE DEF D
  <2>. QED BY <1>6, <2>1, <2>2, PruneWalkTwins
<1>8. pruneDue(s, t, force)
        <=> ~ \/ TTL = 0
              \/ ~force /\ c.lastPrune # Never /\ PruneInterval > 0 /\ t - c.lastPrune < PruneInterval
  <2>1. /\ c.lastPrune = s.lastPrune /\ s.lastPrune \in {Never} \cup Nat
        /\ PruneInterval \in Nat
    BY <1>1, LimitsAssumption DEF Same, IsStore
  <2>. QED BY <2>1 DEF pruneDue, Never
<1>9. CASE pruneDue(s, t, force)
  <2>1. pruneExpired(s, t, force) = drop(q, D)
    BY <1>9 DEF pruneExpired, q
  <2>2. pruneLoop(c, walk, t, force) = pruneWalk(r, walk, t - TTL)
    BY <1>8, <1>9 DEF pruneLoop, r
  <2>. QED BY <1>7, <2>1, <2>2
<1>10. CASE ~pruneDue(s, t, force)
  BY <1>8, <1>10 DEF pruneExpired, pruneLoop
<1>. QED BY <1>9, <1>10

\* Releasing a key's slices one id after the other, and all at once.
LEMMA ReleaseBeside ==
  ASSUME NEW s, NEW c, NEW K, Beside(c, s, K), NEW key \in Key
  PROVE  /\ Beside(releaseSlices(c, key), releaseItemRefs(s, Own(s, key)), K)
         /\ Live(releaseItemRefs(s, Own(s, key))) = Live(s)
<1>. DEFINE L == Own(s, key)
            r == releaseSlices(c, key)
            q == releaseItemRefs(s, L)
<1>1. IsStore(s) /\ Agrees(c, s) /\ Ordered(c, K)
  BY DEF Beside
<1>2. IsFiniteSet(L) /\ Lessened(c, r, Lost(s, L))
  BY <1>1, ReleaseSlicesLessens
<1>. HIDE DEF L, r
<1>3. Counts(s)
  BY <1>1 DEF IsStore, Counts
<1>4. Lessened(s, q, Lost(s, L))
  BY <1>2, <1>3, ReleaseItemRefsLessens
<1>. HIDE DEF q
<1>5. Agrees(r, q) /\ r.order = c.order
  BY <1>1, <1>2, <1>4, AgreesLessened
<1>6. Counts(q)
  <2>1. Lost(s, L) \in [ItemIds -> Nat]
    BY <1>2, LostType
  <2>. QED BY <1>3, <1>4, <2>1, LessenedCounts
<1>7. /\ DOMAIN q = DOMAIN s /\ q = [f \in DOMAIN q |-> q[f]]
      /\ q.objects = s.objects /\ q.access = s.access /\ q.before = s.before
      /\ q.lists = s.lists /\ q.lastPrune = s.lastPrune
      /\ q.ItemsByID \subseteq s.ItemsByID
  <2>1. \A f \in DOMAIN s \ {"itemRefCount", "ItemsByID"} : q[f] = s[f]
    BY <1>4 DEF Lessened
  <2>2. DOMAIN q = DOMAIN s /\ q = [f \in DOMAIN q |-> q[f]] /\ q.ItemsByID \subseteq s.ItemsByID
    BY <1>4 DEF Lessened
  <2>. QED BY <1>1, <2>1, <2>2 DEF IsStore
<1>8. Live(q) = Live(s)
  BY <1>7 DEF Live
<1>9. IsStore(q)
  <2>1. q.ItemsByID \subseteq ItemIds /\ DOMAIN q.itemRefCount \subseteq ItemIds
    BY <1>1, <1>6, <1>7 DEF IsStore, Counts
  <2>2. q.itemRefCount \in [DOMAIN q.itemRefCount -> Nat \ {0}]
    BY <1>6 DEF Counts
  <2>. QED BY <1>1, <1>7, <1>8, <2>1, <2>2 DEF IsStore
<1>10. Ordered(r, K)
  BY <1>1, <1>5 DEF Ordered
<1>. QED BY <1>5, <1>8, <1>9, <1>10 DEF Beside, L, r, q

\* rememberID on the slices, and on the pairs they stand for: a key of a save is
\* listed again, or for the first time.
LEMMA RememberTwins ==
  ASSUME NEW s, NEW c, NEW K, Beside(c, s, K), NEW key \in Live(s), Live(s) = K \cup {key},
         NEW kind, kind = Kind(key)
  PROVE  /\ Twins([c EXCEPT !.order[kind] = rememberLast(@, key)], rememberID(s, key))
         /\ Live(rememberID(s, key)) = Live(s)
<1>. DEFINE r == [c EXCEPT !.order[kind] = rememberLast(@, key)]
            q == rememberID(s, key)
            S == OfKind(K, kind)
<1>0. IsStore(s) /\ Agrees(c, s) /\ Ordered(c, K) /\ Same(c, s)
  BY BesideFields DEF Beside
<1>1. key \in Key /\ kind \in TableKinds
  BY <1>0, KeyKind DEF IsStore
<1>2. /\ DOMAIN r = LoopFields /\ r = [f \in DOMAIN r |-> r[f]]
      /\ r.objects = c.objects /\ r.access = c.access /\ r.lists = c.lists
      /\ r.order = [c.order EXCEPT ![kind] = rememberLast(@, key)]
      /\ r.ItemsByID = c.ItemsByID /\ r.itemRefCount = c.itemRefCount
      /\ r.lastPrune = c.lastPrune
  BY <1>0 DEF Same, LoopFields
<1>3. /\ DOMAIN q = DOMAIN s /\ q = [f \in DOMAIN q |-> q[f]]
      /\ q.before = { p \in s.before : p[1] # key /\ p[2] # key }
                      \cup ((OfKind(Live(s), kind) \ {key}) \X {key})
      /\ q.objects = s.objects /\ q.access = s.access /\ q.lists = s.lists
      /\ q.ItemsByID = s.ItemsByID /\ q.itemRefCount = s.itemRefCount
      /\ q.lastPrune = s.lastPrune
  BY <1>0 DEF rememberID, IsStore
<1>. HIDE DEF r, q
<1>4. Live(q) = Live(s)
  BY <1>3 DEF Live
<1>5. q.before \subseteq Live(s) \X Live(s)
  BY <1>0, <1>3 DEF IsStore, OfKind
<1>6. IsStore(q)
  BY <1>0, <1>3, <1>4, <1>5 DEF IsStore
<1>7. OfKind(Live(s), kind) = S \cup {key} /\ OfKind(Live(s), kind) \ {key} = S \ {key}
  BY DEF OfKind
<1>8. /\ r.order = [k \in TableKinds |-> r.order[k]]
      /\ r.order[kind] = rememberLast(c.order[kind], key)
      /\ \A k \in TableKinds \ {kind} : r.order[k] = c.order[k]
  BY <1>0, <1>1, <1>2 DEF Ordered
<1>9. /\ Walks(r.order[kind], S \cup {key})
      /\ \A x, y : <<x, y>> \in Pairs(r.order[kind])
                      <=> \/ <<x, y>> \in Pairs(c.order[kind]) /\ x # key /\ y # key
                          \/ x \in S \ {key} /\ y = key
  <2>1. Walks(c.order[kind], S)
    BY <1>0, <1>1 DEF Ordered
  <2>. HIDE DEF S
  <2>. QED BY <1>8, <2>1, RememberWalks
<1>10. \A k \in TableKinds \ {kind} : /\ OfKind(Live(s), k) = OfKind(K, k)
                                      /\ key \notin OfKind(K, k)
  BY DEF OfKind
<1>. HIDE DEF S
<1>11. Ordered(r, Live(s))
  <2>1. ASSUME NEW k \in TableKinds PROVE Walks(r.order[k], OfKind(Live(s), k))
    <3>1. CASE k = kind
      BY <1>7, <1>9, <3>1
    <3>2. CASE k # kind
      <4>1. Walks(c.order[k], OfKind(K, k))
        BY <1>0 DEF Ordered
      <4>. QED BY <1>8, <1>10, <3>2, <4>1
    <3>. QED BY <3>1, <3>2
  <2>. QED BY <1>8, <2>1 DEF Ordered
<1>12. ASSUME NEW k \in TableKinds, NEW x, NEW y
       PROVE  <<x, y>> \in Pairs(r.order[k])
                <=> \/ <<x, y>> \in Pairs(c.order[k]) /\ x # key /\ y # key
                    \/ k = kind /\ x \in S \ {key} /\ y = key
  <2>1. CASE k = kind
    BY <1>9, <2>1
  <2>2. CASE k # kind
    <3>1. <<x, y>> \in Pairs(c.order[k]) => x # key /\ y # key
      BY <1>0, <1>10, <2>2, PairsOfKind
    <3>. QED BY <1>8, <2>2, <3>1
  <2>. QED BY <2>1, <2>2
<1>13. q.before = UNION { Pairs(r.order[k]) : k \in DOMAIN r.order }
  <2>0. DOMAIN r.order = TableKinds /\ DOMAIN c.order = TableKinds
    BY <1>0, <1>8 DEF Ordered
  <2>. DEFINE B == UNION { Pairs(r.order[k]) : k \in TableKinds }
  <2>1. \A x, y : <<x, y>> \in B <=> \E k \in TableKinds : <<x, y>> \in Pairs(r.order[k])
    OBVIOUS
  <2>2. \A x, y : <<x, y>> \in s.before <=> \E k \in TableKinds : <<x, y>> \in Pairs(c.order[k])
    BY <1>0, BeforeInOrder
  <2>3. \A x, y : <<x, y>> \in q.before
                    <=> \/ <<x, y>> \in s.before /\ x # key /\ y # key
                        \/ x \in S \ {key} /\ y = key
    BY <1>3, <1>7
  <2>4. ASSUME NEW x, NEW y PROVE <<x, y>> \in B <=> <<x, y>> \in q.before
    <3>. HIDE DEF B
    <3>1. <<x, y>> \in B
            <=> \/ (\E k \in TableKinds : <<x, y>> \in Pairs(c.order[k])) /\ x # key /\ y # key
                \/ x \in S \ {key} /\ y = key
      BY <1>1, <1>12, <2>1
    <3>. QED BY <2>2, <2>3, <3>1
  <2>5. \A p \in B : \E x, y : p = <<x, y>>
    BY DEF Pairs
  <2>6. \A p \in q.before : \E x, y : p = <<x, y>>
    BY <1>5
  <2>7. q.before = B
    <3>. HIDE DEF B
    <3>. QED BY <2>4, <2>5, <2>6
  <2>. QED BY <2>0, <2>7
<1>14. Agrees(r, q)
  BY <1>0, <1>2, <1>3, <1>13 DEF Agrees, Same
<1>15. Twins(r, q)
  BY <1>4, <1>6, <1>11, <1>14 DEF Twins, Beside
<1>. QED BY <1>4, <1>15 DEF r, q

-----------------------------------------------------------------------------
(* The eviction, turn by turn.                                             *)

\* The entries of a kind that are there.
Size(s, kind) == Cardinality(OfKind(Live(s), kind))

LEMMA SizeType ==
  ASSUME NEW s, IsStore(s), NEW kind
  PROVE  IsFiniteSet(OfKind(Live(s), kind)) /\ Size(s, kind) \in Nat
<1>1. IsFiniteSet(Live(s))
  BY DEF IsStore
<1>2. OfKind(Live(s), kind) \subseteq Live(s)
  BY DEF OfKind
<1>3. IsFiniteSet(OfKind(Live(s), kind))
  BY <1>1, <1>2, FS_Subset
<1>. QED BY <1>3, FS_CardinalityType DEF Size

\* A table that fits loses nothing.
LEMMA EvictNobody ==
  ASSUME NEW s, IsStore(s), NEW kind, Size(s, kind) <= Limit(kind)
  PROVE  evict(s, kind) = s
<1>. DEFINE table == OfKind(Live(s), kind)
            since(x) == { y \in table : <<y, x>> \notin s.before }
            D == { x \in table : Cardinality(since(x)) > Limit(kind) }
<1>1. IsFiniteSet(table) /\ Cardinality(table) \in Nat /\ Cardinality(table) <= Limit(kind)
  BY SizeType DEF Size
<1>2. ASSUME NEW x \in D PROVE FALSE
  <2>1. since(x) \subseteq table
    OBVIOUS
  <2>2. Cardinality(since(x)) > Limit(kind)
    OBVIOUS
  <2>. HIDE DEF since, table
  <2>3. Cardinality(since(x)) \in Nat /\ Cardinality(since(x)) <= Cardinality(table)
    BY <1>1, <2>1, FS_Subset, FS_CardinalityType
  <2>. QED BY <1>1, <2>2, <2>3, LimitType
<1>3. D \cap Live(s) = {}
  BY <1>2
<1>4. evict(s, kind) = IF Limit(kind) = 0 THEN s ELSE drop(s, D)
  BY DEF evict
<1>. HIDE DEF D
<1>. QED BY <1>3, <1>4, DropNobody

\* The first of a table that does not fit is among those that go, and taking it
\* away alone changes nothing about the others.
LEMMA EvictFirst ==
  ASSUME NEW s, IsStore(s), NEW kind, Limit(kind) # 0, Size(s, kind) > Limit(kind),
         NEW x \in OfKind(Live(s), kind),
         \A y \in OfKind(Live(s), kind) \ {x} : <<x, y>> \in s.before,
         \A y : <<y, x>> \notin s.before
  PROVE  /\ evict(drop(s, {x}), kind) = evict(s, kind)
         /\ Size(drop(s, {x}), kind) + 1 = Size(s, kind)
<1>. DEFINE d == drop(s, {x})
            table == OfKind(Live(s), kind)
            left == OfKind(Live(d), kind)
            since(y) == { z \in table : <<z, y>> \notin s.before }
            after(y) == { z \in left : <<z, y>> \notin d.before }
            D == { y \in table : Cardinality(since(y)) > Limit(kind) }
            E == { y \in left : Cardinality(after(y)) > Limit(kind) }
<1>1. Dropped(s, d, {x})
  BY DropDrops
<1>2. /\ IsStore(d) /\ Live(d) = Live(s) \ {x}
      /\ d.before = { p \in s.before : p[1] \notin {x} /\ p[2] \notin {x} }
  <2>. HIDE DEF d
  <2>. QED BY <1>1 DEF Dropped
<1>3. left = table \ {x} /\ x \in table
  BY <1>2 DEF OfKind
<1>4. evict(s, kind) = drop(s, D) /\ evict(d, kind) = drop(d, E)
  BY DEF evict
<1>5. since(x) = table
  OBVIOUS
<1>6. ASSUME NEW y \in left PROVE after(y) = since(y)
  <2>1. y # x /\ x \notin since(y)
    BY <1>3
  <2>2. ASSUME NEW z \in left PROVE <<z, y>> \in d.before <=> <<z, y>> \in s.before
    <3>1. z # x
      BY <1>3
    <3>. QED BY <1>2, <2>1, <3>1
  <2>. QED BY <1>3, <2>1, <2>2
<1>7. x \in D
  BY <1>3, <1>5 DEF Size
<1>8. D = {x} \cup E
  <2>. HIDE DEF table, left, since, after
  <2>. QED BY <1>3, <1>6, <1>7
<1>9. drop(d, E) = drop(s, D)
  <2>. HIDE DEF D, E
  <2>. QED BY <1>8, DropTwice
<1>10. Size(d, kind) + 1 = Size(s, kind)
  <2>1. IsFiniteSet(table)
    BY SizeType
  <2>2. Cardinality(table) \in Nat /\ Cardinality(table \ {x}) = Cardinality(table) - 1
    BY <1>3, <2>1, FS_RemoveElement, FS_CardinalityType
  <2>3. Size(d, kind) = Cardinality(left) /\ Size(s, kind) = Cardinality(table)
    BY DEF Size
  <2>. HIDE DEF d, table, left
  <2>4. Cardinality(left) = Cardinality(table) - 1
    BY <1>3, <2>2
  <2>. QED BY <2>2, <2>3, <2>4
<1>. QED BY <1>4, <1>9, <1>10

\* What a turn makes of the store: nothing if the table fits, and else a store
\* that is one entry closer to the same end.
Turned(c, s, kind, d) ==
  /\ Twins(evictTurn(c, kind), d)
  /\ evict(d, kind) = evict(s, kind)
  /\ \/ Size(d, kind) <= Limit(kind)
     \/ Size(d, kind) + 1 = Size(s, kind)

LEMMA TurnTurns ==
  ASSUME NEW s, NEW c, Twins(c, s), NEW kind \in TableKinds, Limit(kind) # 0
  PROVE  \E d : Turned(c, s, kind, d)
<1>. DEFINE order == c.order[kind]
            table == OfKind(Live(s), kind)
<1>1. /\ IsStore(s) /\ Agrees(c, s) /\ Ordered(c, Live(s)) /\ DOMAIN c.objects = Live(s)
      /\ Walks(order, table)
  BY DEF Twins, Beside, Ordered, Agrees, Live
<1>2. Cardinality(table) = Len(order) /\ Len(order) \in Nat
  <2>1. Walks(order, table)
    BY <1>1
  <2>. HIDE DEF order, table
  <2>. QED BY <2>1, WalkLength DEF Walks
<1>3. Cardinality(OfKind(DOMAIN c.objects, kind)) = Size(s, kind) /\ Size(s, kind) \in Nat
  BY <1>1, <1>2 DEF Size
<1>4. CASE order = <<>> \/ Size(s, kind) <= Limit(kind)
  <2>1. evictTurn(c, kind) = c
    BY <1>3, <1>4 DEF evictTurn
  <2>2. Size(s, kind) <= Limit(kind)
    BY <1>2, <1>4, LimitType DEF Size
  <2>. QED BY <2>1, <2>2 DEF Turned
<1>5. CASE order # <<>> /\ ~(Size(s, kind) <= Limit(kind))
  <2>. DEFINE x == order[1]
              d == drop(s, {x})
  <2>1. /\ x \in table
        /\ \A y \in table \ {x} : <<x, y>> \in Pairs(order)
        /\ \A y : <<y, x>> \notin Pairs(order)
    <3>. HIDE DEF order, table
    <3>. QED BY <1>1, <1>5, PairsOfFirst
  <2>2. x \in Live(s) /\ Kind(x) = kind
    BY <2>1 DEF OfKind
  <2>3. evictTurn(c, kind) = deleteLocked(c, x)
    BY <1>1, <1>3, <1>5, <2>2 DEF evictTurn
  <2>4. Twins(deleteLocked(c, x), d)
    <3>. HIDE DEF x
    <3>. QED BY <2>2, DeleteTwins
  <2>5. \A y \in table \ {x} : <<x, y>> \in s.before
    <3>. HIDE DEF x, table
    <3>. QED BY <1>1, <2>1, BeforeInOrder
  <2>6. ASSUME NEW y PROVE <<y, x>> \notin s.before
    <3>1. SUFFICES ASSUME NEW k \in TableKinds, <<y, x>> \in Pairs(c.order[k]) PROVE FALSE
      BY <1>1, BeforeInOrder
    <3>2. x \in OfKind(Live(s), k)
      BY <1>1, <3>1, PairsOfKind
    <3>3. k = kind
      BY <2>2, <3>2 DEF OfKind
    <3>. QED BY <2>1, <3>1, <3>3
  <2>7. Size(s, kind) > Limit(kind)
    BY <1>3, <1>5, LimitType
  <2>. HIDE DEF x
  <2>8. evict(d, kind) = evict(s, kind) /\ Size(d, kind) + 1 = Size(s, kind)
    BY <1>1, <2>1, <2>5, <2>6, <2>7, EvictFirst
  <2>. HIDE DEF d
  <2>9. Turned(c, s, kind, d)
    BY <2>3, <2>4, <2>8 DEF Turned
  <2>. QED BY <2>9
<1>. QED BY <1>4, <1>5

\* f says what the turns have made of c after each of n.
Evicts(f, c, kind, n) ==
  f = [k \in 0..n |-> IF k = 0 THEN c ELSE evictTurn(f[k - 1], kind)]

LEMMA EvictsExtend ==
  ASSUME NEW c, NEW kind, NEW n \in Nat, NEW f, Evicts(f, c, kind, n)
  PROVE  \E g : Evicts(g, c, kind, n + 1)
<1>. DEFINE e(k) == IF k = 0 THEN c ELSE evictTurn(f[k - 1], kind)
            g == [k \in 0..(n + 1) |-> e(k)]
<1>1. \A k \in 0..n : g[k] = f[k]
  BY DEF Evicts
<1>2. \A k \in 0..(n + 1) : k # 0 => g[k - 1] = f[k - 1]
  <2>1. \A k \in 0..(n + 1) : k # 0 => k - 1 \in 0..n
    OBVIOUS
  <2>. HIDE DEF g
  <2>. QED BY <1>1, <2>1
<1>3. \A k \in 0..(n + 1) : e(k) = IF k = 0 THEN c ELSE evictTurn(g[k - 1], kind)
  BY <1>2
<1>4. g = [k \in 0..(n + 1) |-> IF k = 0 THEN c ELSE evictTurn(g[k - 1], kind)]
  BY <1>3
<1>. QED BY <1>4 DEF Evicts

LEMMA EvictsExist ==
  ASSUME NEW c, NEW kind, NEW n \in Nat PROVE \E f : Evicts(f, c, kind, n)
<1>. DEFINE Bad == { k \in Nat : ~ \E f : Evicts(f, c, kind, k) }
<1>. SUFFICES ASSUME Bad # {} PROVE FALSE
  OBVIOUS
<1>1. PICK k \in Bad : \A j \in Bad : k <= j
  BY SmallestOf
<1>2. CASE k = 0
  <2>. DEFINE f == [j \in 0..0 |-> c]
  <2>1. f = [j \in 0..0 |-> IF j = 0 THEN c ELSE evictTurn(f[j - 1], kind)]
    OBVIOUS
  <2>. QED BY <1>1, <1>2, <2>1 DEF Evicts
<1>3. CASE k # 0
  <2>1. k - 1 \in Nat /\ k - 1 \notin Bad /\ (k - 1) + 1 = k
    BY <1>1, <1>3
  <2>2. PICK f : Evicts(f, c, kind, k - 1)
    BY <2>1
  <2>3. \E g : Evicts(g, c, kind, k)
    BY <2>1, <2>2, EvictsExtend
  <2>. QED BY <1>1, <2>3
<1>. QED BY <1>2, <1>3

\* After n turns: a store that stands for the loops', that evict would bring to
\* the same end, and that is there or n entries closer to it.
OnTheWay(s, kind, m, n) ==
  \E d : /\ Twins(m, d) /\ evict(d, kind) = evict(s, kind)
         /\ Size(d, kind) <= Limit(kind) \/ Size(d, kind) + n = Size(s, kind)

LEMMA TurnOnTheWay ==
  ASSUME NEW s, NEW kind \in TableKinds, Limit(kind) # 0, NEW m, NEW n \in Nat,
         OnTheWay(s, kind, m, n)
  PROVE  OnTheWay(s, kind, evictTurn(m, kind), n + 1)
<1>1. PICK d : /\ Twins(m, d) /\ evict(d, kind) = evict(s, kind)
               /\ Size(d, kind) <= Limit(kind) \/ Size(d, kind) + n = Size(s, kind)
  BY DEF OnTheWay
<1>2. PICK e : Turned(m, d, kind, e)
  BY <1>1, TurnTurns
<1>3. /\ Twins(evictTurn(m, kind), e) /\ evict(e, kind) = evict(d, kind)
      /\ Size(e, kind) <= Limit(kind) \/ Size(e, kind) + 1 = Size(d, kind)
  BY <1>2 DEF Turned
<1>4. Size(d, kind) \in Nat /\ Size(e, kind) \in Nat /\ Limit(kind) \in Nat
  BY <1>1, <1>3, LiveTwins, SizeType, LimitType
<1>5. Size(e, kind) <= Limit(kind) \/ Size(e, kind) + (n + 1) = Size(s, kind)
  BY <1>1, <1>3, <1>4
<1>. QED BY <1>1, <1>3, <1>5 DEF OnTheWay

\* evict...Locked's loop, turn by turn, takes away what evict takes away at once.
LEMMA EvictLoopTwins ==
  ASSUME NEW s, NEW c, Twins(c, s), NEW kind \in TableKinds
  PROVE  Twins(evictLoop(c, kind), evict(s, kind))
<1>. DEFINE N == Len(c.order[kind])
            F == CHOOSE f : f = [n \in 0..N |-> IF n = 0 THEN c ELSE evictTurn(f[n - 1], kind)]
            Bad == { n \in 0..N : ~OnTheWay(s, kind, F[n], n) }
<1>0. CASE Limit(kind) = 0
  BY <1>0 DEF evictLoop, evict
<1>. SUFFICES ASSUME Limit(kind) # 0 PROVE Twins(evictLoop(c, kind), evict(s, kind))
  BY <1>0
<1>1. /\ N \in Nat /\ Size(s, kind) = N
  <2>1. Walks(c.order[kind], OfKind(Live(s), kind))
    BY DEF Twins, Beside, Ordered
  <2>. QED BY <2>1, WalkLength DEF Size, Walks
<1>2. evictLoop(c, kind) = F[N]
  BY DEF evictLoop
<1>3. F = [n \in 0..N |-> IF n = 0 THEN c ELSE evictTurn(F[n - 1], kind)]
  <2>. HIDE DEF N
  <2>1. PICK f : Evicts(f, c, kind, N)
    BY <1>1, EvictsExist
  <2>2. f = [n \in 0..N |-> IF n = 0 THEN c ELSE evictTurn(f[n - 1], kind)]
    BY <2>1 DEF Evicts
  <2>. QED BY <2>2
<1>. HIDE DEF F, N
<1>4. Bad = {}
  <2>. SUFFICES ASSUME Bad # {} PROVE FALSE
    OBVIOUS
  <2>0. Bad \subseteq Nat
    BY <1>1
  <2>1. PICK n \in Bad : \A m \in Bad : n <= m
    <3>. HIDE DEF Bad
    <3>. QED BY <2>0, SmallestOf
  <2>2. n \in 0..N /\ ~OnTheWay(s, kind, F[n], n)
    BY <2>1
  <2>3. CASE n = 0
    <3>1. F[0] = c
      BY <1>1, <1>3
    <3>2. Size(s, kind) + 0 = Size(s, kind)
      BY <1>1
    <3>3. OnTheWay(s, kind, c, 0)
      BY <3>2 DEF OnTheWay
    <3>. QED BY <2>2, <2>3, <3>1, <3>3
  <2>4. CASE n # 0
    <3>1. n - 1 \in 0..N /\ ~(n <= n - 1) /\ n - 1 \in Nat /\ (n - 1) + 1 = n
      BY <1>1, <2>2, <2>4
    <3>2. n - 1 \notin Bad
      <4>. HIDE DEF Bad
      <4>. QED BY <2>1, <3>1
    <3>3. OnTheWay(s, kind, F[n - 1], n - 1)
      BY <3>1, <3>2
    <3>4. F[n] = evictTurn(F[n - 1], kind)
      BY <1>1, <1>3, <2>2, <2>4
    <3>5. OnTheWay(s, kind, F[n], (n - 1) + 1)
      <4>. HIDE DEF Bad
      <4>. QED BY <3>1, <3>3, <3>4, TurnOnTheWay
    <3>. QED BY <2>2, <3>1, <3>5
  <2>. QED BY <2>3, <2>4
<1>5. OnTheWay(s, kind, F[N], N)
  BY <1>1, <1>4
<1>6. PICK d : /\ Twins(F[N], d) /\ evict(d, kind) = evict(s, kind)
               /\ Size(d, kind) <= Limit(kind) \/ Size(d, kind) + N = Size(s, kind)
  BY <1>5 DEF OnTheWay
<1>7. IsStore(d) /\ Size(d, kind) \in Nat /\ Limit(kind) \in Nat
  BY <1>6, LiveTwins, SizeType, LimitType
<1>8. Size(d, kind) <= Limit(kind)
  BY <1>1, <1>6, <1>7
<1>9. evict(d, kind) = d
  BY <1>7, <1>8, EvictNobody
<1>. QED BY <1>2, <1>6, <1>9

-----------------------------------------------------------------------------
(* The methods.                                                            *)

\* The end of a save: key, which has just been put, becomes the last of its
\* kind, and the table is cut to its limit.
LEMMA SavedTwins ==
  ASSUME NEW s, NEW c, NEW K, Beside(c, s, K), NEW key \in Key, Live(s) = K \cup {key},
         NEW kind, kind = Kind(key)
  PROVE  Twins(evictLoop([c EXCEPT !.order[kind] = rememberLast(@, key)], kind),
               evict(rememberID(s, key), kind))
<1>1. kind \in TableKinds
  BY KeyKind
<1>2. Twins([c EXCEPT !.order[kind] = rememberLast(@, key)], rememberID(s, key))
  BY RememberTwins
<1>. QED BY <1>1, <1>2, EvictLoopTwins

LEMMA LivePut ==
  ASSUME NEW s, IsStore(s), NEW items \in Seq(ItemIds), NEW ids \in SUBSET ItemIds
  PROVE  /\ Live(registerItems(s, items)) = Live(s)
         /\ Live(addItemRefs(s, ids)) = Live(s)
<1>1. "objects" \in DOMAIN s \ {"ItemsByID"} /\ "objects" \in DOMAIN s \ {"itemRefCount"}
  BY DEF IsStore
<1>2. registerItems(s, items).objects = s.objects
  BY <1>1, RegisterItemsStore
<1>3. addItemRefs(s, ids).objects = s.objects
  BY <1>1, AddItemRefsStore
<1>. QED BY <1>2, <1>3 DEF Live

LEMMA SaveChatTwins ==
  ASSUME NEW s, NEW t \in Nat, NEW c, Twins(c, pruneExpired(s, t, FALSE)), NEW key \in ChatKey,
         NEW value \in Values, NEW messages \in Seq(ItemIds)
  PROVE  Twins(saveChatLoops(c, key, value, messages, t),
               SaveChatCompletion(s, key, value, messages, t))
<1>. DEFINE p == pruneExpired(s, t, FALSE)
            lists == [messages |-> messages]
            r == put(c, key, value, lists, t)
            q == put(p, key, value, lists, t)
<1>. HIDE DEF p
<1>1. Beside(c, p, Live(p))
  BY DEF Twins, p
<1>2. key \in Key /\ Kind(key) = "chat" /\ lists \in [ListNames(Kind(key)) -> Seq(ItemIds)]
  BY KeyKinds
<1>. HIDE DEF lists
<1>3. Beside(r, q, Live(p)) /\ Live(q) = Live(p) \cup {key}
  BY <1>1, <1>2, PutBeside
<1>. HIDE DEF r, q
<1>4. Twins(evictLoop([r EXCEPT !.order["chat"] = rememberLast(@, key)], "chat"),
            evict(rememberID(q, key), "chat"))
  BY <1>2, <1>3, SavedTwins
<1>5. saveChatLoops(c, key, value, messages, t)
        = evictLoop([r EXCEPT !.order["chat"] = rememberLast(@, key)], "chat")
  BY DEF saveChatLoops, r, lists
<1>6. SaveChatCompletion(s, key, value, messages, t) = evict(rememberID(q, key), "chat")
  BY DEF SaveChatCompletion, q, p, lists
<1>. QED BY <1>4, <1>5, <1>6

LEMMA SaveConversationTwins ==
  ASSUME NEW s, NEW t \in Nat, NEW c, Twins(c, pruneExpired(s, t, FALSE)),
         NEW key \in ConversationKey, NEW value \in Values, NEW items \in Seq(ItemIds)
  PROVE  Twins(saveConversationLoops(c, key, value, items, t),
               SaveConversation(s, key, value, items, t))
<1>. DEFINE p == pruneExpired(s, t, FALSE)
            ids == itemIDs(items)
            lists == [items |-> items]
            c1 == IF key \in DOMAIN c.objects THEN releaseSlices(c, key) ELSE c
            p1 == releaseItemRefs(p, Own(p, key))
            c2 == registerItems(c1, items)
            p2 == registerItems(p1, items)
            c3 == addItemRefs(c2, ids)
            p3 == addItemRefs(p2, ids)
            c4 == put(c3, key, value, lists, t)
            p4 == put(p3, key, value, lists, t)
<1>. HIDE DEF p
<1>1. Beside(c, p, Live(p)) /\ IsStore(p) /\ Agrees(c, p)
  BY DEF Twins, Beside, p
<1>2. key \in Key /\ Kind(key) = "conversation" /\ lists \in [ListNames(Kind(key)) -> Seq(ItemIds)]
  BY KeyKinds
<1>3. ids \in SUBSET ItemIds
  BY ItemIDsType
<1>. HIDE DEF lists, ids
<1>4. c1 = releaseSlices(c, key)
  <2>1. CASE key \in DOMAIN c.objects
    BY <2>1
  <2>2. CASE key \notin DOMAIN c.objects
    <3>1. key \notin Live(p) /\ DOMAIN c.lists = Slices(Live(p))
      BY <1>1, <2>2 DEF Agrees, IsStore, Live
    <3>2. <<key, "items">> \notin DOMAIN c.lists
      BY <3>1, SliceMembers
    <3>3. releaseSlices(c, key) = c
      BY <1>2, <3>2 DEF releaseSlices, releaseSlice
    <3>. QED BY <2>2, <3>3
  <2>. QED BY <2>1, <2>2
<1>. HIDE DEF c1
<1>5. Beside(c1, p1, Live(p)) /\ Live(p1) = Live(p)
  BY <1>1, <1>2, <1>4, ReleaseBeside
<1>. HIDE DEF p1
<1>6. Beside(c2, p2, Live(p)) /\ IsStore(p1)
  BY <1>5, RegisterBeside DEF Beside
<1>7. Live(p2) = Live(p)
  BY <1>3, <1>5, <1>6, LivePut
<1>. HIDE DEF c2, p2
<1>8. Beside(c3, p3, Live(p)) /\ IsStore(p2)
  BY <1>3, <1>6, AddRefsBeside DEF Beside
<1>9. Live(p3) = Live(p)
  BY <1>3, <1>7, <1>8, LivePut
<1>. HIDE DEF c3, p3
<1>10. Beside(c4, p4, Live(p)) /\ Live(p4) = Live(p) \cup {key}
  BY <1>2, <1>8, <1>9, PutBeside
<1>. HIDE DEF c4, p4
<1>11. Twins(evictLoop([c4 EXCEPT !.order["conversation"] = rememberLast(@, key)], "conversation"),
             evict(rememberID(p4, key), "conversation"))
  BY <1>2, <1>10, SavedTwins
<1>12. saveConversationLoops(c, key, value, items, t)
         = evictLoop([c4 EXCEPT !.order["conversation"] = rememberLast(@, key)], "conversation")
  BY DEF saveConversationLoops, registerAndCount, c4, c3, c2, c1, ids, lists
<1>13. SaveConversation(s, key, value, items, t) = evict(rememberID(p4, key), "conversation")
  BY DEF SaveConversation, Own, p4, p3, p2, p1, p, ids, lists
<1>. QED BY <1>11, <1>12, <1>13

\* The "if store" block.
LEMMA StoreResponseTwins ==
  ASSUME NEW p, NEW t \in Nat, NEW c, Twins(c, p),
         NEW key \in ResponseKey, NEW value \in Values, NEW input \in Seq(ItemIds),
         NEW full \in Seq(ItemIds)
  PROVE  LET indexed == addItemRefs(registerAndCount(releaseSlices(c, key), full, itemIDs(input)),
                                    itemIDs(full))
             stored == put(indexed, key, value, [input |-> input, context |-> full], t)
         IN  Twins(evictLoop([stored EXCEPT !.order.response = rememberLast(@, key)], "response"),
                   storeResponse(p, key, value, input, full, t))
<1>. DEFINE lists == [input |-> input, context |-> full]
            idsI == itemIDs(input)
            idsF == itemIDs(full)
            c1 == releaseSlices(c, key)
            p1 == releaseItemRefs(p, Own(p, key))
            c2 == registerItems(c1, full)
            p2 == registerItems(p1, full)
            c3 == addItemRefs(c2, idsI)
            p3 == addItemRefs(p2, idsI)
            c4 == addItemRefs(c3, idsF)
            p4 == addItemRefs(p3, idsF)
            c5 == put(c4, key, value, lists, t)
            p5 == put(p4, key, value, lists, t)
<1>1. Beside(c, p, Live(p))
  BY DEF Twins
<1>2. key \in Key /\ Kind(key) = "response" /\ lists \in [ListNames(Kind(key)) -> Seq(ItemIds)]
  BY KeyKinds
<1>3. idsI \in SUBSET ItemIds /\ idsF \in SUBSET ItemIds
  BY ItemIDsType
<1>. HIDE DEF lists, idsI, idsF
<1>4. Beside(c1, p1, Live(p)) /\ Live(p1) = Live(p)
  BY <1>1, <1>2, ReleaseBeside
<1>. HIDE DEF c1, p1
<1>5. Beside(c2, p2, Live(p)) /\ IsStore(p1)
  BY <1>4, RegisterBeside DEF Beside
<1>6. Live(p2) = Live(p)
  BY <1>3, <1>4, <1>5, LivePut
<1>. HIDE DEF c2, p2
<1>7. Beside(c3, p3, Live(p)) /\ IsStore(p2)
  BY <1>3, <1>5, AddRefsBeside DEF Beside
<1>8. Live(p3) = Live(p)
  BY <1>3, <1>6, <1>7, LivePut
<1>. HIDE DEF c3, p3
<1>9. Beside(c4, p4, Live(p)) /\ IsStore(p3)
  BY <1>3, <1>7, AddRefsBeside DEF Beside
<1>10. Live(p4) = Live(p)
  BY <1>3, <1>8, <1>9, LivePut
<1>. HIDE DEF c4, p4
<1>11. Beside(c5, p5, Live(p)) /\ Live(p5) = Live(p) \cup {key}
  BY <1>2, <1>9, <1>10, PutBeside
<1>. HIDE DEF c5, p5
<1>12. Twins(evictLoop([c5 EXCEPT !.order["response"] = rememberLast(@, key)], "response"),
             evict(rememberID(p5, key), "response"))
  BY <1>2, <1>11, SavedTwins
<1>13. storeResponse(p, key, value, input, full, t) = evict(rememberID(p5, key), "response")
  BY DEF storeResponse, Own, p5, p4, p3, p2, p1, idsI, idsF, lists
<1>. QED BY <1>12, <1>13 DEF registerAndCount, c5, c4, c3, c2, c1, idsI, idsF, lists

LEMMA SaveResponseTwins ==
  ASSUME NEW s, NEW t \in Nat, NEW c, Twins(c, pruneExpired(s, t, FALSE)),
         NEW key \in ResponseKey, NEW value \in Values, NEW context \in Seq(ItemIds),
         NEW output \in Seq(ItemIds), NEW keep \in BOOLEAN,
         NEW conversation \in {{}} \cup { {k} : k \in ConversationKey },
         NEW current \in Seq(ItemIds)
  PROVE  Twins(saveResponseLoops(c, key, value, context, output, keep, conversation, current, t),
               SaveResponse(s, key, value, context, output, keep, conversation, current, t))
<1>. DEFINE p == pruneExpired(s, t, FALSE)
            full == context \o output
            indexed == addItemRefs(registerAndCount(releaseSlices(c, key), full, itemIDs(context)),
                                   itemIDs(full))
            stored == put(indexed, key, value, [input |-> context, context |-> full], t)
            cs == evictLoop([stored EXCEPT !.order.response = rememberLast(@, key)], "response")
            ps == storeResponse(p, key, value, context, full, t)
            ck == IF keep THEN cs ELSE c
            pk == IF keep THEN ps ELSE p
            other == CHOOSE k \in conversation : TRUE
            added == current \o output
<1>1. full \in Seq(ItemIds) /\ added \in Seq(ItemIds)
  OBVIOUS
<1>2. Twins(cs, ps)
  <2>. HIDE DEF p, full
  <2>1. Twins(c, p)
    BY DEF p
  <2>. QED BY <1>1, <2>1, StoreResponseTwins
<1>3. /\ saveResponseLoops(c, key, value, context, output, keep, conversation, current, t)
           = IF conversation = {} THEN ck ELSE appendTurn(ck, other, added, t)
      /\ SaveResponse(s, key, value, context, output, keep, conversation, current, t)
           = IF conversation = {} THEN pk ELSE appendTurn(pk, other, added, t)
  <2>. HIDE DEF other
  <2>. QED BY DEF saveResponseLoops, SaveResponse, other
<1>. HIDE DEF p, cs, ps
<1>4. Twins(ck, pk)
  BY <1>2 DEF p
<1>. HIDE DEF ck, pk, added
<1>5. CASE conversation = {}
  BY <1>3, <1>4, <1>5
<1>6. CASE conversation # {}
  <2>1. other \in ConversationKey
    BY <1>6
  <2>. HIDE DEF other
  <2>2. /\ Beside(appendTurn(ck, other, added, t), appendTurn(pk, other, added, t), Live(pk))
        /\ Live(appendTurn(pk, other, added, t)) = Live(pk)
    BY <1>1, <1>4, <2>1, AppendBeside DEF Twins
  <2>3. Twins(appendTurn(ck, other, added, t), appendTurn(pk, other, added, t))
    BY <2>2 DEF Twins
  <2>. QED BY <1>3, <1>6, <2>3
<1>. QED BY <1>5, <1>6

-----------------------------------------------------------------------------
(* The loops beside the store, from the start and by every call.           *)

\* The inductive invariant of the loops: they stand for the store, and every
\* slice of the save order is a walk of its table.  Neither would do alone: an
\* entry listed twice would outlive its removal, one not listed its eviction.
LoopInv == Twins(loops, store) /\ now \in Nat

LEMMA LoopInitInv == LoopInit => LoopInv
<1>. SUFFICES ASSUME LoopInit PROVE LoopInv
  OBVIOUS
<1>1. store = EmptyStore /\ loops = EmptyLoops /\ now = 0
  BY DEF LoopInit, Init
<1>2. IsStore(EmptyStore) /\ Live(EmptyStore) = {}
  BY EmptyStoreGood DEF Good, Sound, EmptyStore, Live
<1>3. \A kind \in TableKinds : EmptyLoops.order[kind] = <<>>
  BY DEF EmptyLoops, TableKinds
<1>4. EmptyLoops.order = [kind \in TableKinds |-> EmptyLoops.order[kind]]
  BY DEF EmptyLoops, TableKinds
<1>5. Ordered(EmptyLoops, {})
  <2>1. OfKind({}, "response") = {} /\ \A kind : OfKind({}, kind) = {}
    BY DEF OfKind
  <2>2. Walks(<<>>, {})
    BY DEF Walks
  <2>. QED BY <1>3, <1>4, <2>1, <2>2 DEF Ordered
<1>6. UNION { Pairs(EmptyLoops.order[kind]) : kind \in DOMAIN EmptyLoops.order } = {}
  <2>1. Pairs(<<>>) = {}
    BY DEF Pairs
  <2>2. DOMAIN EmptyLoops.order = TableKinds
    BY <1>4
  <2>. QED BY <1>3, <2>1, <2>2
<1>7. Agrees(EmptyLoops, EmptyStore)
  <2>1. /\ DOMAIN EmptyLoops = LoopFields /\ EmptyLoops = [f \in DOMAIN EmptyLoops |-> EmptyLoops[f]]
        /\ EmptyLoops.objects = <<>> /\ EmptyLoops.access = <<>> /\ EmptyLoops.lists = <<>>
        /\ EmptyLoops.ItemsByID = {} /\ EmptyLoops.itemRefCount = <<>>
        /\ EmptyLoops.lastPrune = Never
    BY DEF EmptyLoops, LoopFields
  <2>2. /\ EmptyStore.objects = <<>> /\ EmptyStore.access = <<>> /\ EmptyStore.lists = <<>>
        /\ EmptyStore.ItemsByID = {} /\ EmptyStore.itemRefCount = <<>>
        /\ EmptyStore.lastPrune = Never /\ EmptyStore.before = {}
    BY DEF EmptyStore
  <2>. QED BY <1>6, <2>1, <2>2 DEF Agrees
<1>. QED BY <1>1, <1>2, <1>5, <1>7 DEF LoopInv, Twins, Beside

LEMMA DeleteKeyTwins ==
  ASSUME NEW s, NEW c, Twins(c, s), NEW key
  PROVE  Twins(deleteLocked(c, key), delete(s, key))
<1>1. DOMAIN c.objects = Live(s)
  BY LiveTwins
<1>2. CASE key \in Live(s)
  BY <1>2, DeleteTwins DEF delete
<1>3. CASE key \notin Live(s)
  BY <1>1, <1>3 DEF delete, deleteLocked
<1>. QED BY <1>2, <1>3

LEMMA LoopNextInv == LoopInv /\ [LoopNext]_loopVars => LoopInv'
<1>. SUFFICES ASSUME LoopInv, [LoopNext]_loopVars PROVE LoopInv'
  OBVIOUS
<1>0. Twins(loops, store) /\ now \in Nat /\ ItemLists \subseteq Seq(ItemIds)
  BY CallsAssumption DEF LoopInv
<1>1. CASE UNCHANGED loopVars
  BY <1>0, <1>1 DEF loopVars, LoopInv
<1>2. CASE LoopNext
  <2>1. PICK walk \in SetToSeqs(DOMAIN loops.access) :
          LET pruned == pruneLoop(loops, walk, now, FALSE) IN
            \/ Tick /\ UNCHANGED loops
            \/ Prune /\ loops' = pruneLoop(loops, walk, now, TRUE)
            \/ PruneIfDue /\ loops' = pruned
            \/ \E key \in ResponseKey, value \in Values, context, output, current \in ItemLists,
                  keep \in BOOLEAN, conversation \in {{}} \cup { {k} : k \in ConversationKey } :
                  /\ DoSaveResponse(key, value, context, output, keep, conversation, current)
                  /\ loops' = saveResponseLoops(pruned, key, value, context, output, keep,
                                                conversation, current, now)
            \/ \E key \in ChatKey, value \in Values, messages \in ItemLists :
                  /\ DoSaveChatCompletion(key, value, messages)
                  /\ loops' = saveChatLoops(pruned, key, value, messages, now)
            \/ \E key \in ConversationKey, value \in Values, items \in ItemLists :
                  /\ DoSaveConversation(key, value, items)
                  /\ loops' = saveConversationLoops(pruned, key, value, items, now)
            \/ \E key \in Key : Read(key) /\ loops' = read(loops, key, now)
            \/ \E key \in Key : Delete(key) /\ loops' = deleteLocked(loops, key)
            \/ \E key \in Key, value \in Values :
                  Update(key, value) /\ loops' = update(loops, key, value, now)
            \/ \E items \in ItemLists : RegisterItems(items) /\ loops' = registerItems(loops, items)
    BY <1>2 DEF LoopNext
  <2>. DEFINE pruned == pruneLoop(loops, walk, now, FALSE)
  <2>2. Walks(walk, Live(store))
    BY <1>0, <2>1, LiveTwins, SetToSeqsWalk
  <2>3. \A force \in BOOLEAN :
          Twins(pruneLoop(loops, walk, now, force), pruneExpired(store, now, force))
    BY <1>0, <2>2, PruneLoopTwins
  <2>4. Twins(pruned, pruneExpired(store, now, FALSE))
    BY <2>3
  <2>. HIDE DEF pruned
  <2>5. CASE Tick /\ UNCHANGED loops
    BY <1>0, <2>5 DEF Tick, LoopInv
  <2>6. CASE Prune /\ loops' = pruneLoop(loops, walk, now, TRUE)
    BY <1>0, <2>3, <2>6 DEF Prune, LoopInv
  <2>7. CASE PruneIfDue /\ loops' = pruned
    BY <1>0, <2>4, <2>7 DEF PruneIfDue, LoopInv
  <2>8. ASSUME NEW key \in ResponseKey, NEW value \in Values, NEW context \in ItemLists,
               NEW output \in ItemLists, NEW current \in ItemLists, NEW keep \in BOOLEAN,
               NEW conversation \in {{}} \cup { {k} : k \in ConversationKey },
               DoSaveResponse(key, value, context, output, keep, conversation, current),
               loops' = saveResponseLoops(pruned, key, value, context, output, keep,
                                          conversation, current, now)
        PROVE  LoopInv'
    <3>1. context \in Seq(ItemIds) /\ output \in Seq(ItemIds) /\ current \in Seq(ItemIds)
      BY <1>0
    <3>2. Twins(saveResponseLoops(pruned, key, value, context, output, keep, conversation,
                                  current, now),
                SaveResponse(store, key, value, context, output, keep, conversation, current, now))
      BY <1>0, <2>4, <3>1, SaveResponseTwins
    <3>. QED BY <1>0, <2>8, <3>2 DEF DoSaveResponse, LoopInv
  <2>9. ASSUME NEW key \in ChatKey, NEW value \in Values, NEW messages \in ItemLists,
               DoSaveChatCompletion(key, value, messages),
               loops' = saveChatLoops(pruned, key, value, messages, now)
        PROVE  LoopInv'
    <3>1. Twins(saveChatLoops(pruned, key, value, messages, now),
                SaveChatCompletion(store, key, value, messages, now))
      BY <1>0, <2>4, SaveChatTwins
    <3>. QED BY <1>0, <2>9, <3>1 DEF DoSaveChatCompletion, LoopInv
  <2>10. ASSUME NEW key \in ConversationKey, NEW value \in Values, NEW items \in ItemLists,
                DoSaveConversation(key, value, items),
                loops' = saveConversationLoops(pruned, key, value, items, now)
         PROVE  LoopInv'
    <3>1. Twins(saveConversationLoops(pruned, key, value, items, now),
                SaveConversation(store, key, value, items, now))
      BY <1>0, <2>4, SaveConversationTwins
    <3>. QED BY <1>0, <2>10, <3>1 DEF DoSaveConversation, LoopInv
  <2>11. ASSUME NEW key \in Key, Read(key), loops' = read(loops, key, now) PROVE LoopInv'
    <3>1. Twins(read(loops, key, now), read(store, key, now))
      BY <1>0, ReadBeside DEF Twins
    <3>. QED BY <1>0, <2>11, <3>1 DEF Read, LoopInv
  <2>12. ASSUME NEW key \in Key, Delete(key), loops' = deleteLocked(loops, key) PROVE LoopInv'
    <3>1. Twins(deleteLocked(loops, key), delete(store, key))
      BY <1>0, DeleteKeyTwins
    <3>. QED BY <1>0, <2>12, <3>1 DEF Delete, LoopInv
  <2>13. ASSUME NEW key \in Key, NEW value \in Values, Update(key, value),
                loops' = update(loops, key, value, now)
         PROVE  LoopInv'
    <3>1. Twins(update(loops, key, value, now), update(store, key, value, now))
      BY <1>0, UpdateBeside DEF Twins
    <3>. QED BY <1>0, <2>13, <3>1 DEF Update, LoopInv
  <2>14. ASSUME NEW items \in ItemLists, RegisterItems(items), loops' = registerItems(loops, items)
         PROVE  LoopInv'
    <3>1. items \in Seq(ItemIds)
      BY <1>0
    <3>2. Twins(registerItems(loops, items), registerItems(store, items))
      <4>1. IsStore(store)
        BY <1>0, LiveTwins
      <4>2. Live(registerItems(store, items)) = Live(store)
        <5>1. {} \in SUBSET ItemIds
          OBVIOUS
        <5>. QED BY <3>1, <4>1, <5>1, LivePut
      <4>. QED BY <1>0, <3>1, <4>2, RegisterBeside DEF Twins
    <3>. QED BY <1>0, <2>14, <3>2 DEF RegisterItems, LoopInv
  <2>. QED BY <2>1, <2>5, <2>6, <2>7, <2>8, <2>9, <2>10, <2>11, <2>12, <2>13, <2>14 DEF pruned
<1>. QED BY <1>1, <1>2

\* The loops' store stands for the closed forms' store between any two calls.
THEOREM LoopsStandForTheStore == LoopSpec => []LoopInv
BY LoopInitInv, LoopNextInv, PTL DEF LoopSpec

\* The loops of state.go, whichever way Go walks its maps, compute the closed
\* forms that everything else here is proved about, for any number of entries,
\* items and calls.
THEOREM LoopsComputeTheStore == LoopSpec => []LoopsAgree
<1>1. LoopInv => LoopsAgree
  BY AgreesAbstract DEF LoopInv, Twins, Beside, LoopsAgree
<1>. QED BY <1>1, LoopsStandForTheStore, PTL

\* No save-order slice holds an entry twice or one that is gone, so eviction
\* always takes away the oldest entry, and takes no turn for nothing.
THEOREM OrderSlicesStayExact == LoopSpec => []OrderSlicesExact
<1>1. LoopInv => OrderSlicesExact
  <2>. SUFFICES ASSUME LoopInv, NEW kind \in DOMAIN loops.order
                PROVE  /\ IsInjective(loops.order[kind])
                       /\ ToSet(loops.order[kind]) = OfKind(DOMAIN loops.objects, kind)
    BY DEF OrderSlicesExact
  <2>1. Ordered(loops, Live(store)) /\ DOMAIN loops.objects = Live(store)
    BY LiveTwins DEF LoopInv, Twins, Beside
  <2>2. kind \in TableKinds
    BY <2>1 DEF Ordered
  <2>3. Walks(loops.order[kind], OfKind(Live(store), kind))
    BY <2>1, <2>2 DEF Ordered
  <2>. DEFINE order == loops.order[kind]
              S == OfKind(Live(store), kind)
  <2>4. Walks(order, S)
    BY <2>3
  <2>. HIDE DEF order, S
  <2>5. /\ order \in Seq(S)
        /\ \A m, n \in 1..Len(order) : m # n => order[m] # order[n]
        /\ { order[n] : n \in 1..Len(order) } = S
    BY <2>4 DEF Walks
  <2>6. DOMAIN order = 1..Len(order)
    BY <2>5
  <2>7. IsInjective(order)
    BY <2>5, <2>6 DEF IsInjective
  <2>8. ToSet(order) = S
    BY <2>5, <2>6 DEF ToSet
  <2>. QED BY <2>1, <2>7, <2>8 DEF order, S
<1>. QED BY <1>1, LoopsStandForTheStore, PTL
=============================================================================
