---------------------------- MODULE StoreLemmas ----------------------------
(***************************************************************************)
(* Lemmas about the operators of StoreOps, for any number of ids, items    *)
(* and calls: what each makes of a store value that is in order (Good).    *)
(* The modules that prove something about a system with a store cite them. *)
(*                                                                         *)
(* The operators are taken one at a time.  CountsExactly is                *)
(* the strengthening that carries the reference counts through the middle  *)
(* of a method, where the counts have let go of slices that are still      *)
(* there, or have counted slices that are not there yet: it says which     *)
(* slices H the counts stand for.                                          *)
(***************************************************************************)
EXTENDS StoreOps, FiniteSetTheorems, TLAPS

\* The counts are those of the slices in H, and the index has what is counted.
CountsExactly(s, H) ==
  /\ \A i \in ItemIds : RefCount(s, i) = Cardinality(Holders(s, H, i))
  /\ s.ItemsByID = DOMAIN s.itemRefCount

\* Between two calls the counts stand for every slice that holds items.
Sound(s) == IsStore(s) /\ CountsExactly(s, Holding(s))

\* What an operator other than the prune itself does to the times: an entry of
\* the result was used at a time of T, or is an entry of s with its time unchanged.
TimesFrom(s, r, T) ==
  /\ \A key \in Live(r) :
       r.access[key] \in T \/ (key \in Live(s) /\ r.access[key] = s.access[key])
  /\ r.lastPrune = s.lastPrune

\* The object at key, with its slices, is in r what it was in s.
Kept(s, r, key) ==
  /\ key \in Live(s)
  /\ r.objects[key] = s.objects[key]
  /\ \A name \in ListNames(Kind(key)) : r.lists[<<key, name>>] = s.lists[<<key, name>>]

\* What an operator that writes no object leaves in r was in s as it is.
Narrowed(s, r) == \A key \in Live(r) : Kept(s, r, key)

\* What a save does to the tables: key holds value and the slices of lists, and
\* whatever else is in r was in s as it is.
Written(s, r, key, value, lists) ==
  /\ key \in Live(r) /\ r.objects[key] = value
  /\ \A name \in ListNames(Kind(key)) : r.lists[<<key, name>>] = lists[name]
  /\ \A k \in Live(r) \ {key} : Kept(s, r, k)

-----------------------------------------------------------------------------
(* Slices and sets of slices.                                              *)

\* A slice of a set of keys is a pair of one of the keys and one of the names
\* its kind keeps.
LEMMA SliceMembers ==
  ASSUME NEW K, NEW l
  PROVE  l \in Slices(K) <=>
           \E key \in K : \E name \in ListNames(Kind(key)) : l = <<key, name>>
BY DEF Slices

\* Slices of different keys are different, and a union of keys has the slices
\* of both.
LEMMA SlicesOfPart ==
  ASSUME NEW K, NEW D
  PROVE  Slices(K \ D) = { l \in Slices(K) : l[1] \notin D }
BY SliceMembers

LEMMA SlicesOfUnion ==
  ASSUME NEW K, NEW D
  PROVE  Slices(K \cup D) = Slices(K) \cup Slices(D)
BY SliceMembers

\* Finitely many objects have finitely many slices.
LEMMA SlicesFinite ==
  ASSUME NEW K, IsFiniteSet(K) PROVE IsFiniteSet(Slices(K))
<1>. DEFINE Names == {"input", "context", "messages", "items"}
<1>1. IsFiniteSet(Names)
  <2>1. Names = ({"input"} \cup {"context"}) \cup ({"messages"} \cup {"items"})
    OBVIOUS
  <2>2. IsFiniteSet({"input"} \cup {"context"}) /\ IsFiniteSet({"messages"} \cup {"items"})
    BY FS_Singleton, FS_Union
  <2>3. IsFiniteSet(({"input"} \cup {"context"}) \cup ({"messages"} \cup {"items"}))
    BY <2>2, FS_Union
  <2>. QED BY <2>1, <2>3
<1>2. IsFiniteSet(K \X Names)
  BY <1>1, FS_Product
<1>3. Slices(K) \subseteq K \X Names
  BY SliceMembers DEF ListNames
<1>. QED
  BY <1>2, <1>3, FS_Subset

\* A live object has all the slices of its kind.
LEMMA LiveSlices ==
  ASSUME NEW s, IsStore(s), NEW key \in Live(s), NEW name \in ListNames(Kind(key))
  PROVE  <<key, name>> \in DOMAIN s.lists /\ s.lists[<<key, name>>] \in Seq(ItemIds)
<1>1. <<key, name>> \in Slices(Live(s))
  BY SliceMembers
<1>. QED BY <1>1 DEF IsStore

\* What writes neither objects nor slices nor adds entries narrows.
LEMMA NarrowedSame ==
  ASSUME NEW s, NEW r, Live(r) \subseteq Live(s), r.objects = s.objects, r.lists = s.lists
  PROVE  Narrowed(s, r)
BY DEF Narrowed, Kept

LEMMA NarrowedTwice ==
  ASSUME NEW s, NEW m, NEW r, Narrowed(s, m), Narrowed(m, r) PROVE Narrowed(s, r)
BY DEF Narrowed, Kept

LEMMA HoldingFinite ==
  ASSUME NEW s, IsStore(s) PROVE IsFiniteSet(Holding(s))
<1>1. IsFiniteSet(Slices(Live(s)))
  BY SlicesFinite DEF IsStore
<1>2. Holding(s) \subseteq Slices(Live(s))
  BY DEF IsStore, Holding
<1>. QED BY <1>1, <1>2, FS_Subset

\* Every item list is a set of item ids.
LEMMA ItemIDsType ==
  ASSUME NEW items \in Seq(ItemIds) PROVE itemIDs(items) \subseteq ItemIds
BY DEF itemIDs

LEMMA ItemIDsOfConcat ==
  ASSUME NEW a \in Seq(ItemIds), NEW b \in Seq(ItemIds)
  PROVE  /\ a \o b \in Seq(ItemIds)
         /\ itemIDs(a \o b) = itemIDs(a) \cup itemIDs(b)
<1>1. a \o b \in Seq(ItemIds)
  OBVIOUS
<1>2. ASSUME NEW n \in DOMAIN a PROVE a[n] \in itemIDs(a \o b)
  <2>1. n \in DOMAIN (a \o b) /\ (a \o b)[n] = a[n]
    OBVIOUS
  <2>. QED BY <2>1 DEF itemIDs
<1>3. ASSUME NEW n \in DOMAIN b PROVE b[n] \in itemIDs(a \o b)
  <2>1. Len(a) + n \in DOMAIN (a \o b) /\ (a \o b)[Len(a) + n] = b[n]
    OBVIOUS
  <2>. QED BY <2>1 DEF itemIDs
<1>4. ASSUME NEW n \in DOMAIN (a \o b)
      PROVE (a \o b)[n] \in itemIDs(a) \cup itemIDs(b)
  <2>1. CASE n <= Len(a)
    <3>1. n \in DOMAIN a /\ (a \o b)[n] = a[n]
      BY <2>1
    <3>. QED BY <3>1 DEF itemIDs
  <2>2. CASE n > Len(a)
    <3>1. n - Len(a) \in DOMAIN b /\ (a \o b)[n] = b[n - Len(a)]
      BY <2>2
    <3>. QED BY <3>1 DEF itemIDs
  <2>. QED BY <2>1, <2>2
<1>. QED
  BY <1>1, <1>2, <1>3, <1>4 DEF itemIDs

-----------------------------------------------------------------------------
(* The counts: registerItems, addItemRefs and releaseItemRefs.             *)

LEMMA HoldersFinite ==
  ASSUME NEW s, NEW L, IsFiniteSet(L), NEW i
  PROVE  /\ IsFiniteSet(Holders(s, L, i))
         /\ Cardinality(Holders(s, L, i)) \in Nat
         /\ Cardinality(Holders(s, L, i)) > 0 <=> \E l \in L : i \in itemIDs(s.lists[l])
<1>1. Holders(s, L, i) \subseteq L
  BY DEF Holders
<1>2. IsFiniteSet(Holders(s, L, i))
  BY <1>1, FS_Subset
<1>3. Cardinality(Holders(s, L, i)) \in Nat
  BY <1>2, FS_CardinalityType
<1>4. Cardinality(Holders(s, L, i)) = 0 <=> Holders(s, L, i) = {}
  BY <1>2, FS_EmptySet
<1>5. Holders(s, L, i) # {} <=> \E l \in L : i \in itemIDs(s.lists[l])
  BY DEF Holders
<1>. QED
  BY <1>2, <1>3, <1>4, <1>5

\* registerItems changes the index and nothing else.
LEMMA RegisterItemsStore ==
  ASSUME NEW s, IsStore(s), NEW items \in Seq(ItemIds)
  PROVE  /\ IsStore(registerItems(s, items))
         /\ registerItems(s, items).ItemsByID = s.ItemsByID \cup itemIDs(items)
         /\ \A f \in DOMAIN s \ {"ItemsByID"} : registerItems(s, items)[f] = s[f]
<1>. DEFINE r == registerItems(s, items)
<1>1. /\ DOMAIN r = DOMAIN s
      /\ r = [f \in DOMAIN r |-> r[f]]
      /\ r.ItemsByID = s.ItemsByID \cup itemIDs(items)
      /\ \A f \in DOMAIN s \ {"ItemsByID"} : r[f] = s[f]
  BY DEF registerItems, IsStore
<1>2. r.ItemsByID \subseteq ItemIds
  BY <1>1, ItemIDsType DEF IsStore
<1>. QED
  BY <1>1, <1>2 DEF IsStore, Live

\* addItemRefs adds one to the count of each of the ids.
LEMMA AddItemRefsStore ==
  ASSUME NEW s, IsStore(s), NEW ids \in SUBSET ItemIds
  PROVE  /\ IsStore(addItemRefs(s, ids))
         /\ DOMAIN addItemRefs(s, ids).itemRefCount = DOMAIN s.itemRefCount \cup ids
         /\ \A i \in ItemIds : RefCount(addItemRefs(s, ids), i)
                                 = RefCount(s, i) + IF i \in ids THEN 1 ELSE 0
         /\ \A f \in DOMAIN s \ {"itemRefCount"} : addItemRefs(s, ids)[f] = s[f]
<1>. DEFINE r == addItemRefs(s, ids)
<1>1. \A i \in ItemIds : RefCount(s, i) \in Nat
  BY DEF RefCount, IsStore
<1>2. /\ DOMAIN r = DOMAIN s
      /\ r = [f \in DOMAIN r |-> r[f]]
      /\ r.itemRefCount = [i \in DOMAIN s.itemRefCount \cup ids |->
                             RefCount(s, i) + IF i \in ids THEN 1 ELSE 0]
      /\ \A f \in DOMAIN s \ {"itemRefCount"} : r[f] = s[f]
  BY DEF addItemRefs, IsStore
<1>3. r.itemRefCount \in [DOMAIN r.itemRefCount -> Nat \ {0}]
  BY <1>1, <1>2 DEF IsStore, RefCount
<1>4. \A i \in ItemIds : RefCount(r, i) = RefCount(s, i) + IF i \in ids THEN 1 ELSE 0
  BY <1>1, <1>2 DEF RefCount
<1>5. IsStore(r)
  BY <1>2, <1>3 DEF IsStore, Live
<1>. QED
  BY <1>2, <1>4, <1>5

\* releaseItemRefs(s, L), where the counts stand for H and H contains L, makes
\* them stand for the rest of H, and takes out of the index what is not held
\* there.
LEMMA ReleaseItemRefsStore ==
  ASSUME NEW s, IsStore(s), NEW H, IsFiniteSet(H), NEW L \in SUBSET H, CountsExactly(s, H)
  PROVE  /\ IsStore(releaseItemRefs(s, L))
         /\ CountsExactly(releaseItemRefs(s, L), H \ L)
         /\ \A f \in DOMAIN s \ {"itemRefCount", "ItemsByID"} : releaseItemRefs(s, L)[f] = s[f]
<1>. DEFINE r == releaseItemRefs(s, L)
            lost(i) == Cardinality(Holders(s, L, i))
            rest(i) == Cardinality(Holders(s, H \ L, i))
            gone == { i \in ItemIds : lost(i) > 0 /\ RefCount(s, i) <= lost(i) }
<1>1. IsFiniteSet(L) /\ IsFiniteSet(H \ L)
  BY FS_Subset, FS_Difference
<1>2. ASSUME NEW i \in ItemIds
      PROVE  lost(i) \in Nat /\ rest(i) \in Nat /\ RefCount(s, i) = lost(i) + rest(i)
  <2>1. lost(i) \in Nat /\ rest(i) \in Nat
    BY <1>1, HoldersFinite
  <2>2. /\ Holders(s, H, i) = Holders(s, L, i) \cup Holders(s, H \ L, i)
        /\ Holders(s, L, i) \cap Holders(s, H \ L, i) = {}
    BY DEF Holders
  <2>3. IsFiniteSet(Holders(s, L, i)) /\ IsFiniteSet(Holders(s, H \ L, i))
    BY <1>1, HoldersFinite
  <2>4. Cardinality(Holders(s, H, i)) = lost(i) + rest(i) - Cardinality({})
    BY <2>2, <2>3, FS_Union
  <2>5. Cardinality({}) = 0
    BY FS_EmptySet
  <2>. QED
    BY <2>1, <2>4, <2>5 DEF CountsExactly
<1>3. /\ DOMAIN r = DOMAIN s
      /\ r = [f \in DOMAIN r |-> r[f]]
      /\ r.itemRefCount = [i \in DOMAIN s.itemRefCount \ gone |-> s.itemRefCount[i] - lost(i)]
      /\ r.ItemsByID = s.ItemsByID \ gone
      /\ \A f \in DOMAIN s \ {"itemRefCount", "ItemsByID"} : r[f] = s[f]
  BY DEF releaseItemRefs, IsStore
<1>4. ASSUME NEW i \in DOMAIN s.itemRefCount
      PROVE  /\ i \in ItemIds /\ s.itemRefCount[i] = lost(i) + rest(i)
             /\ i \in gone <=> rest(i) = 0
  <2>1. i \in ItemIds /\ s.itemRefCount[i] = RefCount(s, i) /\ RefCount(s, i) # 0
    BY DEF IsStore, RefCount
  <2>2. lost(i) \in Nat /\ rest(i) \in Nat /\ RefCount(s, i) = lost(i) + rest(i)
    BY <2>1, <1>2
  <2>3. i \in gone <=> lost(i) > 0 /\ RefCount(s, i) <= lost(i)
    BY <2>1
  <2>. HIDE DEF lost, rest, gone
  <2>. QED
    BY <2>1, <2>2, <2>3
<1>5. r.itemRefCount \in [DOMAIN r.itemRefCount -> Nat \ {0}]
  <2>1. ASSUME NEW i \in DOMAIN s.itemRefCount \ gone
        PROVE  s.itemRefCount[i] - lost(i) \in Nat \ {0}
    <3>. HIDE DEF lost, rest, gone
    <3>1. lost(i) \in Nat /\ rest(i) \in Nat
      BY <1>2, <1>4
    <3>. QED BY <3>1, <1>4
  <2>. HIDE DEF lost, gone
  <2>. QED BY <1>3, <2>1
<1>6. IsStore(r)
  BY <1>3, <1>5 DEF IsStore, Live
<1>7. ASSUME NEW i \in ItemIds
      PROVE  RefCount(r, i) = rest(i)
  <2>. HIDE DEF lost, rest, gone, r
  <2>0. lost(i) \in Nat /\ rest(i) \in Nat
    BY <1>2
  <2>1. CASE i \in DOMAIN s.itemRefCount /\ i \notin gone
    <3>1. RefCount(r, i) = s.itemRefCount[i] - lost(i)
      BY <2>1, <1>3 DEF RefCount
    <3>. QED BY <3>1, <2>0, <2>1, <1>4
  <2>2. CASE i \in DOMAIN s.itemRefCount /\ i \in gone
    <3>1. RefCount(r, i) = 0
      BY <2>2, <1>3 DEF RefCount
    <3>. QED BY <3>1, <2>2, <1>4
  <2>3. CASE i \notin DOMAIN s.itemRefCount
    <3>1. RefCount(s, i) = 0 /\ RefCount(r, i) = 0
      BY <2>3, <1>3 DEF RefCount
    <3>. QED BY <3>1, <2>0, <1>2
  <2>. QED BY <2>1, <2>2, <2>3
<1>8. \A i \in ItemIds : Holders(r, H \ L, i) = Holders(s, H \ L, i)
  BY <1>3 DEF Holders, IsStore
<1>9. r.ItemsByID = DOMAIN r.itemRefCount
  BY <1>3 DEF CountsExactly
<1>. QED
  BY <1>3, <1>6, <1>7, <1>8, <1>9 DEF CountsExactly

\* Which slices hold an item depends on the slices only.
LEMMA HoldersSame ==
  ASSUME NEW s, NEW r, NEW L, \A l \in L : s.lists[l] = r.lists[l], NEW i
  PROVE  Holders(s, L, i) = Holders(r, L, i)
BY DEF Holders

\* One slice more is one reference more for each item in it.
LEMMA HoldersOneMore ==
  ASSUME NEW s, NEW L, IsFiniteSet(L), NEW l, l \notin L, NEW i
  PROVE  Cardinality(Holders(s, L \cup {l}, i))
           = Cardinality(Holders(s, L, i)) + IF i \in itemIDs(s.lists[l]) THEN 1 ELSE 0
<1>1. IsFiniteSet(Holders(s, L, i)) /\ l \notin Holders(s, L, i)
  BY HoldersFinite DEF Holders
<1>2. CASE i \in itemIDs(s.lists[l])
  <2>1. Holders(s, L \cup {l}, i) = Holders(s, L, i) \cup {l}
    BY <1>2 DEF Holders
  <2>2. Cardinality(Holders(s, L, i) \cup {l}) = Cardinality(Holders(s, L, i)) + 1
    BY <1>1, FS_AddElement
  <2>. QED BY <1>2, <2>1, <2>2
<1>3. CASE i \notin itemIDs(s.lists[l])
  <2>1. Holders(s, L \cup {l}, i) = Holders(s, L, i)
    BY <1>3 DEF Holders
  <2>2. Cardinality(Holders(s, L, i)) \in Nat
    BY HoldersFinite
  <2>. QED BY <1>3, <2>1, <2>2
<1>. QED BY <1>2, <1>3

-----------------------------------------------------------------------------
(* The tables: drop, rememberID, evict, pruneExpired and put.              *)

\* drop(s, D) is the store without the objects of D.
LEMMA DropStore ==
  ASSUME NEW s, Sound(s), NEW D
  PROVE  /\ Sound(drop(s, D))
         /\ Live(drop(s, D)) = Live(s) \ D
         /\ \A key \in Live(s) \ D : drop(s, D).access[key] = s.access[key]
         /\ drop(s, D).lastPrune = s.lastPrune
         /\ drop(s, D).before = { p \in s.before : p[1] \notin D /\ p[2] \notin D }
         /\ Narrowed(s, drop(s, D))
<1>. DEFINE L == { l \in Holding(s) : l[1] \in D }
            m == releaseItemRefs(s, L)
            r == drop(s, D)
<1>1. /\ IsStore(m) /\ CountsExactly(m, Holding(s) \ L)
      /\ \A f \in DOMAIN s \ {"itemRefCount", "ItemsByID"} : m[f] = s[f]
  BY HoldingFinite, ReleaseItemRefsStore DEF Sound
<1>2. /\ DOMAIN r = DOMAIN m
      /\ r = [f \in DOMAIN r |-> r[f]]
      /\ r.objects = Restrict(m.objects, DOMAIN m.objects \ D)
      /\ r.access = Restrict(m.access, DOMAIN m.access \ D)
      /\ r.before = { p \in m.before : p[1] \notin D /\ p[2] \notin D }
      /\ r.lists = Restrict(m.lists, { l \in DOMAIN m.lists : l[1] \notin D })
      /\ r.ItemsByID = m.ItemsByID /\ r.itemRefCount = m.itemRefCount
      /\ r.lastPrune = m.lastPrune
  <2>. HIDE DEF m
  <2>. QED BY <1>1 DEF drop, IsStore, m
<1>3. /\ m.objects = s.objects /\ m.access = s.access /\ m.before = s.before
      /\ m.lists = s.lists /\ m.lastPrune = s.lastPrune
  BY <1>1 DEF Sound, IsStore
<1>. HIDE DEF m, r
<1>4. Live(r) = Live(s) \ D /\ IsFiniteSet(Live(r))
  BY <1>2, <1>3, FS_Difference DEF Live, Restrict, Sound, IsStore
<1>5. /\ r.objects \in [Live(r) -> Values]
      /\ r.access \in [Live(r) -> Nat]
      /\ \A key \in Live(r) : r.access[key] = s.access[key] /\ r.objects[key] = s.objects[key]
  BY <1>2, <1>3, <1>4 DEF Restrict, Sound, IsStore, Live
<1>6. /\ DOMAIN r.lists = { l \in DOMAIN s.lists : l[1] \notin D }
      /\ \A l \in DOMAIN r.lists : r.lists[l] = s.lists[l]
  BY <1>2, <1>3 DEF Restrict
<1>7. r.lists \in [Slices(Live(r)) -> Seq(ItemIds)]
  <2>0. Slices(Live(s) \ D) = { l \in Slices(Live(s)) : l[1] \notin D }
    BY SlicesOfPart
  <2>1. Slices(Live(r)) = { l \in Slices(Live(s)) : l[1] \notin D }
    BY <1>4, <2>0
  <2>2. s.lists \in [Slices(Live(s)) -> Seq(ItemIds)]
    BY DEF Sound, IsStore
  <2>3. r.lists = Restrict(s.lists, { l \in DOMAIN s.lists : l[1] \notin D })
    BY <1>2, <1>3
  <2>. QED BY <2>1, <2>2, <2>3 DEF Restrict
<1>8. IsStore(r)
  BY <1>1, <1>2, <1>3, <1>4, <1>5, <1>7 DEF IsStore, Sound
<1>9. Holding(r) = Holding(s) \ L
  BY <1>6 DEF Holding
<1>10. CountsExactly(r, Holding(r))
  <2>1. \A i \in ItemIds : RefCount(r, i) = RefCount(m, i)
    BY <1>2 DEF RefCount
  <2>2. \A l \in Holding(r) : m.lists[l] = r.lists[l]
    BY <1>3, <1>6 DEF Holding
  <2>3. \A i \in ItemIds : Holders(r, Holding(r), i) = Holders(m, Holding(s) \ L, i)
    BY <1>9, <2>2, HoldersSame
  <2>. QED BY <1>1, <1>2, <2>1, <2>3 DEF CountsExactly
<1>11. Narrowed(s, r)
  <2>1. \A key \in Live(r) : \A name \in ListNames(Kind(key)) : <<key, name>> \in DOMAIN r.lists
    BY <1>8, LiveSlices
  <2>. QED BY <1>4, <1>5, <1>6, <2>1 DEF Narrowed, Kept
<1>. QED
  BY <1>2, <1>3, <1>4, <1>5, <1>8, <1>10, <1>11 DEF Sound, r

LEMMA RememberIDStore ==
  ASSUME NEW s, Sound(s), NEW key \in Live(s)
  PROVE  /\ Sound(rememberID(s, key))
         /\ Live(rememberID(s, key)) = Live(s)
         /\ TimesFrom(s, rememberID(s, key), {})
         /\ \A f \in DOMAIN s \ {"before"} : rememberID(s, key)[f] = s[f]
         /\ Narrowed(s, rememberID(s, key))
<1>. DEFINE r == rememberID(s, key)
<1>1. /\ DOMAIN r = DOMAIN s
      /\ r = [f \in DOMAIN r |-> r[f]]
      /\ r.before = { p \in s.before : p[1] # key /\ p[2] # key }
                      \cup ((OfKind(Live(s), Kind(key)) \ {key}) \X {key})
      /\ \A f \in DOMAIN s \ {"before"} : r[f] = s[f]
  BY DEF rememberID, Sound, IsStore
<1>2. r.before \subseteq Live(s) \X Live(s)
  BY <1>1 DEF OfKind, Sound, IsStore
<1>. HIDE DEF r
<1>3. /\ r.objects = s.objects /\ r.access = s.access /\ r.lists = s.lists
      /\ r.ItemsByID = s.ItemsByID /\ r.itemRefCount = s.itemRefCount
      /\ r.lastPrune = s.lastPrune
  BY <1>1 DEF Sound, IsStore
<1>4. IsStore(r) /\ Live(r) = Live(s)
  BY <1>1, <1>2, <1>3 DEF Sound, IsStore, Live
<1>5. CountsExactly(r, Holding(r))
  BY <1>3 DEF Sound, CountsExactly, Holding, Holders, RefCount
<1>6. Narrowed(s, r)
  BY <1>3, <1>4, NarrowedSame
<1>. QED
  BY <1>1, <1>3, <1>4, <1>5, <1>6 DEF Sound, TimesFrom, r

\* Entries leave a table, and the rest is untouched, in an eviction as in a prune.
LEMMA EvictStore ==
  ASSUME NEW s, Sound(s), NEW kind
  PROVE  /\ Sound(evict(s, kind))
         /\ Live(evict(s, kind)) \subseteq Live(s)
         /\ TimesFrom(s, evict(s, kind), {})
         /\ Narrowed(s, evict(s, kind))
<1>. DEFINE D == { x \in OfKind(Live(s), kind) :
                     Cardinality({ y \in OfKind(Live(s), kind) : <<y, x>> \notin s.before })
                       > Limit(kind) }
<1>1. evict(s, kind) = s \/ evict(s, kind) = drop(s, D)
  BY DEF evict
<1>2. CASE evict(s, kind) = s
  BY <1>2, NarrowedSame DEF TimesFrom
<1>3. CASE evict(s, kind) = drop(s, D)
  <2>. HIDE DEF D
  <2>. QED BY <1>3, DropStore DEF TimesFrom
<1>. QED BY <1>1, <1>2, <1>3

-----------------------------------------------------------------------------
(* The save order is a queue, and no table outgrows its limit.             *)

\* The order is a queue of the keys of K.
QueueOf(s, K) ==
  /\ \A p \in s.before : Kind(p[1]) = Kind(p[2]) /\ <<p[2], p[1]>> \notin s.before
  /\ \A S \in SUBSET K :
       S # {} /\ (\A x, y \in S : Kind(x) = Kind(y))
         => \E first \in S : \A y \in S \ {first} : <<first, y>> \in s.before

\* Table kind is within its limit.
Within(s, kind) == Limit(kind) # 0 => Cardinality(OfKind(Live(s), kind)) <= Limit(kind)

TableKinds == {"response", "chat", "conversation"}

\* OrderIsQueue and CapacityRespected of a store value.
Tables(s) == QueueOf(s, Live(s)) /\ \A kind \in TableKinds : Within(s, kind)

LEMMA OfKindSmaller ==
  ASSUME NEW K, IsFiniteSet(K), NEW D \in SUBSET K, NEW kind
  PROVE  /\ IsFiniteSet(OfKind(K, kind)) /\ Cardinality(OfKind(K, kind)) \in Nat
         /\ Cardinality(OfKind(D, kind)) \in Nat
         /\ Cardinality(OfKind(D, kind)) <= Cardinality(OfKind(K, kind))
<1>1. OfKind(K, kind) \subseteq K /\ OfKind(D, kind) \subseteq OfKind(K, kind)
  BY DEF OfKind
<1>2. IsFiniteSet(OfKind(K, kind))
  BY <1>1, FS_Subset
<1>3. IsFiniteSet(OfKind(D, kind))
  BY <1>1, <1>2, FS_Subset
<1>. QED BY <1>1, <1>2, <1>3, FS_Subset, FS_CardinalityType

LEMMA LimitType == ASSUME NEW kind PROVE Limit(kind) \in Nat
BY LimitsAssumption DEF Limit

\* r is s without the objects of D.
Without(s, r, D) ==
  /\ Live(r) = Live(s) \ D
  /\ r.before = { p \in s.before : p[1] \notin D /\ p[2] \notin D }

\* Taking objects away keeps the order a queue and the tables within limits.
LEMMA QueueOfPart ==
  ASSUME NEW s, QueueOf(s, Live(s)), NEW r, NEW D, Without(s, r, D)
  PROVE  QueueOf(r, Live(r))
<1>1. \A p \in r.before : Kind(p[1]) = Kind(p[2]) /\ <<p[2], p[1]>> \notin r.before
  BY DEF QueueOf, Without
<1>2. ASSUME NEW S \in SUBSET Live(r), S # {}, \A x, y \in S : Kind(x) = Kind(y)
      PROVE  \E first \in S : \A y \in S \ {first} : <<first, y>> \in r.before
  <2>1. PICK first \in S : \A y \in S \ {first} : <<first, y>> \in s.before
    BY <1>2 DEF QueueOf, Without
  <2>2. \A y \in S : y \notin D
    BY DEF Without
  <2>3. ASSUME NEW y \in S \ {first} PROVE <<first, y>> \in r.before
    BY <2>1, <2>2 DEF Without
  <2>. QED BY <2>3
<1>. QED BY <1>1, <1>2 DEF QueueOf

LEMMA TablesOfPart ==
  ASSUME NEW s, IsStore(s), Tables(s), NEW r, NEW D, Without(s, r, D)
  PROVE  Tables(r)
<1>1. QueueOf(r, Live(r))
  BY QueueOfPart DEF Tables
<1>0. Live(r) = Live(s) \ D
  BY DEF Without
<1>2. ASSUME NEW kind \in TableKinds PROVE Within(r, kind)
  <2>1. Cardinality(OfKind(Live(r), kind)) <= Cardinality(OfKind(Live(s), kind))
    BY <1>0, OfKindSmaller DEF IsStore
  <2>2. /\ Cardinality(OfKind(Live(r), kind)) \in Nat
        /\ Cardinality(OfKind(Live(s), kind)) \in Nat
    BY <1>0, OfKindSmaller DEF IsStore
  <2>3. Within(s, kind)
    BY DEF Tables
  <2>. QED BY <2>1, <2>2, <2>3, LimitType DEF Within
<1>. QED BY <1>1, <1>2 DEF Tables

LEMMA TablesSame ==
  ASSUME NEW s, Tables(s), NEW r, Live(r) = Live(s), r.before = s.before
  PROVE  Tables(r)
BY DEF Tables, QueueOf, Within

\* rememberID makes a queue of all keys out of a queue of the others.
LEMMA RememberIDQueue ==
  ASSUME NEW s, IsStore(s), NEW key \in Live(s), NEW K, QueueOf(s, K),
         Live(s) = K \cup {key}
  PROVE  QueueOf(rememberID(s, key), Live(s))
<1>. DEFINE r == rememberID(s, key)
<1>1. r.before = { p \in s.before : p[1] # key /\ p[2] # key }
                   \cup ((OfKind(Live(s), Kind(key)) \ {key}) \X {key})
  BY DEF rememberID, IsStore
<1>. HIDE DEF r
<1>2. \A p : p \in r.before <=>
        \/ p \in s.before /\ p[1] # key /\ p[2] # key
        \/ \E x \in Live(s) : Kind(x) = Kind(key) /\ x # key /\ p = <<x, key>>
  BY <1>1 DEF OfKind
<1>3. ASSUME NEW p \in r.before
      PROVE  Kind(p[1]) = Kind(p[2]) /\ <<p[2], p[1]>> \notin r.before
  <2>1. CASE p \in s.before /\ p[1] # key /\ p[2] # key
    <3>1. Kind(p[1]) = Kind(p[2]) /\ <<p[2], p[1]>> \notin s.before
      BY <2>1 DEF QueueOf
    <3>. QED BY <1>2, <2>1, <3>1
  <2>2. ASSUME NEW x \in Live(s), Kind(x) = Kind(key), x # key, p = <<x, key>>
        PROVE  Kind(p[1]) = Kind(p[2]) /\ <<p[2], p[1]>> \notin r.before
    BY <1>2, <2>2
  <2>. QED BY <1>2, <2>1, <2>2
<1>4. ASSUME NEW S \in SUBSET Live(s), S # {}, \A x, y \in S : Kind(x) = Kind(y)
      PROVE  \E first \in S : \A y \in S \ {first} : <<first, y>> \in r.before
  <2>. DEFINE R == S \ {key}
  <2>1. CASE R = {}
    BY <1>4, <2>1
  <2>2. CASE R # {}
    <3>1. R \in SUBSET K /\ \A x, y \in R : Kind(x) = Kind(y)
      BY <1>4
    <3>2. PICK first \in R : \A y \in R \ {first} : <<first, y>> \in s.before
      BY <2>2, <3>1 DEF QueueOf
    <3>3. ASSUME NEW y \in S \ {first} PROVE <<first, y>> \in r.before
      <4>1. CASE y = key
        BY <1>2, <1>4, <4>1
      <4>2. CASE y # key
        BY <1>2, <3>2, <4>2
      <4>. QED BY <4>1, <4>2
    <3>. QED BY <3>3
  <2>. QED BY <2>1, <2>2
<1>. QED BY <1>3, <1>4 DEF QueueOf, r

\* An eviction takes some objects away, or none.
LEMMA EvictTakesAway ==
  ASSUME NEW s, Sound(s), NEW kind
  PROVE  \E D : Without(s, evict(s, kind), D)
<1>1. Without(s, s, {})
  BY DEF Without
<1>2. \A D : Without(s, drop(s, D), D)
  BY DropStore DEF Without
<1>. QED BY <1>1, <1>2 DEF evict

\* After an eviction the table is within its limit: the oldest survivor has
\* every other survivor behind it, and it survived.
LEMMA EvictWithin ==
  ASSUME NEW s, Sound(s), QueueOf(s, Live(s)), NEW kind
  PROVE  Within(evict(s, kind), kind)
<1>. DEFINE table == OfKind(Live(s), kind)
            since(x) == { y \in table : <<y, x>> \notin s.before }
            D == { x \in table : Cardinality(since(x)) > Limit(kind) }
            r == evict(s, kind)
            X == OfKind(Live(r), kind)
<1>. SUFFICES ASSUME Limit(kind) # 0, X # {} PROVE Cardinality(X) <= Limit(kind)
  BY FS_EmptySet, LimitType DEF Within
<1>1. r = drop(s, D)
  BY DEF evict
<1>2. IsFiniteSet(table)
  BY FS_Subset DEF OfKind, Sound, IsStore
<1>. HIDE DEF r, D
<1>3. Live(r) = Live(s) \ D
  BY <1>1, DropStore
<1>4. \A y \in X : y \in table /\ y \notin D /\ y \in Live(s) /\ Kind(y) = kind
  BY <1>3 DEF OfKind
<1>. HIDE DEF X
<1>5. PICK first \in X : \A y \in X \ {first} : <<first, y>> \in s.before
  <2>1. X \in SUBSET Live(s) /\ \A x, y \in X : Kind(x) = Kind(y)
    BY <1>4
  <2>. QED BY <2>1 DEF QueueOf
<1>6. ASSUME NEW y \in X PROVE <<y, first>> \notin s.before
  <2>1. \A p \in s.before : <<p[2], p[1]>> \notin s.before
    BY DEF QueueOf
  <2>2. CASE y = first
    <3>1. <<first, first>> \in s.before => <<first, first>> \notin s.before
      BY <2>1
    <3>. QED BY <2>2, <3>1
  <2>3. CASE y # first
    <3>1. <<first, y>> \in s.before
      BY <1>5, <2>3
    <3>. QED BY <2>1, <3>1
  <2>. QED BY <2>2, <2>3
<1>7. X \subseteq since(first) /\ since(first) \subseteq table
  BY <1>4, <1>6
<1>8. ~(Cardinality(since(first)) > Limit(kind))
  BY <1>4, <1>5 DEF D
<1>. HIDE DEF since, table
<1>9. IsFiniteSet(since(first)) /\ Cardinality(X) <= Cardinality(since(first))
  BY <1>2, <1>7, FS_Subset
<1>10. Cardinality(since(first)) \in Nat /\ Cardinality(X) \in Nat /\ Limit(kind) \in Nat
  BY <1>7, <1>9, FS_Subset, FS_CardinalityType, LimitType
<1>. QED BY <1>8, <1>9, <1>10

\* The youngest entry of a table is never evicted: it alone is not before it.
LEMMA YoungestStays ==
  ASSUME NEW s, Sound(s), NEW key \in Live(s)
  PROVE  key \in Live(evict(rememberID(s, key), Kind(key)))
<1>. DEFINE r == rememberID(s, key)
            kind == Kind(key)
            table == OfKind(Live(r), kind)
            since(x) == { y \in table : <<y, x>> \notin r.before }
            D == { x \in table : Cardinality(since(x)) > Limit(kind) }
<1>1. Sound(r) /\ Live(r) = Live(s)
  BY RememberIDStore
<1>2. r.before = { p \in s.before : p[1] # key /\ p[2] # key }
                   \cup ((OfKind(Live(s), kind) \ {key}) \X {key})
  BY DEF rememberID, Sound, IsStore
<1>. HIDE DEF r
<1>3. since(key) = {key}
  <2>1. key \in table
    BY <1>1 DEF OfKind
  <2>2. \A y \in table : <<y, key>> \in r.before <=> y # key
    BY <1>1, <1>2
  <2>. QED BY <2>1, <2>2
<1>4. Cardinality(since(key)) = 1
  BY <1>3, FS_Singleton
<1>5. CASE Limit(kind) = 0
  BY <1>1, <1>5 DEF evict, r
<1>6. CASE Limit(kind) # 0
  <2>1. evict(r, kind) = drop(r, D)
    BY <1>6 DEF evict
  <2>2. key \notin D
    BY <1>4, <1>6, LimitType
  <2>. HIDE DEF D, kind
  <2>. QED BY <1>1, <2>1, <2>2, DropStore DEF r, kind
<1>. QED BY <1>5, <1>6

\* What follows every save: the entry becomes the youngest, the oldest make
\* room.  s is the store before the save put key, and key alone, into r.
LEMMA RememberAndEvict ==
  ASSUME NEW s, IsStore(s), Tables(s), NEW r, Sound(r), NEW key \in Key,
         Live(r) = Live(s) \cup {key}, r.before = s.before,
         NEW T, TimesFrom(s, r, T)
  PROVE  /\ Sound(evict(rememberID(r, key), Kind(key)))
         /\ TimesFrom(s, evict(rememberID(r, key), Kind(key)), T)
         /\ Tables(evict(rememberID(r, key), Kind(key)))
         /\ Narrowed(r, evict(rememberID(r, key), Kind(key)))
         /\ key \in Live(evict(rememberID(r, key), Kind(key)))
<1>. DEFINE m == rememberID(r, key)
            e == evict(m, Kind(key))
<1>1. Sound(m) /\ TimesFrom(r, m, {}) /\ Live(m) = Live(r) /\ Narrowed(r, m)
  BY RememberIDStore
<1>2. Sound(e) /\ TimesFrom(m, e, {}) /\ Narrowed(m, e)
  BY <1>1, EvictStore
<1>10. key \in Live(e)
  BY YoungestStays
<1>3. QueueOf(r, Live(s))
  BY DEF Tables, QueueOf
<1>4. QueueOf(m, Live(m))
  BY <1>1, <1>3, RememberIDQueue DEF Sound
<1>. HIDE DEF m, e
<1>5. TimesFrom(s, e, T)
  BY <1>1, <1>2 DEF TimesFrom
<1>6. Within(e, Kind(key))
  BY <1>1, <1>4, EvictWithin DEF e
<1>7. PICK D : Without(m, e, D)
  BY <1>1, EvictTakesAway DEF e
<1>8. QueueOf(e, Live(e))
  BY <1>4, <1>7, QueueOfPart
<1>9. ASSUME NEW kind \in TableKinds, kind # Kind(key) PROVE Within(e, kind)
  <2>1. OfKind(Live(e), kind) \subseteq OfKind(Live(s), kind)
    BY <1>1, <1>7, <1>9 DEF OfKind, Without
  <2>2. IsFiniteSet(OfKind(Live(s), kind))
    BY OfKindSmaller DEF IsStore
  <2>3. /\ Cardinality(OfKind(Live(e), kind)) <= Cardinality(OfKind(Live(s), kind))
        /\ Cardinality(OfKind(Live(e), kind)) \in Nat
        /\ Cardinality(OfKind(Live(s), kind)) \in Nat
    BY <2>1, <2>2, FS_Subset, FS_CardinalityType
  <2>4. Within(s, kind)
    BY DEF Tables
  <2>. QED BY <2>3, <2>4, LimitType DEF Within
<1>11. Narrowed(r, e)
  BY <1>1, <1>2, NarrowedTwice
<1>. QED BY <1>2, <1>5, <1>6, <1>8, <1>9, <1>10, <1>11 DEF Tables, e, m

\* A save of key, into a store s that was just pruned, has made r: the table
\* overflowed by the new entry, and its oldest entry, if any, made room.
MadeRoom(s, r, key) ==
  /\ key \in Live(r) /\ Live(r) \subseteq Live(s) \cup {key}
  /\ \A k \in Live(s) \ Live(r) :
       /\ Kind(k) = Kind(key) /\ key \notin Live(s)
       /\ Cardinality(OfKind(Live(s), Kind(key))) = Limit(Kind(key))
       /\ Cardinality(OfKind(Live(r), Kind(key))) = Limit(Kind(key))
       /\ \A y \in OfKind(Live(s), Kind(key)) : y \in Live(r) => <<k, y>> \in s.before

\* A table within its limit loses at most one entry to a save: the first of the
\* queue, and only to an entry that was not there.
LEMMA SaveMakesRoom ==
  ASSUME NEW s, IsStore(s), Tables(s), NEW r, Sound(r), NEW key \in Key,
         Live(r) = Live(s) \cup {key}, r.before = s.before
  PROVE  MadeRoom(s, evict(rememberID(r, key), Kind(key)), key)
<1>. DEFINE m == rememberID(r, key)
            kind == Kind(key)
            e == evict(m, kind)
            held == OfKind(Live(s), kind)
            table == OfKind(Live(m), kind)
            since(x) == { y \in table : <<y, x>> \notin m.before }
            D == { x \in table : Cardinality(since(x)) > Limit(kind) }
<1>1. Sound(m) /\ Live(m) = Live(s) \cup {key}
  BY RememberIDStore
<1>2. QueueOf(m, Live(m))
  <2>1. QueueOf(r, Live(s))
    BY DEF Tables, QueueOf
  <2>. QED BY <1>1, <2>1, RememberIDQueue DEF Sound
<1>3. m.before = { p \in s.before : p[1] # key /\ p[2] # key }
                   \cup ((OfKind(Live(r), kind) \ {key}) \X {key})
  BY DEF rememberID, Sound, IsStore
<1>4. e = m \/ (Limit(kind) # 0 /\ e = drop(m, D))
  BY DEF evict
<1>5. key \in Live(e)
  BY YoungestStays
<1>. HIDE DEF m
<1>6. /\ IsFiniteSet(held) /\ Cardinality(held) \in Nat /\ Limit(kind) \in Nat
      /\ (Limit(kind) # 0 => Cardinality(held) <= Limit(kind))
  <2>1. kind \in TableKinds
    BY DEF Key, ResponseKey, ChatKey, ConversationKey, Kind, TableKinds
  <2>2. IsFiniteSet(held) /\ Cardinality(held) \in Nat
    BY OfKindSmaller DEF IsStore
  <2>. QED BY <2>1, <2>2, LimitType DEF Tables, Within
<1>7. table = held \cup {key}
  BY <1>1 DEF OfKind
<1>. HIDE DEF D, e, held, since, table
<1>8. Live(e) \subseteq Live(s) \cup {key}
  BY <1>1, <1>4, DropStore
<1>9. ASSUME NEW k \in Live(s) \ Live(e)
      PROVE  /\ Kind(k) = kind /\ key \notin Live(s)
             /\ Cardinality(held) = Limit(kind)
             /\ Cardinality(OfKind(Live(e), kind)) = Limit(kind)
             /\ \A y \in held : y \in Live(e) => <<k, y>> \in s.before
  <2>1. /\ Limit(kind) # 0 /\ e = drop(m, D) /\ Live(e) = Live(m) \ D /\ k \in D
    BY <1>1, <1>4, DropStore
  <2>2. k \in table /\ Cardinality(since(k)) > Limit(kind)
    BY <2>1 DEF D
  <2>3. /\ IsFiniteSet(table) /\ Cardinality(table) \in Nat
        /\ Cardinality(table) = IF key \in held THEN Cardinality(held) ELSE Cardinality(held) + 1
    BY <1>6, <1>7, FS_AddElement, FS_CardinalityType
  <2>4. \A x : /\ since(x) \subseteq table
               /\ Cardinality(since(x)) \in Nat /\ Cardinality(since(x)) <= Cardinality(table)
               /\ (Cardinality(since(x)) = Cardinality(table) => since(x) = table)
    <3>1. \A x : since(x) \subseteq table
      BY DEF since
    <3>. QED BY <2>3, <3>1, FS_Subset, FS_CardinalityType
  <2>5. /\ key \notin held /\ Cardinality(held) = Limit(kind)
        /\ Cardinality(table) = Limit(kind) + 1 /\ since(k) = table
    <3>1. Cardinality(since(k)) \in Nat /\ Cardinality(since(k)) <= Cardinality(table)
      BY <2>4
    <3>2. /\ key \notin held /\ Cardinality(held) = Limit(kind)
          /\ Cardinality(table) = Limit(kind) + 1
          /\ Cardinality(since(k)) = Cardinality(table)
      BY <1>6, <2>1, <2>2, <2>3, <3>1
    <3>. QED BY <2>4, <3>2
  <2>6. ASSUME NEW y \in table, y # k PROVE <<k, y>> \in m.before
    <3>1. <<y, k>> \notin m.before
      BY <2>5 DEF since
    <3>2. {k, y} \in SUBSET Live(m) /\ \A a, b \in {k, y} : Kind(a) = Kind(b)
      BY <2>2 DEF table, OfKind
    <3>3. \E first \in {k, y} : \A z \in {k, y} \ {first} : <<first, z>> \in m.before
      BY <1>2, <3>2 DEF QueueOf
    <3>. QED BY <2>6, <3>1, <3>3
  <2>7. D = {k}
    <3>1. ASSUME NEW y \in D, y # k PROVE FALSE
      <4>1. y \in table /\ Cardinality(since(y)) > Limit(kind)
        BY <3>1 DEF D
      <4>2. k \notin since(y)
        BY <2>6, <3>1, <4>1 DEF since
      <4>3. Cardinality(since(y)) # Cardinality(table)
        BY <2>2, <2>4, <4>2
      <4>. QED BY <1>6, <2>3, <2>4, <2>5, <4>1, <4>3
    <3>. QED BY <2>1, <3>1
  <2>8. OfKind(Live(e), kind) = table \ {k}
    BY <2>1, <2>7 DEF table, OfKind
  <2>9. Cardinality(table \ {k}) = Limit(kind)
    <3>1. Cardinality(table \ {k}) = Cardinality(table) - 1
      BY <2>2, <2>3, FS_RemoveElement
    <3>. QED BY <1>6, <2>5, <3>1
  <2>10. ASSUME NEW y \in held, y \in Live(e) PROVE <<k, y>> \in s.before
    <3>1. <<k, y>> \in m.before
      BY <1>7, <2>1, <2>6, <2>7, <2>10
    <3>2. y # key
      BY <2>5
    <3>. QED BY <1>3, <3>1, <3>2
  <2>11. Kind(k) = kind /\ key \notin Live(s)
    BY <2>2, <2>5 DEF table, held, OfKind
  <2>. QED BY <2>5, <2>8, <2>9, <2>10, <2>11
<1>. QED BY <1>5, <1>8, <1>9 DEF MadeRoom, e, m, held

\* Nothing was last used after t, and after a prune at time p nothing was last
\* used before p - TTL: PruneFloor with what makes it inductive.
Aged(s, t) ==
  /\ \A key \in Live(s) : s.access[key] <= t
  /\ s.lastPrune <= t
  /\ s.lastPrune # Never => \A key \in Live(s) : s.access[key] >= s.lastPrune - TTL

LEMMA AgedKept ==
  ASSUME NEW s, IsStore(s), NEW r, IsStore(r), NEW t \in Nat, Aged(s, t), TimesFrom(s, r, {t})
  PROVE  Aged(r, t)
<1>1. r.lastPrune = s.lastPrune /\ (s.lastPrune \in Nat \/ s.lastPrune = Never)
  BY DEF TimesFrom, IsStore
<1>2. ASSUME NEW key \in Live(r)
      PROVE  /\ r.access[key] <= t
             /\ s.lastPrune # Never => r.access[key] >= s.lastPrune - TTL
  <2>1. CASE r.access[key] = t
    BY <1>1, <2>1, LimitsAssumption DEF Aged
  <2>2. CASE key \in Live(s) /\ r.access[key] = s.access[key]
    BY <2>2 DEF Aged
  <2>. QED BY <2>1, <2>2 DEF TimesFrom
<1>. QED BY <1>1, <1>2 DEF Aged

LEMMA PruneStore ==
  ASSUME NEW s, Sound(s), NEW t \in Nat, NEW force \in BOOLEAN
  PROVE  /\ Sound(pruneExpired(s, t, force))
         /\ Narrowed(s, pruneExpired(s, t, force))
         /\ Aged(s, t) => Aged(pruneExpired(s, t, force), t)
         /\ Tables(s) => Tables(pruneExpired(s, t, force))
         /\ pruneExpired(s, t, force).lastPrune = IF pruneDue(s, t, force) THEN t ELSE s.lastPrune
<1>. DEFINE m == [s EXCEPT !.lastPrune = t]
            D == expired(s, t)
            r == pruneExpired(s, t, force)
<1>1. \/ ~pruneDue(s, t, force) /\ r = s
      \/ pruneDue(s, t, force) /\ r = drop(m, D)
  BY DEF pruneExpired
<1>2. /\ DOMAIN m = DOMAIN s
      /\ m = [f \in DOMAIN m |-> m[f]]
      /\ m.lastPrune = t
      /\ \A f \in DOMAIN s \ {"lastPrune"} : m[f] = s[f]
  BY DEF Sound, IsStore
<1>. HIDE DEF m, r
<1>3. /\ m.objects = s.objects /\ m.access = s.access /\ m.before = s.before
      /\ m.lists = s.lists /\ m.ItemsByID = s.ItemsByID /\ m.itemRefCount = s.itemRefCount
  BY <1>2 DEF Sound, IsStore
<1>4. Sound(m) /\ Live(m) = Live(s)
  BY <1>2, <1>3 DEF Sound, IsStore, Live, CountsExactly, Holding, Holders, RefCount
<1>6. Narrowed(s, m) /\ Narrowed(s, s)
  BY <1>3, <1>4, NarrowedSame
<1>5. CASE pruneDue(s, t, force) /\ r = drop(m, D)
  <2>1. /\ Sound(r) /\ Live(r) = Live(s) \ D /\ r.lastPrune = t
        /\ \A key \in Live(r) : r.access[key] = s.access[key]
    BY <1>2, <1>3, <1>4, <1>5, DropStore
  <2>6. Narrowed(s, r)
    BY <1>4, <1>5, <1>6, DropStore, NarrowedTwice
  <2>2. \A key \in Live(s) \ D : s.access[key] >= t - TTL
    BY LimitsAssumption DEF expired, Sound, IsStore
  <2>3. Aged(s, t) => Aged(r, t)
    BY <2>1, <2>2 DEF Aged
  <2>4. Without(s, r, D)
    BY <1>3, <1>4, <1>5, DropStore DEF Without
  <2>5. Tables(s) => Tables(r)
    BY <2>4, TablesOfPart DEF Sound
  <2>. QED BY <1>5, <2>1, <2>3, <2>5, <2>6 DEF r
<1>. QED BY <1>1, <1>5, <1>6 DEF r

\* A prune takes the expired entries away, or none.
LEMMA PruneTakes ==
  ASSUME NEW s, Sound(s), NEW t \in Nat, NEW force \in BOOLEAN
  PROVE  \E D : /\ Without(s, pruneExpired(s, t, force), D)
                /\ \A k \in Live(s) \cap D : TTL # 0 /\ s.access[k] < t - TTL
<1>. DEFINE m == [s EXCEPT !.lastPrune = t]
            r == pruneExpired(s, t, force)
<1>1. CASE ~pruneDue(s, t, force)
  <2>1. Without(s, r, {})
    BY <1>1 DEF pruneExpired, Without
  <2>. QED BY <2>1
<1>2. CASE pruneDue(s, t, force)
  <2>1. r = drop(m, expired(s, t))
    BY <1>2 DEF pruneExpired
  <2>2. /\ m.objects = s.objects /\ m.before = s.before /\ Sound(m)
    <3>1. /\ DOMAIN m = DOMAIN s /\ m = [f \in DOMAIN m |-> m[f]]
          /\ m.lastPrune = t /\ \A f \in DOMAIN s \ {"lastPrune"} : m[f] = s[f]
      BY DEF Sound, IsStore
    <3>. HIDE DEF m
    <3>2. /\ m.objects = s.objects /\ m.access = s.access /\ m.before = s.before
          /\ m.lists = s.lists /\ m.ItemsByID = s.ItemsByID /\ m.itemRefCount = s.itemRefCount
      BY <3>1 DEF Sound, IsStore
    <3>. QED
      BY <3>1, <3>2 DEF Sound, IsStore, Live, CountsExactly, Holding, Holders, RefCount
  <2>3. Without(s, r, expired(s, t))
    <3>. HIDE DEF m, r
    <3>1. Without(m, drop(m, expired(s, t)), expired(s, t))
      BY <2>2, DropStore DEF Without
    <3>. QED BY <2>1, <2>2, <3>1 DEF Without, Live
  <2>4. \A k \in Live(s) \cap expired(s, t) : TTL # 0 /\ s.access[k] < t - TTL
    BY <1>2 DEF expired, pruneDue
  <2>. QED BY <2>3, <2>4
<1>. QED BY <1>1, <1>2

\* r is s with value at key, used at t, with the slices of lists.
PutInto(s, r, key, value, lists, t) ==
  /\ IsStore(r)
  /\ Live(r) = Live(s) \cup {key}
  /\ r.objects[key] = value
  /\ \A k \in Live(s) \ {key} : r.objects[k] = s.objects[k]
  /\ DOMAIN r.lists = DOMAIN s.lists \cup Slices({key})
  /\ \A l \in DOMAIN s.lists : l[1] # key => r.lists[l] = s.lists[l]
  /\ \A name \in ListNames(Kind(key)) : r.lists[<<key, name>>] = lists[name]
  /\ TimesFrom(s, r, {t})
  /\ r.before = s.before
  /\ r.ItemsByID = s.ItemsByID /\ r.itemRefCount = s.itemRefCount

\* put stores an object with all the slices of its kind.
LEMMA PutStore ==
  ASSUME NEW s, IsStore(s), NEW key \in Key, NEW value \in Values, NEW t \in Nat,
         NEW lists \in [ListNames(Kind(key)) -> Seq(ItemIds)]
  PROVE  PutInto(s, put(s, key, value, lists, t), key, value, lists, t)
<1>. DEFINE r == put(s, key, value, lists, t)
<1>1. /\ DOMAIN r = DOMAIN s
      /\ r = [f \in DOMAIN r |-> r[f]]
      /\ r.objects = [k \in DOMAIN s.objects \cup {key} |->
                        IF k = key THEN value ELSE s.objects[k]]
      /\ r.access = [k \in DOMAIN s.access \cup {key} |-> IF k = key THEN t ELSE s.access[k]]
      /\ r.lists = [l \in DOMAIN s.lists \cup Slices({key}) |->
                      IF l[1] = key THEN lists[l[2]] ELSE s.lists[l]]
      /\ \A f \in DOMAIN s \ {"objects", "access", "lists"} : r[f] = s[f]
  BY DEF put, IsStore
<1>. HIDE DEF r
<1>2. Live(r) = Live(s) \cup {key} /\ IsFiniteSet(Live(r)) /\ Live(r) \subseteq Key
  BY <1>1, FS_AddElement DEF Live, IsStore
<1>3. \A l : l \in Slices({key}) <=> \E name \in ListNames(Kind(key)) : l = <<key, name>>
  BY SliceMembers
<1>4. \A name \in ListNames(Kind(key)) :
        <<key, name>> \in DOMAIN r.lists /\ r.lists[<<key, name>>] = lists[name]
  BY <1>1, <1>3
<1>5. r.lists \in [Slices(Live(r)) -> Seq(ItemIds)]
  <2>1. DOMAIN r.lists = Slices(Live(r))
    <3>1. DOMAIN r.lists = DOMAIN s.lists \cup Slices({key})
      BY <1>1
    <3>2. DOMAIN s.lists = Slices(Live(s))
      BY DEF IsStore
    <3>. QED BY <1>2, <3>1, <3>2, SlicesOfUnion
  <2>2. ASSUME NEW l \in DOMAIN r.lists PROVE r.lists[l] \in Seq(ItemIds)
    <3>1. CASE l \in Slices({key})
      BY <3>1, <1>3, <1>4
    <3>2. CASE l \notin Slices({key})
      <4>1. l \in Slices(Live(s)) /\ l[1] # key
        <5>0. DOMAIN s.lists = Slices(Live(s))
          BY DEF IsStore
        <5>1. l \in Slices(Live(s))
          BY <1>1, <3>2, <5>0
        <5>2. PICK k \in Live(s) : \E name \in ListNames(Kind(k)) : l = <<k, name>>
          BY <5>1, SliceMembers
        <5>3. PICK name \in ListNames(Kind(k)) : l = <<k, name>>
          BY <5>2
        <5>4. k # key
          BY <5>3, <1>3, <3>2
        <5>. QED BY <5>1, <5>3, <5>4
      <4>. QED BY <1>1, <4>1 DEF IsStore
    <3>. QED BY <3>1, <3>2
  <2>. QED BY <2>1, <2>2, <1>1
<1>6. /\ r.objects \in [Live(r) -> Values]
      /\ r.access \in [Live(r) -> Nat]
  BY <1>1, <1>2 DEF IsStore, Live
<1>7. /\ r.before = s.before /\ r.ItemsByID = s.ItemsByID
      /\ r.itemRefCount = s.itemRefCount /\ r.lastPrune = s.lastPrune
  BY <1>1 DEF IsStore
<1>8. IsStore(r)
  <2>1. r.before \subseteq Live(r) \X Live(r)
    BY <1>2, <1>7 DEF IsStore
  <2>. QED BY <1>1, <1>2, <1>5, <1>6, <1>7, <2>1 DEF IsStore
<1>9. TimesFrom(s, r, {t})
  BY <1>1, <1>2 DEF TimesFrom, Live, IsStore
<1>10. \A l \in DOMAIN s.lists : l[1] # key => r.lists[l] = s.lists[l]
  BY <1>1
<1>11. r.objects[key] = value /\ \A k \in Live(s) \ {key} : r.objects[k] = s.objects[k]
  BY <1>1 DEF Live
<1>. QED
  BY <1>1, <1>2, <1>4, <1>7, <1>8, <1>9, <1>10, <1>11 DEF r, PutInto

\* An object that was put, and left there by what followed, was written.
LEMMA PutWrites ==
  ASSUME NEW s, IsStore(s), NEW m, NEW key, NEW value, NEW lists, NEW t,
         PutInto(s, m, key, value, lists, t), NEW r, Narrowed(m, r), key \in Live(r)
  PROVE  Written(s, r, key, value, lists)
<1>1. /\ r.objects[key] = value
      /\ \A name \in ListNames(Kind(key)) : r.lists[<<key, name>>] = lists[name]
  BY DEF PutInto, Narrowed, Kept
<1>2. ASSUME NEW k \in Live(r) \ {key} PROVE Kept(s, r, k)
  <2>1. k \in Live(s) /\ Kept(m, r, k) /\ m.objects[k] = s.objects[k]
    BY DEF PutInto, Narrowed, Kept
  <2>2. ASSUME NEW name \in ListNames(Kind(k)) PROVE m.lists[<<k, name>>] = s.lists[<<k, name>>]
    <3>1. <<k, name>> \in DOMAIN s.lists /\ <<k, name>>[1] # key
      BY <2>1, LiveSlices
    <3>. QED BY <3>1 DEF PutInto
  <2>. QED BY <2>1, <2>2 DEF Kept
<1>. QED BY <1>1, <1>2 DEF Written

\* What is written on top of a narrowed store is written.
LEMMA WrittenNarrowed ==
  ASSUME NEW s, NEW m, Narrowed(s, m), NEW r, NEW key, NEW value, NEW lists,
         Written(m, r, key, value, lists)
  PROVE  Written(s, r, key, value, lists)
BY DEF Written, Narrowed, Kept

-----------------------------------------------------------------------------
(* The methods.                                                            *)

LEMMA KeyKinds ==
  /\ \A key \in ResponseKey : /\ key \in Key /\ Kind(key) = "response"
                              /\ ListNames(Kind(key)) = {"input", "context"}
  /\ \A key \in ChatKey : /\ key \in Key /\ Kind(key) = "chat"
                          /\ ListNames(Kind(key)) = {"messages"}
  /\ \A key \in ConversationKey : /\ key \in Key /\ Kind(key) = "conversation"
                                  /\ ListNames(Kind(key)) = {"items"}
BY DEF ResponseKey, ChatKey, ConversationKey, Key, Kind, ListNames

\* The slices of a live key are those of its kind, and no other key's.
LEMMA OwnSlices ==
  ASSUME NEW s, IsStore(s), NEW key, NEW l \in DOMAIN s.lists, l[1] = key
  PROVE  \E name \in ListNames(Kind(key)) : l = <<key, name>>
<1>1. l \in Slices(Live(s))
  BY DEF IsStore
<1>2. PICK k \in Live(s) : \E name \in ListNames(Kind(k)) : l = <<k, name>>
  BY <1>1, SliceMembers
<1>. QED BY <1>2

\* The slices of other keys than key that hold items.
Others(s, key) == { l \in Holding(s) : l[1] # key }

\* Releasing the slices of key leaves the counts to the others.
LEMMA ReleaseOwn ==
  ASSUME NEW s, Sound(s), NEW key
  PROVE  LET r == releaseItemRefs(s, { l \in Holding(s) : l[1] = key })
         IN  /\ IsStore(r) /\ CountsExactly(r, Others(r, key))
             /\ Live(r) = Live(s) /\ r.objects = s.objects /\ r.lists = s.lists
             /\ r.access = s.access /\ r.before = s.before /\ r.lastPrune = s.lastPrune
<1>. DEFINE L == { l \in Holding(s) : l[1] = key }
            r == releaseItemRefs(s, L)
<1>1. /\ IsStore(r) /\ CountsExactly(r, Holding(s) \ L)
      /\ \A f \in DOMAIN s \ {"itemRefCount", "ItemsByID"} : r[f] = s[f]
  BY HoldingFinite, ReleaseItemRefsStore DEF Sound
<1>2. /\ Live(r) = Live(s) /\ r.objects = s.objects /\ r.lists = s.lists
      /\ r.access = s.access /\ r.before = s.before /\ r.lastPrune = s.lastPrune
  BY <1>1 DEF Sound, IsStore, Live
<1>3. Others(r, key) = Holding(s) \ L
  BY <1>2 DEF Others, Holding
<1>. QED BY <1>1, <1>2, <1>3

\* Registering items and counting some of them, on a store whose counts stand
\* for H: one reference more for each counted id.
LEMMA RegisterAndCount ==
  ASSUME NEW s, IsStore(s), NEW items \in Seq(ItemIds), NEW ids \in SUBSET itemIDs(items)
  PROVE  LET r == addItemRefs(registerItems(s, items), ids)
         IN  /\ IsStore(r)
             /\ r.ItemsByID = s.ItemsByID \cup itemIDs(items)
             /\ DOMAIN r.itemRefCount = DOMAIN s.itemRefCount \cup ids
             /\ \A i \in ItemIds : RefCount(r, i) = RefCount(s, i) + IF i \in ids THEN 1 ELSE 0
             /\ Live(r) = Live(s) /\ r.objects = s.objects /\ r.lists = s.lists
             /\ r.access = s.access /\ r.before = s.before /\ r.lastPrune = s.lastPrune
<1>. DEFINE m == registerItems(s, items)
            r == addItemRefs(m, ids)
<1>1. /\ IsStore(m) /\ m.ItemsByID = s.ItemsByID \cup itemIDs(items)
      /\ \A f \in DOMAIN s \ {"ItemsByID"} : m[f] = s[f]
  BY RegisterItemsStore
<1>2. /\ Live(m) = Live(s) /\ m.objects = s.objects /\ m.lists = s.lists
      /\ m.access = s.access /\ m.before = s.before /\ m.lastPrune = s.lastPrune
      /\ m.itemRefCount = s.itemRefCount
  BY <1>1 DEF IsStore, Live
<1>3. ids \in SUBSET ItemIds
  BY ItemIDsType
<1>. HIDE DEF m
<1>4. /\ IsStore(r) /\ DOMAIN r.itemRefCount = DOMAIN m.itemRefCount \cup ids
      /\ \A i \in ItemIds : RefCount(r, i) = RefCount(m, i) + IF i \in ids THEN 1 ELSE 0
      /\ \A f \in DOMAIN m \ {"itemRefCount"} : r[f] = m[f]
  BY <1>1, <1>3, AddItemRefsStore
<1>. HIDE DEF r
<1>5. /\ Live(r) = Live(m) /\ r.objects = m.objects /\ r.lists = m.lists
      /\ r.access = m.access /\ r.before = m.before /\ r.lastPrune = m.lastPrune /\ r.ItemsByID = m.ItemsByID
  BY <1>1, <1>4 DEF IsStore, Live
<1>6. \A i \in ItemIds : RefCount(m, i) = RefCount(s, i)
  BY <1>2 DEF RefCount
<1>. QED BY <1>1, <1>2, <1>4, <1>5, <1>6 DEF m, r

\* The "if store" block of SaveResponse keeps the counts exact.
LEMMA StoreResponseStore ==
  ASSUME NEW s, Sound(s), Tables(s), NEW key \in ResponseKey, NEW value \in Values, NEW t \in Nat,
         NEW input \in Seq(ItemIds), NEW full \in Seq(ItemIds),
         itemIDs(input) \subseteq itemIDs(full)
  PROVE  /\ Sound(storeResponse(s, key, value, input, full, t))
         /\ TimesFrom(s, storeResponse(s, key, value, input, full, t), {t})
         /\ Tables(storeResponse(s, key, value, input, full, t))
         /\ Written(s, storeResponse(s, key, value, input, full, t), key, value,
                    [input |-> input, context |-> full])
         /\ MadeRoom(s, storeResponse(s, key, value, input, full, t), key)
<1>. DEFINE released == releaseItemRefs(s, { l \in Holding(s) : l[1] = key })
            indexed == registerItems(released, full)
            once == addItemRefs(indexed, itemIDs(input))
            counted == addItemRefs(once, itemIDs(full))
            lists == [input |-> input, context |-> full]
            stored == put(counted, key, value, lists, t)
            inputSlice == <<key, "input">>
            fullSlice == <<key, "context">>
<1>0. /\ key \in Key /\ Kind(key) = "response"
      /\ ListNames(Kind(key)) = {"input", "context"}
  BY KeyKinds
<1>1. /\ IsStore(released) /\ CountsExactly(released, Others(released, key))
      /\ Live(released) = Live(s) /\ released.objects = s.objects
      /\ released.lists = s.lists /\ released.access = s.access
      /\ released.before = s.before /\ released.lastPrune = s.lastPrune
  BY ReleaseOwn
<1>. HIDE DEF released
<1>2. /\ IsStore(once) /\ once.ItemsByID = released.ItemsByID \cup itemIDs(full)
      /\ DOMAIN once.itemRefCount = DOMAIN released.itemRefCount \cup itemIDs(input)
      /\ \A i \in ItemIds : RefCount(once, i)
                              = RefCount(released, i) + IF i \in itemIDs(input) THEN 1 ELSE 0
      /\ Live(once) = Live(released) /\ once.lists = released.lists
      /\ once.objects = released.objects
      /\ once.access = released.access /\ once.before = released.before
      /\ once.lastPrune = released.lastPrune
  BY <1>1, RegisterAndCount
<1>. HIDE DEF indexed, once
<1>3. /\ IsStore(counted) /\ counted.ItemsByID = DOMAIN counted.itemRefCount
      /\ \A i \in ItemIds : RefCount(counted, i)
                              = RefCount(once, i) + IF i \in itemIDs(full) THEN 1 ELSE 0
      /\ Live(counted) = Live(s) /\ counted.lists = s.lists
      /\ counted.objects = s.objects
      /\ counted.access = s.access /\ counted.before = s.before
      /\ counted.lastPrune = s.lastPrune
  <2>1. itemIDs(full) \in SUBSET ItemIds
    BY ItemIDsType
  <2>2. /\ IsStore(counted)
        /\ DOMAIN counted.itemRefCount = DOMAIN once.itemRefCount \cup itemIDs(full)
        /\ \A i \in ItemIds : RefCount(counted, i)
                                = RefCount(once, i) + IF i \in itemIDs(full) THEN 1 ELSE 0
        /\ \A f \in DOMAIN once \ {"itemRefCount"} : counted[f] = once[f]
    BY <1>2, <2>1, AddItemRefsStore
  <2>. HIDE DEF counted
  <2>3. /\ counted.ItemsByID = once.ItemsByID /\ counted.lists = once.lists
        /\ counted.objects = once.objects
        /\ counted.access = once.access /\ counted.before = once.before
        /\ counted.lastPrune = once.lastPrune
        /\ Live(counted) = Live(once)
    BY <1>2, <2>2 DEF IsStore, Live
  <2>4. once.ItemsByID = DOMAIN once.itemRefCount \cup itemIDs(full)
    BY <1>1, <1>2 DEF CountsExactly
  <2>. QED BY <1>1, <1>2, <2>2, <2>3, <2>4
<1>. HIDE DEF counted
<1>4. /\ PutInto(counted, stored, key, value, lists, t)
      /\ lists["input"] = input /\ lists["context"] = full
  <2>1. lists \in [ListNames(Kind(key)) -> Seq(ItemIds)]
    BY <1>0
  <2>2. lists["input"] = input /\ lists["context"] = full
    OBVIOUS
  <2>. HIDE DEF lists
  <2>. QED BY <1>0, <1>3, <2>1, <2>2, PutStore
<1>. HIDE DEF stored, lists
<1>10. stored.lists[inputSlice] = input /\ stored.lists[fullSlice] = full
  BY <1>0, <1>4 DEF PutInto
<1>5. TimesFrom(s, stored, {t})
  BY <1>3, <1>4 DEF PutInto, TimesFrom
<1>6. Holding(stored) = (Others(s, key) \cup {inputSlice}) \cup {fullSlice}
  <2>1. \A l : l \in Slices({key}) <=> l = inputSlice \/ l = fullSlice
    BY <1>0, SliceMembers
  <2>2. \A l \in DOMAIN s.lists : l[1] = key => l \in Slices({key})
    BY OwnSlices, SliceMembers DEF Sound
  <2>5. inputSlice[1] = key /\ fullSlice[1] = key
    OBVIOUS
  <2>3. inputSlice[2] # "messages" /\ fullSlice[2] # "messages"
    OBVIOUS
  <2>. HIDE DEF inputSlice, fullSlice
  <2>4. \A l : l \in DOMAIN stored.lists <=>
               (l \in DOMAIN s.lists /\ l[1] # key) \/ l = inputSlice \/ l = fullSlice
    <3>1. DOMAIN stored.lists = DOMAIN s.lists \cup Slices({key})
      BY <1>3, <1>4 DEF PutInto
    <3>. QED BY <2>1, <2>2, <2>5, <3>1
  <2>. QED BY <2>3, <2>4 DEF Holding, Others
<1>7. ASSUME NEW i \in ItemIds
      PROVE  RefCount(stored, i) = Cardinality(Holders(stored, Holding(stored), i))
  <2>1. IsFiniteSet(Others(s, key))
    BY HoldingFinite, FS_Subset DEF Others, Sound
  <2>2. /\ inputSlice \notin Others(s, key)
        /\ fullSlice \notin Others(s, key) \cup {inputSlice}
    BY DEF Others
  <2>3. IsFiniteSet(Others(s, key) \cup {inputSlice})
    BY <2>1, FS_AddElement
  <2>4. Cardinality(Holders(stored, Holding(stored), i))
          = Cardinality(Holders(stored, Others(s, key) \cup {inputSlice}, i))
              + IF i \in itemIDs(full) THEN 1 ELSE 0
    <3>. HIDE DEF inputSlice, fullSlice
    <3>. DEFINE L == Others(s, key) \cup {inputSlice}
    <3>. HIDE DEF L
    <3>0. IsFiniteSet(L) /\ fullSlice \notin L
      BY <2>2, <2>3 DEF L
    <3>1. Cardinality(Holders(stored, L \cup {fullSlice}, i))
            = Cardinality(Holders(stored, L, i))
                + IF i \in itemIDs(stored.lists[fullSlice]) THEN 1 ELSE 0
      BY <3>0, HoldersOneMore
    <3>. QED BY <1>6, <1>10, <3>1 DEF L
  <2>5. Cardinality(Holders(stored, Others(s, key) \cup {inputSlice}, i))
          = Cardinality(Holders(stored, Others(s, key), i))
              + IF i \in itemIDs(input) THEN 1 ELSE 0
    <3>. HIDE DEF inputSlice, fullSlice
    <3>. DEFINE L == Others(s, key)
    <3>0. IsFiniteSet(L) /\ inputSlice \notin L
      BY <2>1, <2>2
    <3>. HIDE DEF L
    <3>1. Cardinality(Holders(stored, L \cup {inputSlice}, i))
            = Cardinality(Holders(stored, L, i))
                + IF i \in itemIDs(stored.lists[inputSlice]) THEN 1 ELSE 0
      BY <3>0, HoldersOneMore
    <3>. QED BY <1>10, <3>1 DEF L
  <2>6. Holders(stored, Others(s, key), i) = Holders(released, Others(released, key), i)
    <3>1. Others(released, key) = Others(s, key)
      BY <1>1 DEF Others, Holding
    <3>2. \A l \in Others(s, key) : stored.lists[l] = released.lists[l]
      BY <1>1, <1>3, <1>4 DEF Others, Holding, PutInto
    <3>. QED BY <3>1, <3>2, HoldersSame
  <2>7. RefCount(released, i) = Cardinality(Holders(released, Others(released, key), i))
    BY <1>1 DEF CountsExactly
  <2>8. RefCount(stored, i) = RefCount(counted, i)
    BY <1>4 DEF RefCount, PutInto
  <2>9. RefCount(released, i) \in Nat
    BY <1>1 DEF RefCount, IsStore
  <2>. QED BY <1>2, <1>3, <2>4, <2>5, <2>6, <2>7, <2>8, <2>9
<1>8. Sound(stored)
  <2>1. IsStore(stored) /\ stored.ItemsByID = DOMAIN stored.itemRefCount
    BY <1>3, <1>4 DEF PutInto
  <2>. QED BY <1>7, <2>1 DEF Sound, CountsExactly
<1>9. Live(stored) = Live(s) \cup {key} /\ stored.before = s.before
  BY <1>3, <1>4 DEF PutInto
<1>11. LET e == evict(rememberID(stored, key), "response")
       IN  /\ Sound(e) /\ TimesFrom(s, e, {t}) /\ Tables(e)
           /\ Narrowed(stored, e) /\ key \in Live(e)
  BY <1>0, <1>5, <1>8, <1>9, RememberAndEvict DEF Sound
<1>12. Narrowed(s, counted)
  BY <1>3, NarrowedSame
<1>13. Written(s, evict(rememberID(stored, key), "response"), key, value, lists)
  BY <1>3, <1>4, <1>11, <1>12, PutWrites, WrittenNarrowed
<1>14. MadeRoom(s, evict(rememberID(stored, key), "response"), key)
  BY <1>0, <1>8, <1>9, SaveMakesRoom DEF Sound
<1>. QED
  BY <1>11, <1>13, <1>14 DEF stored, counted, once, indexed, released, lists, storeResponse

\* A call that only uses an object.
LEMMA ReadStore ==
  ASSUME NEW s, Sound(s), NEW key, NEW t \in Nat
  PROVE  /\ Sound(read(s, key, t)) /\ TimesFrom(s, read(s, key, t), {t})
         /\ Live(read(s, key, t)) = Live(s) /\ read(s, key, t).before = s.before
         /\ read(s, key, t).objects = s.objects /\ read(s, key, t).lists = s.lists
<1>1. CASE key \notin Live(s)
  BY <1>1 DEF read, TimesFrom
<1>2. CASE key \in Live(s)
  <2>. DEFINE r == [s EXCEPT !.access[key] = t]
  <2>1. /\ DOMAIN r = DOMAIN s /\ r = [f \in DOMAIN r |-> r[f]]
        /\ r.access = [s.access EXCEPT ![key] = t]
        /\ \A f \in DOMAIN s \ {"access"} : r[f] = s[f]
    BY DEF Sound, IsStore
  <2>. HIDE DEF r
  <2>2. /\ r.objects = s.objects /\ r.lists = s.lists /\ r.before = s.before
        /\ r.ItemsByID = s.ItemsByID /\ r.itemRefCount = s.itemRefCount
        /\ r.lastPrune = s.lastPrune
    BY <2>1 DEF Sound, IsStore
  <2>3. r.access \in [Live(r) -> Nat] /\ Live(r) = Live(s)
    BY <2>1, <2>2 DEF Sound, IsStore, Live
  <2>4. IsStore(r)
    BY <2>1, <2>2, <2>3 DEF Sound, IsStore
  <2>5. CountsExactly(r, Holding(r))
    BY <2>2 DEF Sound, CountsExactly, Holding, Holders, RefCount
  <2>6. TimesFrom(s, r, {t})
    BY <2>1, <2>2, <2>3 DEF TimesFrom, Sound, IsStore
  <2>. QED BY <1>2, <2>2, <2>3, <2>4, <2>5, <2>6 DEF Sound, r, read
<1>. QED BY <1>1, <1>2

\* The object at key, if it is there, says value.
Updated(s, r, key, value) ==
  /\ r.lists = s.lists
  /\ \A k \in Live(s) : r.objects[k] = IF k = key THEN value ELSE s.objects[k]

\* A call that replaces what an object says: a read, and another value.
LEMMA UpdateStore ==
  ASSUME NEW s, Sound(s), NEW key, NEW value \in Values, NEW t \in Nat
  PROVE  /\ Sound(update(s, key, value, t)) /\ TimesFrom(s, update(s, key, value, t), {t})
         /\ Live(update(s, key, value, t)) = Live(s) /\ update(s, key, value, t).before = s.before
         /\ Updated(s, update(s, key, value, t), key, value)
<1>1. CASE key \notin Live(s)
  BY <1>1 DEF update, TimesFrom, Updated
<1>2. CASE key \in Live(s)
  <2>. DEFINE m == read(s, key, t)
              r == [m EXCEPT !.objects[key] = value]
  <2>1. /\ Sound(m) /\ TimesFrom(s, m, {t}) /\ Live(m) = Live(s) /\ m.before = s.before
        /\ m.objects = s.objects /\ m.lists = s.lists
    BY ReadStore
  <2>2. update(s, key, value, t) = r
    BY <1>2 DEF update, read, Sound, IsStore
  <2>. HIDE DEF m
  <2>3. /\ DOMAIN r = DOMAIN m /\ r = [f \in DOMAIN r |-> r[f]]
        /\ r.objects = [m.objects EXCEPT ![key] = value]
        /\ \A f \in DOMAIN m \ {"objects"} : r[f] = m[f]
    BY <2>1 DEF Sound, IsStore
  <2>. HIDE DEF r
  <2>4. /\ r.access = m.access /\ r.lists = m.lists /\ r.before = m.before
        /\ r.ItemsByID = m.ItemsByID /\ r.itemRefCount = m.itemRefCount
        /\ r.lastPrune = m.lastPrune
    BY <2>1, <2>3 DEF Sound, IsStore
  <2>5. r.objects \in [Live(r) -> Values] /\ Live(r) = Live(m)
    BY <2>1, <2>3 DEF Sound, IsStore, Live
  <2>6. IsStore(r)
    BY <2>1, <2>3, <2>4, <2>5 DEF Sound, IsStore
  <2>7. CountsExactly(r, Holding(r))
    BY <2>1, <2>4 DEF Sound, CountsExactly, Holding, Holders, RefCount
  <2>8. TimesFrom(s, r, {t})
    BY <2>1, <2>4, <2>5 DEF TimesFrom
  <2>9. \A k \in Live(s) : r.objects[k] = IF k = key THEN value ELSE s.objects[k]
    BY <2>1, <2>3 DEF Live
  <2>. QED BY <2>1, <2>2, <2>4, <2>5, <2>6, <2>7, <2>8, <2>9 DEF Sound, Updated
<1>. QED BY <1>1, <1>2

\* The conversation at key, if it is there, has grown by the items added.
Appended(s, r, key, added) ==
  \A k \in Live(r) :
    IF k = key THEN /\ k \in Live(s) /\ r.objects[k] = s.objects[k]
                    /\ r.lists[<<k, "items">>] = s.lists[<<k, "items">>] \o added
               ELSE Kept(s, r, k)

\* The "if conversationID" block of SaveResponse counts exactly the items that
\* the conversation did not hold.
LEMMA AppendTurnStore ==
  ASSUME NEW s, Sound(s), NEW key \in ConversationKey, NEW t \in Nat,
         NEW added \in Seq(ItemIds)
  PROVE  /\ Sound(appendTurn(s, key, added, t))
         /\ TimesFrom(s, appendTurn(s, key, added, t), {t})
         /\ Live(appendTurn(s, key, added, t)) = Live(s)
         /\ appendTurn(s, key, added, t).before = s.before
         /\ Appended(s, appendTurn(s, key, added, t), key, added)
<1>1. CASE key \notin Live(s)
  BY <1>1 DEF appendTurn, TimesFrom, Appended, Kept
<1>2. CASE key \in Live(s)
  <2>. DEFINE slice == <<key, "items">>
              held == s.lists[slice]
              grown == held \o added
              appended == [s EXCEPT !.lists[slice] = grown]
              fresh == itemIDs(added) \ itemIDs(held)
              counted == addItemRefs(registerItems(appended, added), fresh)
              L == Holding(s) \ {slice}
  <2>1. slice \in Slices(Live(s)) /\ slice \in DOMAIN s.lists
    BY <1>2, KeyKinds, SliceMembers DEF Sound, IsStore
  <2>2. held \in Seq(ItemIds) /\ grown \in Seq(ItemIds)
    BY <2>1 DEF Sound, IsStore
  <2>3. itemIDs(grown) = itemIDs(held) \cup itemIDs(added)
    BY <2>2, ItemIDsOfConcat
  <2>4. slice \in Holding(s) /\ Holding(s) = L \cup {slice} /\ slice \notin L
    BY <2>1 DEF Holding
  <2>5. IsFiniteSet(L)
    BY HoldingFinite, FS_Subset DEF Sound
  <2>6. /\ DOMAIN appended = DOMAIN s /\ appended = [f \in DOMAIN appended |-> appended[f]]
        /\ appended.lists = [s.lists EXCEPT ![slice] = grown]
        /\ \A f \in DOMAIN s \ {"lists"} : appended[f] = s[f]
    BY DEF Sound, IsStore
  <2>. HIDE DEF slice, grown, held, L, appended
  <2>7. /\ appended.objects = s.objects /\ appended.access = s.access
        /\ appended.before = s.before /\ appended.ItemsByID = s.ItemsByID
        /\ appended.itemRefCount = s.itemRefCount /\ appended.lastPrune = s.lastPrune
    BY <2>6 DEF Sound, IsStore
  <2>8. /\ appended.lists \in [Slices(Live(s)) -> Seq(ItemIds)]
        /\ appended.lists[slice] = grown
        /\ \A l \in L : appended.lists[l] = s.lists[l]
        /\ DOMAIN appended.lists = DOMAIN s.lists
    BY <2>1, <2>2, <2>4, <2>6 DEF Sound, IsStore
  <2>9. IsStore(appended) /\ Live(appended) = Live(s)
    BY <2>6, <2>7, <2>8 DEF Sound, IsStore, Live
  <2>10. /\ IsStore(counted)
         /\ counted.ItemsByID = s.ItemsByID \cup itemIDs(added)
         /\ DOMAIN counted.itemRefCount = DOMAIN s.itemRefCount \cup fresh
         /\ \A i \in ItemIds :
              RefCount(counted, i) = RefCount(appended, i) + IF i \in fresh THEN 1 ELSE 0
         /\ Live(counted) = Live(s) /\ counted.lists = appended.lists
         /\ counted.access = s.access /\ counted.before = s.before
         /\ counted.lastPrune = s.lastPrune /\ counted.objects = s.objects
    <3>1. fresh \in SUBSET itemIDs(added)
      OBVIOUS
    <3>. HIDE DEF fresh
    <3>. QED BY <2>7, <2>9, <3>1, RegisterAndCount
  <2>. HIDE DEF counted
  <2>11. Holding(counted) = L \cup {slice}
    BY <2>4, <2>8, <2>10 DEF Holding
  <2>12. ASSUME NEW i \in ItemIds
         PROVE  /\ RefCount(counted, i) = Cardinality(Holders(counted, Holding(counted), i))
                /\ i \in itemIDs(held) => i \in DOMAIN s.itemRefCount
    <3>0. IsFiniteSet(L) /\ slice \notin L
      BY <2>4, <2>5
    <3>1. Cardinality(Holders(s, L \cup {slice}, i))
            = Cardinality(Holders(s, L, i)) + IF i \in itemIDs(s.lists[slice]) THEN 1 ELSE 0
      BY <3>0, HoldersOneMore
    <3>2. Cardinality(Holders(counted, L \cup {slice}, i))
            = Cardinality(Holders(counted, L, i))
                + IF i \in itemIDs(counted.lists[slice]) THEN 1 ELSE 0
      BY <3>0, HoldersOneMore
    <3>3. Holders(counted, L, i) = Holders(s, L, i)
      BY <2>8, <2>10, HoldersSame
    <3>4. Cardinality(Holders(s, L, i)) \in Nat
      BY <2>5, HoldersFinite
    <3>5. RefCount(s, i) = Cardinality(Holders(s, L \cup {slice}, i))
      BY <2>4 DEF Sound, CountsExactly
    <3>6. RefCount(appended, i) = RefCount(s, i)
      BY <2>7 DEF RefCount
    <3>7. /\ i \in itemIDs(s.lists[slice]) <=> i \in itemIDs(held)
          /\ i \in itemIDs(counted.lists[slice]) <=> i \in itemIDs(held) \/ i \in fresh
          /\ ~(i \in itemIDs(held) /\ i \in fresh)
      BY <2>3, <2>8, <2>10 DEF held
    <3>8. RefCount(counted, i) = RefCount(appended, i) + IF i \in fresh THEN 1 ELSE 0
      BY <2>10
    <3>9. i \in itemIDs(held) => i \in DOMAIN s.itemRefCount
      BY <3>1, <3>4, <3>5, <3>7 DEF RefCount
    <3>. HIDE DEF fresh
    <3>. QED BY <2>11, <3>1, <3>2, <3>3, <3>4, <3>5, <3>6, <3>7, <3>8, <3>9
  <2>13. counted.ItemsByID = DOMAIN counted.itemRefCount
    <3>1. itemIDs(held) \subseteq ItemIds
      BY <2>2, ItemIDsType
    <3>. QED BY <2>10, <2>12, <3>1 DEF Sound, CountsExactly
  <2>14. Sound(counted)
    BY <2>10, <2>12, <2>13 DEF Sound, CountsExactly
  <2>15. TimesFrom(s, counted, {})
    BY <2>10 DEF TimesFrom
  <2>16. /\ Sound(read(counted, key, t)) /\ TimesFrom(counted, read(counted, key, t), {t})
         /\ Live(read(counted, key, t)) = Live(s) /\ read(counted, key, t).before = s.before
         /\ read(counted, key, t).objects = s.objects
         /\ read(counted, key, t).lists = appended.lists
    BY <2>10, <2>14, ReadStore
  <2>17. appendTurn(s, key, added, t) = read(counted, key, t)
    BY <1>2, <2>10 DEF appendTurn, read, counted, fresh, appended, grown, held, slice
  <2>18. TimesFrom(s, read(counted, key, t), {t})
    BY <2>15, <2>16 DEF TimesFrom
  <2>19. Appended(s, read(counted, key, t), key, added)
    <3>1. appended.lists[<<key, "items">>] = s.lists[<<key, "items">>] \o added
      BY <2>8 DEF slice, grown, held
    <3>2. ASSUME NEW k \in Live(s) \ {key}, NEW name \in ListNames(Kind(k))
          PROVE  appended.lists[<<k, name>>] = s.lists[<<k, name>>]
      <4>1. <<k, name>> \in DOMAIN s.lists /\ <<k, name>> # slice
        BY LiveSlices DEF Sound, slice
      <4>. QED BY <2>6, <4>1
    <3>. QED BY <2>16, <3>1, <3>2 DEF Appended, Kept
  <2>. QED BY <2>16, <2>17, <2>18, <2>19
<1>. QED BY <1>1, <1>2
-----------------------------------------------------------------------------
(* Every method keeps the invariant.                                       *)

\* The store part of the inductive invariant, and what a method that uses
\* entries at time t makes of it.
Good(s, t) == Sound(s) /\ Aged(s, t) /\ Tables(s)

LEMMA GoodKept ==
  ASSUME NEW s, NEW t \in Nat, Good(s, t), NEW r, Sound(r), Tables(r), TimesFrom(s, r, {t})
  PROVE  Good(r, t)
BY AgedKept DEF Good, Sound

LEMMA PruneGood ==
  ASSUME NEW s, NEW t \in Nat, Good(s, t), NEW force \in BOOLEAN
  PROVE  Good(pruneExpired(s, t, force), t)
BY PruneStore DEF Good

LEMMA ReadUpdateGood ==
  ASSUME NEW s, NEW t \in Nat, Good(s, t), NEW key
  PROVE  /\ Good(read(s, key, t), t)
         /\ \A value \in Values : Good(update(s, key, value, t), t)
<1>1. Good(read(s, key, t), t)
  BY ReadStore, TablesSame, GoodKept DEF Good
<1>2. ASSUME NEW value \in Values PROVE Good(update(s, key, value, t), t)
  <2>. DEFINE r == update(s, key, value, t)
  <2>1. Sound(r) /\ TimesFrom(s, r, {t}) /\ Live(r) = Live(s) /\ r.before = s.before
    BY UpdateStore DEF Good
  <2>. HIDE DEF r
  <2>2. Tables(r)
    BY <2>1, TablesSame DEF Good
  <2>. QED BY <2>1, <2>2, GoodKept DEF r
<1>. QED BY <1>1, <1>2

LEMMA DeleteGood ==
  ASSUME NEW s, NEW t \in Nat, Good(s, t), NEW key
  PROVE  Good(delete(s, key), t)
<1>1. Sound(drop(s, {key})) /\ TimesFrom(s, drop(s, {key}), {t})
  BY DropStore DEF Good, TimesFrom
<1>2. Without(s, drop(s, {key}), {key})
  BY DropStore DEF Good, Without
<1>3. Tables(drop(s, {key}))
  BY <1>2, TablesOfPart DEF Good, Sound
<1>. QED BY <1>1, <1>3, GoodKept DEF delete

LEMMA DeleteFrame ==
  ASSUME NEW s, Sound(s), NEW key
  PROVE  Live(delete(s, key)) = Live(s) \ {key} /\ Narrowed(s, delete(s, key))
BY DropStore, NarrowedSame DEF delete

\* An entry that a call takes away was expired, or made room for key.
RoomFor(s, r, keep, key, t) ==
  IF keep THEN MadeRoom(pruneExpired(s, t, FALSE), r, key)
          ELSE Live(r) = Live(pruneExpired(s, t, FALSE))

\* What SaveResponse does to the tables: the response is there, as it was given,
\* if it is to be kept; the conversation has grown; the rest is as it was.
TurnSaved(s, r, key, value, context, output, keep, conversation, current) ==
  /\ keep => key \in Live(r)
  /\ \A k \in Live(r) :
       IF k = key /\ keep
         THEN /\ r.objects[k] = value /\ r.lists[<<k, "input">>] = context
              /\ r.lists[<<k, "context">>] = context \o output
       ELSE IF k \in conversation
         THEN /\ k \in Live(s) /\ r.objects[k] = s.objects[k]
              /\ r.lists[<<k, "items">>] = s.lists[<<k, "items">>] \o (current \o output)
       ELSE Kept(s, r, k)

LEMMA SaveResponseGood ==
  ASSUME NEW s, NEW t \in Nat, Good(s, t), NEW key \in ResponseKey, NEW value \in Values,
         NEW context \in Seq(ItemIds), NEW output \in Seq(ItemIds), NEW keep \in BOOLEAN,
         NEW conversation \in {{}} \cup { {c} : c \in ConversationKey },
         NEW current \in Seq(ItemIds)
  PROVE  LET r == SaveResponse(s, key, value, context, output, keep, conversation, current, t)
         IN  /\ Good(r, t)
             /\ TurnSaved(s, r, key, value, context, output, keep, conversation, current)
             /\ RoomFor(s, r, keep, key, t)
<1>. DEFINE pruned == pruneExpired(s, t, FALSE)
            full == context \o output
            stored == IF keep THEN storeResponse(pruned, key, value, context, full, t) ELSE pruned
            lists == [input |-> context, context |-> full]
            Result(r) ==
              /\ Good(r, t)
              /\ TurnSaved(s, r, key, value, context, output, keep, conversation, current)
              /\ RoomFor(s, r, keep, key, t)
<1>0. /\ Kind(key) = "response" /\ ListNames(Kind(key)) = {"input", "context"}
      /\ \A c \in ConversationKey : Kind(c) = "conversation" /\ ListNames(Kind(c)) = {"items"}
  BY KeyKinds
<1>1. Good(pruned, t) /\ Narrowed(s, pruned)
  BY PruneGood, PruneStore DEF Good
<1>2. full \in Seq(ItemIds) /\ itemIDs(context) \subseteq itemIDs(full)
  BY ItemIDsOfConcat
<1>. HIDE DEF pruned, full
<1>3. /\ Sound(storeResponse(pruned, key, value, context, full, t))
      /\ TimesFrom(pruned, storeResponse(pruned, key, value, context, full, t), {t})
      /\ Tables(storeResponse(pruned, key, value, context, full, t))
      /\ Written(pruned, storeResponse(pruned, key, value, context, full, t), key, value, lists)
      /\ MadeRoom(pruned, storeResponse(pruned, key, value, context, full, t), key)
  BY <1>1, <1>2, StoreResponseStore DEF Good
<1>4. Good(stored, t)
  BY <1>1, <1>3, GoodKept
<1>7. /\ keep => /\ key \in Live(stored) /\ stored.objects[key] = value
                 /\ stored.lists[<<key, "input">>] = context
                 /\ stored.lists[<<key, "context">>] = full
      /\ \A k \in Live(stored) : ~(keep /\ k = key) => Kept(s, stored, k)
  <2>1. CASE keep
    <3>1. Written(s, stored, key, value, lists)
      BY <1>1, <1>3, <2>1, WrittenNarrowed
    <3>2. lists["input"] = context /\ lists["context"] = full
      OBVIOUS
    <3>. HIDE DEF stored, lists
    <3>. QED BY <1>0, <2>1, <3>1, <3>2 DEF Written
  <2>2. CASE ~keep
    BY <1>1, <2>2 DEF Narrowed
  <2>. QED BY <2>1, <2>2
<1>8. RoomFor(s, stored, keep, key, t)
  <2>1. CASE keep
    BY <1>3, <2>1 DEF RoomFor, pruned
  <2>2. CASE ~keep
    BY <2>2 DEF RoomFor, pruned
  <2>. QED BY <2>1, <2>2
<1>9. \A r : Live(r) = Live(stored) => RoomFor(s, r, keep, key, t)
  <2>1. CASE keep
    BY <1>8, <2>1 DEF RoomFor, MadeRoom
  <2>2. CASE ~keep
    BY <1>8, <2>2 DEF RoomFor
  <2>. QED BY <2>1, <2>2
<1>. HIDE DEF stored
<1>5. CASE conversation = {}
  <2>1. TurnSaved(s, stored, key, value, context, output, keep, conversation, current)
    BY <1>5, <1>7 DEF TurnSaved, full
  <2>. QED BY <1>4, <1>5, <1>8, <2>1 DEF SaveResponse, stored, pruned, full
<1>6. ASSUME NEW c \in ConversationKey, conversation = {c}
      PROVE  Result(SaveResponse(s, key, value, context, output, keep, conversation, current, t))
  <2>. DEFINE added == current \o output
              r == appendTurn(stored, c, added, t)
  <2>1. added \in Seq(ItemIds)
    BY ItemIDsOfConcat
  <2>2. /\ Good(r, t) /\ Live(r) = Live(stored) /\ Appended(stored, r, c, added)
    <3>. HIDE DEF added
    <3>. QED BY <1>4, <2>1, AppendTurnStore, TablesSame, GoodKept DEF Good
  <2>3. (CHOOSE d \in conversation : TRUE) = c /\ conversation # {}
    BY <1>6
  <2>4. SaveResponse(s, key, value, context, output, keep, conversation, current, t) = r
    BY <2>3 DEF SaveResponse, stored, pruned, full
  <2>5. c # key
    BY <1>0
  <2>6. TurnSaved(s, r, key, value, context, output, keep, conversation, current)
    <3>. HIDE DEF r
    <3>1. keep => key \in Live(r)
      BY <1>7, <2>2
    <3>2. ASSUME NEW k \in Live(r), k = key, keep
          PROVE  /\ r.objects[k] = value /\ r.lists[<<k, "input">>] = context
                 /\ r.lists[<<k, "context">>] = context \o output
      <4>1. Kept(stored, r, k)
        BY <2>2, <2>5, <3>2 DEF Appended
      <4>. QED BY <1>0, <1>7, <3>2, <4>1 DEF Kept, full
    <3>3. ASSUME NEW k \in Live(r), ~(k = key /\ keep), k = c
          PROVE  /\ k \in Live(s) /\ r.objects[k] = s.objects[k]
                 /\ r.lists[<<k, "items">>] = s.lists[<<k, "items">>] \o (current \o output)
      <4>1. /\ k \in Live(stored) /\ r.objects[k] = stored.objects[k]
            /\ r.lists[<<k, "items">>] = stored.lists[<<k, "items">>] \o (current \o output)
        BY <2>2, <3>3 DEF Appended
      <4>2. Kept(s, stored, k) /\ "items" \in ListNames(Kind(k))
        BY <1>0, <1>7, <3>3, <4>1
      <4>. QED BY <4>1, <4>2 DEF Kept
    <3>4. ASSUME NEW k \in Live(r), ~(k = key /\ keep), k # c PROVE Kept(s, r, k)
      <4>1. Kept(stored, r, k)
        BY <2>2, <3>4 DEF Appended
      <4>2. Kept(s, stored, k)
        BY <1>7, <3>4, <4>1 DEF Kept
      <4>. QED BY <4>1, <4>2 DEF Kept
    <3>. HIDE DEF added, full
    <3>. QED BY <1>6, <3>1, <3>2, <3>3, <3>4 DEF TurnSaved
  <2>. QED BY <1>9, <2>2, <2>4, <2>6
<1>. QED BY <1>5, <1>6

LEMMA SaveChatCompletionGood ==
  ASSUME NEW s, NEW t \in Nat, Good(s, t), NEW key \in ChatKey, NEW value \in Values,
         NEW messages \in Seq(ItemIds)
  PROVE  LET r == SaveChatCompletion(s, key, value, messages, t)
         IN  /\ Good(r, t) /\ Written(s, r, key, value, [messages |-> messages])
             /\ RoomFor(s, r, TRUE, key, t)
<1>. DEFINE pruned == pruneExpired(s, t, FALSE)
            lists == [messages |-> messages]
            stored == put(pruned, key, value, lists, t)
            slice == <<key, "messages">>
<1>0. key \in Key /\ Kind(key) = "chat" /\ ListNames(Kind(key)) = {"messages"}
  BY KeyKinds
<1>1. Good(pruned, t)
  BY PruneGood
<1>2. lists \in [ListNames(Kind(key)) -> Seq(ItemIds)]
  BY <1>0
<1>. HIDE DEF pruned, lists
<1>3. PutInto(pruned, stored, key, value, lists, t)
  BY <1>0, <1>1, <1>2, PutStore DEF Good, Sound
<1>. HIDE DEF stored
<1>4. Holding(stored) = Holding(pruned) /\ \A l \in Holding(pruned) : l[1] # key
  <2>1. \A l : l \in Slices({key}) <=> l = slice
    BY <1>0, SliceMembers
  <2>2. \A l \in DOMAIN pruned.lists : l[1] = key => l = slice
    BY <1>0, <1>1, OwnSlices DEF Good, Sound
  <2>3. slice[2] = "messages"
    OBVIOUS
  <2>4. DOMAIN stored.lists = DOMAIN pruned.lists \cup Slices({key})
    BY <1>3 DEF PutInto
  <2>. HIDE DEF slice
  <2>. QED BY <2>1, <2>2, <2>3, <2>4 DEF Holding
<1>5. \A l \in Holding(pruned) : stored.lists[l] = pruned.lists[l]
  BY <1>3, <1>4 DEF PutInto, Holding
<1>6. \A i : Holders(stored, Holding(stored), i) = Holders(pruned, Holding(pruned), i)
  BY <1>4, <1>5, HoldersSame
<1>7. Sound(stored)
  <2>1. stored.ItemsByID = pruned.ItemsByID /\ stored.itemRefCount = pruned.itemRefCount
    BY <1>3 DEF PutInto
  <2>2. \A i \in ItemIds : RefCount(stored, i) = RefCount(pruned, i)
    BY <2>1 DEF RefCount
  <2>3. IsStore(stored)
    BY <1>3 DEF PutInto
  <2>. QED BY <1>1, <1>6, <2>1, <2>2, <2>3 DEF Good, Sound, CountsExactly
<1>8. /\ Live(stored) = Live(pruned) \cup {key} /\ stored.before = pruned.before
      /\ TimesFrom(pruned, stored, {t})
  BY <1>3 DEF PutInto
<1>9. LET e == evict(rememberID(stored, key), "chat")
      IN  /\ Sound(e) /\ TimesFrom(pruned, e, {t}) /\ Tables(e)
          /\ Narrowed(stored, e) /\ key \in Live(e)
  BY <1>0, <1>1, <1>7, <1>8, RememberAndEvict DEF Good, Sound
<1>20. Narrowed(s, pruned)
  BY PruneStore DEF Good, pruned
<1>22. MadeRoom(pruned, evict(rememberID(stored, key), "chat"), key)
  BY <1>0, <1>1, <1>7, <1>8, SaveMakesRoom DEF Good, Sound
<1>21. Written(s, evict(rememberID(stored, key), "chat"), key, value, lists)
  BY <1>0, <1>1, <1>3, <1>9, <1>20, PutWrites, WrittenNarrowed DEF Good, Sound
<1>10. SaveChatCompletion(s, key, value, messages, t) = evict(rememberID(stored, key), "chat")
  BY DEF SaveChatCompletion, stored, lists, pruned
<1>. QED BY <1>1, <1>9, <1>10, <1>21, <1>22, GoodKept DEF lists, RoomFor, pruned

LEMMA SaveConversationGood ==
  ASSUME NEW s, NEW t \in Nat, Good(s, t), NEW key \in ConversationKey, NEW value \in Values,
         NEW items \in Seq(ItemIds)
  PROVE  LET r == SaveConversation(s, key, value, items, t)
         IN  /\ Good(r, t) /\ Written(s, r, key, value, [items |-> items])
             /\ RoomFor(s, r, TRUE, key, t)
<1>. DEFINE pruned == pruneExpired(s, t, FALSE)
            released == releaseItemRefs(pruned, { l \in Holding(pruned) : l[1] = key })
            counted == addItemRefs(registerItems(released, items), itemIDs(items))
            lists == [items |-> items]
            stored == put(counted, key, value, lists, t)
            slice == <<key, "items">>
            L == Others(pruned, key)
<1>0. key \in Key /\ Kind(key) = "conversation" /\ ListNames(Kind(key)) = {"items"}
  BY KeyKinds
<1>1. Good(pruned, t)
  BY PruneGood
<1>. HIDE DEF pruned
<1>2. /\ IsStore(released) /\ CountsExactly(released, Others(released, key))
      /\ Live(released) = Live(pruned) /\ released.lists = pruned.lists
      /\ released.objects = pruned.objects
      /\ released.access = pruned.access /\ released.before = pruned.before
      /\ released.lastPrune = pruned.lastPrune
  BY <1>1, ReleaseOwn DEF Good
<1>. HIDE DEF released
<1>3. /\ IsStore(counted) /\ counted.ItemsByID = released.ItemsByID \cup itemIDs(items)
      /\ DOMAIN counted.itemRefCount = DOMAIN released.itemRefCount \cup itemIDs(items)
      /\ \A i \in ItemIds : RefCount(counted, i)
                              = RefCount(released, i) + IF i \in itemIDs(items) THEN 1 ELSE 0
      /\ Live(counted) = Live(released) /\ counted.lists = released.lists
      /\ counted.objects = released.objects
      /\ counted.access = released.access /\ counted.before = released.before
      /\ counted.lastPrune = released.lastPrune
  BY <1>2, RegisterAndCount
<1>. HIDE DEF counted
<1>4. PutInto(counted, stored, key, value, lists, t) /\ lists["items"] = items
  <2>1. lists \in [ListNames(Kind(key)) -> Seq(ItemIds)]
    BY <1>0
  <2>2. lists["items"] = items
    OBVIOUS
  <2>. HIDE DEF lists
  <2>. QED BY <1>0, <1>3, <2>1, <2>2, PutStore
<1>. HIDE DEF stored, lists
<1>5. stored.lists[slice] = items
  BY <1>0, <1>4 DEF PutInto
<1>6. slice \notin L /\ IsFiniteSet(L) /\ Holding(stored) = L \cup {slice}
  <2>1. \A l : l \in Slices({key}) <=> l = slice
    BY <1>0, SliceMembers
  <2>2. \A l \in DOMAIN pruned.lists : l[1] = key => l = slice
    BY <1>0, <1>1, OwnSlices DEF Good, Sound
  <2>3. slice[1] = key /\ slice[2] # "messages"
    OBVIOUS
  <2>4. DOMAIN stored.lists = DOMAIN pruned.lists \cup Slices({key})
    BY <1>2, <1>3, <1>4 DEF PutInto
  <2>5. IsFiniteSet(L)
    BY <1>1, HoldingFinite, FS_Subset DEF Others, Good, Sound
  <2>. HIDE DEF slice
  <2>6. \A l : l \in DOMAIN stored.lists <=>
               (l \in DOMAIN pruned.lists /\ l[1] # key) \/ l = slice
    BY <2>1, <2>2, <2>3, <2>4
  <2>7. Holding(stored) = L \cup {slice}
    BY <2>3, <2>6 DEF Holding, Others
  <2>8. slice \notin L
    BY <2>3 DEF Others
  <2>. QED BY <2>5, <2>7, <2>8
<1>7. \A l \in L : stored.lists[l] = released.lists[l]
  BY <1>2, <1>3, <1>4 DEF PutInto, Others, Holding
<1>8. Others(released, key) = L
  BY <1>2 DEF Others, Holding
<1>. HIDE DEF slice, L
<1>9. ASSUME NEW i \in ItemIds
      PROVE  RefCount(stored, i) = Cardinality(Holders(stored, Holding(stored), i))
  <2>0. IsFiniteSet(L) /\ slice \notin L
    BY <1>6
  <2>1. Cardinality(Holders(stored, L \cup {slice}, i))
          = Cardinality(Holders(stored, L, i))
              + IF i \in itemIDs(stored.lists[slice]) THEN 1 ELSE 0
    BY <2>0, HoldersOneMore
  <2>2. Holders(stored, L, i) = Holders(released, L, i)
    BY <1>7, HoldersSame
  <2>3. RefCount(stored, i) = RefCount(counted, i)
    BY <1>4 DEF RefCount, PutInto
  <2>4. RefCount(released, i) = Cardinality(Holders(released, L, i))
    BY <1>2, <1>8 DEF CountsExactly
  <2>. QED BY <1>3, <1>5, <1>6, <2>1, <2>2, <2>3, <2>4
<1>10. Sound(stored)
  <2>1. IsStore(stored) /\ stored.ItemsByID = DOMAIN stored.itemRefCount
    BY <1>2, <1>3, <1>4 DEF PutInto, CountsExactly
  <2>. QED BY <1>9, <2>1 DEF Sound, CountsExactly
<1>11. /\ Live(stored) = Live(pruned) \cup {key} /\ stored.before = pruned.before
       /\ TimesFrom(pruned, stored, {t})
  BY <1>2, <1>3, <1>4 DEF PutInto, TimesFrom
<1>12. LET e == evict(rememberID(stored, key), "conversation")
       IN  /\ Sound(e) /\ TimesFrom(pruned, e, {t}) /\ Tables(e)
           /\ Narrowed(stored, e) /\ key \in Live(e)
  BY <1>0, <1>1, <1>10, <1>11, RememberAndEvict DEF Good, Sound
<1>20. Narrowed(s, pruned)
  BY PruneStore DEF Good, pruned
<1>22. MadeRoom(pruned, evict(rememberID(stored, key), "conversation"), key)
  BY <1>0, <1>1, <1>10, <1>11, SaveMakesRoom DEF Good, Sound
<1>21. Written(s, evict(rememberID(stored, key), "conversation"), key, value, lists)
  <2>1. Narrowed(pruned, counted)
    BY <1>2, <1>3, NarrowedSame
  <2>2. Narrowed(s, counted)
    BY <1>20, <2>1, NarrowedTwice
  <2>. QED BY <1>0, <1>3, <1>4, <1>12, <2>2, PutWrites, WrittenNarrowed
<1>13. SaveConversation(s, key, value, items, t)
         = evict(rememberID(stored, key), "conversation")
  BY DEF SaveConversation, stored, lists, counted, released, pruned
<1>. QED BY <1>1, <1>12, <1>13, <1>21, <1>22, GoodKept DEF lists, RoomFor, pruned

LEMMA EmptyStoreGood == Good(EmptyStore, 0)
<1>. DEFINE s == EmptyStore
<1>1. /\ DOMAIN s = {"objects", "access", "before", "lists", "ItemsByID",
                     "itemRefCount", "lastPrune"}
      /\ s = [f \in DOMAIN s |-> s[f]]
      /\ s.objects = <<>> /\ s.access = <<>> /\ s.before = {}
      /\ s.lists = <<>> /\ s.ItemsByID = {} /\ s.itemRefCount = <<>>
      /\ s.lastPrune = Never
  BY DEF EmptyStore
<1>. HIDE DEF s
<1>2. Live(s) = {} /\ IsFiniteSet({})
  BY <1>1, FS_EmptySet DEF Live
<1>3. Slices({}) = {} /\ Slices(Live(s)) = {}
  BY <1>2, SliceMembers
<1>4. IsStore(s)
  <2>1. /\ s.objects \in [{} -> Values] /\ s.access \in [{} -> Nat]
        /\ s.lists \in [{} -> Seq(ItemIds)]
        /\ s.itemRefCount \in [{} -> Nat \ {0}] /\ DOMAIN s.itemRefCount = {}
    BY <1>1
  <2>. QED BY <1>1, <1>2, <1>3, <2>1 DEF IsStore
<1>5. CountsExactly(s, Holding(s))
  <2>1. Holding(s) = {}
    BY <1>1 DEF Holding
  <2>2. ASSUME NEW i PROVE RefCount(s, i) = 0 /\ Holders(s, {}, i) = {}
    BY <1>1 DEF RefCount, Holders
  <2>3. Cardinality({}) = 0
    BY FS_EmptySet
  <2>4. s.ItemsByID = DOMAIN s.itemRefCount
    BY <1>1
  <2>. QED BY <2>1, <2>2, <2>3, <2>4 DEF CountsExactly
<1>6. Aged(s, 0)
  BY <1>1, <1>2 DEF Aged, Never
<1>7. Tables(s)
  <2>1. \A kind : OfKind({}, kind) = {}
    BY DEF OfKind
  <2>2. Cardinality({}) = 0
    BY FS_EmptySet
  <2>3. \A kind \in TableKinds : Within(s, kind)
    BY <1>2, <2>1, <2>2, LimitType DEF Within
  <2>4. QueueOf(s, Live(s))
    BY <1>1, <1>2 DEF QueueOf
  <2>. QED BY <2>3, <2>4 DEF Tables
<1>. QED BY <1>4, <1>5, <1>6, <1>7 DEF Good, Sound, s

\* The clock may advance between two calls.
LEMMA LaterGood ==
  ASSUME NEW s, NEW t \in Nat, Good(s, t), NEW later \in Nat, t <= later
  PROVE  Good(s, later)
BY DEF Good, Aged, Sound, IsStore, Never

\* What the index holds is what the stored slices hold.
LEMMA IndexOfSound ==
  ASSUME NEW s, Sound(s) PROVE s.ItemsByID = Held(s)
<1>1. IsFiniteSet(Holding(s))
  BY HoldingFinite DEF Sound
<1>2. ASSUME NEW i \in ItemIds PROVE i \in s.ItemsByID <=> i \in Held(s)
  <2>1. RefCount(s, i) = Cardinality(Holders(s, Holding(s), i))
    BY DEF Sound, CountsExactly
  <2>2. RefCount(s, i) > 0 <=> i \in DOMAIN s.itemRefCount
    BY DEF RefCount, Sound, IsStore
  <2>3. Cardinality(Holders(s, Holding(s), i)) > 0
          <=> \E l \in Holding(s) : i \in itemIDs(s.lists[l])
    BY <1>1, HoldersFinite
  <2>. QED BY <2>1, <2>2, <2>3 DEF Sound, CountsExactly, Held
<1>3. Held(s) \subseteq ItemIds
  <2>1. \A l \in Holding(s) : s.lists[l] \in Seq(ItemIds)
    BY DEF Sound, IsStore, Holding
  <2>. QED BY <2>1, ItemIDsType DEF Held
<1>4. s.ItemsByID \subseteq ItemIds
  BY DEF Sound, IsStore
<1>. QED BY <1>2, <1>3, <1>4
=============================================================================
