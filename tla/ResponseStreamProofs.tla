------------------------ MODULE ResponseStreamProofs ------------------------
(***************************************************************************)
(* Proofs about the streaming handler of the Responses endpoint, for any   *)
(* chunks, in any number and order, cut in any way, and a client that may  *)
(* go at any time.                                                         *)
(*                                                                         *)
(* IInv says what the handler's variables and the client's events are of   *)
(* the chunks so far.                                                      *)
(***************************************************************************)
EXTENDS ResponseStream, FiniteSetTheorems, TLAPS

-----------------------------------------------------------------------------
(* Numbers in order.                                                       *)

Below(S, i) == Cardinality({ j \in S : j < i })

\* Counting what is below numbers the members of S from 0.
LEMMA BelowNumbers ==
  ASSUME NEW S, IsFiniteSet(S), S \subseteq Nat
  PROVE  /\ \A i \in S : Below(S, i) \in 0..(Cardinality(S) - 1)
         /\ \A i, j \in S : Below(S, i) = Below(S, j) => i = j
         /\ \A n \in 0..(Cardinality(S) - 1) : \E i \in S : Below(S, i) = n
<1>. DEFINE N == Cardinality(S)
            below(i) == { j \in S : j < i }
<1>0. N \in Nat
  BY FS_CardinalityType
<1>1. ASSUME NEW i \in S
      PROVE  IsFiniteSet(below(i)) /\ Below(S, i) \in Nat /\ Below(S, i) < N
  <2>1. below(i) \in SUBSET S /\ i \notin below(i)
    OBVIOUS
  <2>2. Below(S, i) = Cardinality(below(i))
    BY DEF Below
  <2>. HIDE DEF below
  <2>3. /\ IsFiniteSet(below(i)) /\ Cardinality(below(i)) \in Nat
        /\ Cardinality(below(i)) <= N /\ Cardinality(below(i)) # N
    BY <2>1, FS_Subset, FS_CardinalityType
  <2>. QED BY <1>0, <2>2, <2>3
<1>2. ASSUME NEW i \in S, NEW j \in S, i < j PROVE Below(S, i) < Below(S, j)
  <2>0. \A k \in S : k \in Nat /\ (k < i => k < j)
    BY <1>2
  <2>1. below(i) \in SUBSET below(j) /\ i \in below(j) /\ i \notin below(i)
    <3>1. i \in S /\ i < j /\ ~(i < i)
      BY <1>2, <2>0
    <3>2. i \in below(j) /\ i \notin below(i)
      BY <3>1
    <3>3. \A k \in below(i) : k \in below(j)
      BY <2>0
    <3>. QED BY <3>2, <3>3
  <2>2. Below(S, i) = Cardinality(below(i)) /\ Below(S, j) = Cardinality(below(j))
    BY DEF Below
  <2>3. IsFiniteSet(below(j)) /\ Below(S, i) \in Nat /\ Below(S, j) \in Nat
    BY <1>1
  <2>. HIDE DEF below
  <2>4. /\ Cardinality(below(i)) <= Cardinality(below(j))
        /\ Cardinality(below(i)) # Cardinality(below(j))
    BY <2>1, <2>3, FS_Subset
  <2>. QED BY <2>2, <2>3, <2>4
<1>. HIDE DEF below, N
<1>3. \A i \in S : Below(S, i) \in 0..(N - 1)
  BY <1>0, <1>1
<1>4. ASSUME NEW i \in S, NEW j \in S, Below(S, i) = Below(S, j) PROVE i = j
  <2>1. ~(i < j) /\ ~(j < i)
    BY <1>1, <1>2, <1>4
  <2>2. i \in Nat /\ j \in Nat
    OBVIOUS
  <2>. QED BY <2>1, <2>2
<1>5. ASSUME NEW n \in 0..(N - 1) PROVE \E i \in S : Below(S, i) = n
  <2>. DEFINE f == [i \in S |-> Below(S, i)]
  <2>1. f \in Injection(S, 0..(N - 1))
    BY <1>3, <1>4 DEF Injection, IsInjective
  <2>2. IsFiniteSet(0..(N - 1)) /\ Cardinality(0..(N - 1)) = N
    <3>1. N - 1 \in Int /\ 0 \in Int
      BY <1>0
    <3>. QED BY <1>0, <3>1, FS_Interval
  <2>3. f \in Surjection(S, 0..(N - 1))
    <3>. HIDE DEF f
    <3>1. Cardinality(S) = Cardinality(0..(N - 1))
      BY <2>2 DEF N
    <3>. QED BY <2>1, <2>2, <3>1, FS_Injection
  <2>. QED BY <2>3 DEF Surjection
<1>. QED BY <1>3, <1>4, <1>5 DEF N

LEMMA InOrderFacts ==
  ASSUME NEW S, IsFiniteSet(S), S \subseteq Nat
  PROVE  /\ Cardinality(S) \in Nat /\ InOrder(S) \in Seq(S)
         /\ Len(InOrder(S)) = Cardinality(S) /\ DOMAIN InOrder(S) = 1..Cardinality(S)
         /\ \A k \in 1..Cardinality(S) : InOrder(S)[k] \in S /\ Below(S, InOrder(S)[k]) = k - 1
<1>. DEFINE N == Cardinality(S)
            order == InOrder(S)
<1>0. N \in Nat
  BY FS_CardinalityType
<1>1. order = [ k \in 1..N |-> CHOOSE i \in S : Below(S, i) = k - 1 ]
  BY DEF InOrder, Below
<1>. HIDE DEF order
<1>2. \A k \in 1..N : order[k] \in S /\ Below(S, order[k]) = k - 1
  <2>. TAKE k \in 1..N
  <2>1. k - 1 \in 0..(Cardinality(S) - 1)
    BY <1>0
  <2>2. \E i \in S : Below(S, i) = k - 1
    BY <2>1, BelowNumbers
  <2>. QED BY <1>1, <2>2
<1>. HIDE DEF N
<1>3. DOMAIN order = 1..N /\ order \in [1..N -> S]
  BY <1>1, <1>2
<1>4. order \in Seq(S)
  BY <1>0, <1>3
<1>5. Len(order) = N
  BY <1>0, <1>3, <1>4
<1>. QED BY <1>0, <1>2, <1>3, <1>4, <1>5 DEF N, order

\* A number greater than all comes last.
LEMMA InOrderAppend ==
  ASSUME NEW S, IsFiniteSet(S), S \subseteq Nat, NEW n \in Nat, \A i \in S : i < n
  PROVE  InOrder(S \cup {n}) = Append(InOrder(S), n)
<1>. DEFINE T == S \cup {n}
            N == Cardinality(S)
            a == InOrder(S)
            b == InOrder(T)
<1>1. /\ IsFiniteSet(T) /\ T \subseteq Nat /\ n \notin S /\ N \in Nat
      /\ Cardinality(T) = N + 1
  BY FS_AddElement, FS_CardinalityType
<1>2. Below(T, n) = N
  <2>1. ASSUME NEW j PROVE j \in { k \in T : k < n } <=> j \in S
    <3>1. ~(n < n)
      OBVIOUS
    <3>. QED BY <3>1
  <2>2. { k \in T : k < n } = S
    BY <2>1
  <2>. QED BY <2>2 DEF Below
<1>3. \A i \in S : Below(T, i) = Below(S, i)
  <2>. TAKE i \in S
  <2>1. { j \in T : j < i } = { j \in S : j < i }
    BY <1>1
  <2>. QED BY <2>1 DEF Below
<1>. HIDE DEF T, N, a, b
<1>4. /\ a \in Seq(S) /\ Len(a) = N /\ DOMAIN a = 1..N
      /\ \A k \in 1..N : a[k] \in S /\ Below(S, a[k]) = k - 1
  BY InOrderFacts DEF N, a
<1>5. /\ b \in Seq(T) /\ Len(b) = N + 1 /\ DOMAIN b = 1..(N + 1)
      /\ \A k \in 1..(N + 1) : b[k] \in T /\ Below(T, b[k]) = k - 1
  <2>1. /\ b \in Seq(T) /\ Len(b) = Cardinality(T) /\ DOMAIN b = 1..Cardinality(T)
        /\ \A k \in 1..Cardinality(T) : b[k] \in T /\ Below(T, b[k]) = k - 1
    BY <1>1, InOrderFacts DEF b
  <2>. QED BY <1>1, <2>1
<1>6. \A i, j \in T : Below(T, i) = Below(T, j) => i = j
  BY <1>1, BelowNumbers
<1>7. n \in T /\ S \subseteq T
  BY DEF T
<1>8. ASSUME NEW k \in 1..N PROVE b[k] = a[k]
  <2>1. k \in 1..(N + 1)
    BY <1>1
  <2>2. Below(T, a[k]) = k - 1 /\ a[k] \in T /\ b[k] \in T /\ Below(T, b[k]) = k - 1
    BY <1>3, <1>4, <1>5, <1>7, <2>1
  <2>. QED BY <1>6, <2>2
<1>9. b[N + 1] = n
  <2>1. N + 1 \in 1..(N + 1) /\ (N + 1) - 1 = N
    BY <1>1
  <2>2. b[N + 1] \in T /\ Below(T, b[N + 1]) = N
    BY <1>5, <2>1
  <2>. QED BY <1>2, <1>6, <1>7, <2>2
<1>10. b = Append(a, n)
  BY <1>1, <1>4, <1>5, <1>8, <1>9
<1>. QED BY <1>10 DEF T, a, b

LEMMA InOrderEmpty == InOrder({}) = <<>>
BY FS_EmptySet, InOrderFacts

-----------------------------------------------------------------------------
(* The text and the reasoning that the handler has put together.           *)

Names == { "reasoningStarted", "textStarted", "reasoningOutputIndex", "textOutputIndex",
           "reasoning", "content", "finishReason", "toolCalls" }

\* Of two sets of places in the stream: C begins before R.
First(R, C) == R # {} /\ \E n \in C : \A m \in R : n < m

\* What the variables l of the handler say if the chunks with reasoning are R
\* and those with text are C.
Texts(l, R, C) ==
  /\ DOMAIN l = Names
  /\ l.reasoningStarted = (R # {}) /\ l.textStarted = (C # {})
  /\ l.reasoning = InOrder(R) /\ l.content = InOrder(C)
  /\ R = {} => l.textOutputIndex = 0
  /\ R # {} => IF First(R, C) THEN l.textOutputIndex = 0 /\ l.reasoningOutputIndex = 1
                              ELSE l.textOutputIndex = 1 /\ l.reasoningOutputIndex = 0

\* What OnReasoning makes of l is r.
ReasoningAdded(l, n, r) ==
         /\ DOMAIN r = Names /\ r.reasoningStarted = TRUE /\ r.textStarted = l.textStarted
         /\ r.reasoning = Append(l.reasoning, n) /\ r.content = l.content
         /\ r.finishReason = l.finishReason /\ r.toolCalls = l.toolCalls
         /\ l.reasoningStarted = TRUE =>
              /\ r.textOutputIndex = l.textOutputIndex
              /\ r.reasoningOutputIndex = l.reasoningOutputIndex
         /\ l.reasoningStarted = FALSE /\ l.textStarted = TRUE =>
              r.textOutputIndex = l.textOutputIndex /\ r.reasoningOutputIndex = 1
         /\ l.reasoningStarted = FALSE /\ l.textStarted = FALSE =>
              r.textOutputIndex = 1 /\ r.reasoningOutputIndex = 0

LEMMA OnReasoningIs ==
  ASSUME NEW l, DOMAIN l = Names, NEW n, NEW r, r = OnReasoning(l, n)
  PROVE  ReasoningAdded(l, n, r)
BY DEF OnReasoning, Names, ReasoningAdded

ContentAdded(l, n, r) ==
         /\ DOMAIN r = Names /\ r.reasoningStarted = l.reasoningStarted /\ r.textStarted = TRUE
         /\ r.reasoning = l.reasoning /\ r.content = Append(l.content, n)
         /\ r.finishReason = l.finishReason /\ r.toolCalls = l.toolCalls
         /\ r.reasoningOutputIndex = l.reasoningOutputIndex
         /\ l.textStarted = FALSE /\ l.reasoningStarted = TRUE => r.textOutputIndex = 1
         /\ l.textStarted = TRUE \/ l.reasoningStarted = FALSE =>
              r.textOutputIndex = l.textOutputIndex

LEMMA OnContentIs ==
  ASSUME NEW l, DOMAIN l = Names, NEW n, NEW r, r = OnContent(l, n)
  PROVE  ContentAdded(l, n, r)
BY DEF OnContent, Names, ContentAdded

\* Places before chunk n, and up to it.
Before(S, n) == IsFiniteSet(S) /\ S \subseteq Nat /\ \A m \in S : m < n
UpTo(S, n) == S \subseteq Nat /\ \A m \in S : m <= n

\* A piece of reasoning comes in chunk n.
LEMMA ReasoningComes ==
  ASSUME NEW R, NEW C, NEW n \in Nat, Before(R, n), Before(C, n),
         NEW l, Texts(l, R, C), NEW r, r = OnReasoning(l, n)
  PROVE  /\ Texts(r, R \cup {n}, C)
         /\ r.finishReason = l.finishReason /\ r.toolCalls = l.toolCalls
<1>. DEFINE S == R \cup {n}
<1>. /\ IsFiniteSet(R) /\ R \subseteq Nat /\ C \subseteq Nat
     /\ (\A m \in R : m < n) /\ \A m \in C : m < n
  BY DEF Before
<1>0. DOMAIN l = Names /\ ReasoningAdded(l, n, r)
  BY OnReasoningIs DEF Texts
<1>1. /\ DOMAIN r = Names /\ r.reasoningStarted = TRUE /\ r.textStarted = l.textStarted
      /\ r.reasoning = Append(l.reasoning, n) /\ r.content = l.content
      /\ r.finishReason = l.finishReason /\ r.toolCalls = l.toolCalls
  BY <1>0 DEF ReasoningAdded
<1>2. r.reasoning = InOrder(S) /\ S # {}
  <2>1. \A m \in R : m < n
    OBVIOUS
  <2>2. InOrder(R \cup {n}) = Append(InOrder(R), n)
    BY <2>1, InOrderAppend, Zenon
  <2>. QED BY <1>1, <2>2 DEF Texts
<1>3. CASE R # {}
  <2>1. First(S, C) <=> First(R, C)
    BY <1>3 DEF First
  <2>2. l.reasoningStarted = TRUE
    BY <1>3 DEF Texts
  <2>3. r.textOutputIndex = l.textOutputIndex /\ r.reasoningOutputIndex = l.reasoningOutputIndex
    BY <1>0, <2>2 DEF ReasoningAdded
  <2>. HIDE DEF S
  <2>. QED BY <1>1, <1>2, <1>3, <2>1, <2>3 DEF Texts, S
<1>4. CASE R = {}
  <2>1. l.reasoningStarted = FALSE /\ l.textStarted = (C # {})
    BY <1>4 DEF Texts
  <2>2. First(S, C) <=> C # {}
    BY <1>4 DEF First
  <2>3. C # {} => r.textOutputIndex = 0 /\ r.reasoningOutputIndex = 1
    BY <1>0, <1>4, <2>1 DEF ReasoningAdded, Texts
  <2>4. C = {} => r.textOutputIndex = 1 /\ r.reasoningOutputIndex = 0
    BY <1>0, <1>4, <2>1 DEF ReasoningAdded, Texts
  <2>. HIDE DEF S
  <2>. QED BY <1>1, <1>2, <2>1, <2>2, <2>3, <2>4 DEF Texts, S
<1>. QED BY <1>3, <1>4

\* A piece of text comes in chunk n, after the reasoning of the same chunk.
LEMMA ContentComes ==
  ASSUME NEW R, NEW C, NEW n \in Nat, UpTo(R, n), Before(C, n),
         NEW l, Texts(l, R, C), NEW r, r = OnContent(l, n)
  PROVE  /\ Texts(r, R, C \cup {n})
         /\ r.finishReason = l.finishReason /\ r.toolCalls = l.toolCalls
<1>. DEFINE S == C \cup {n}
<1>. /\ IsFiniteSet(C) /\ R \subseteq Nat /\ C \subseteq Nat
     /\ (\A m \in R : m <= n) /\ \A m \in C : m < n
  BY DEF Before, UpTo
<1>0. DOMAIN l = Names /\ ContentAdded(l, n, r)
  BY OnContentIs DEF Texts
<1>1. /\ DOMAIN r = Names /\ r.reasoningStarted = l.reasoningStarted /\ r.textStarted = TRUE
      /\ r.reasoning = l.reasoning /\ r.content = Append(l.content, n)
      /\ r.finishReason = l.finishReason /\ r.toolCalls = l.toolCalls
      /\ r.reasoningOutputIndex = l.reasoningOutputIndex
  BY <1>0 DEF ContentAdded
<1>2. r.content = InOrder(S) /\ S # {}
  <2>1. \A m \in C : m < n
    OBVIOUS
  <2>2. InOrder(C \cup {n}) = Append(InOrder(C), n)
    BY <2>1, InOrderAppend, Zenon
  <2>. QED BY <1>1, <2>2 DEF Texts
<1>3. CASE R = {}
  <2>1. l.reasoningStarted = FALSE
    BY <1>3 DEF Texts
  <2>2. r.textOutputIndex = 0
    BY <1>0, <1>3, <2>1 DEF ContentAdded, Texts
  <2>. HIDE DEF S
  <2>. QED BY <1>1, <1>2, <1>3, <2>2 DEF Texts, S
<1>4. CASE R # {} /\ C = {}
  <2>1. ~First(R, S) /\ ~First(R, C)
    <3>1. \A m \in R : ~(n < m)
      OBVIOUS
    <3>. QED BY <1>4, <3>1 DEF First
  <2>2. l.textStarted = FALSE /\ l.reasoningStarted = TRUE
    BY <1>4 DEF Texts
  <2>3. r.textOutputIndex = 1
    BY <1>0, <2>2 DEF ContentAdded
  <2>. HIDE DEF S
  <2>. QED BY <1>1, <1>2, <1>4, <2>1, <2>3 DEF Texts, S
<1>5. CASE R # {} /\ C # {}
  <2>1. First(R, S) <=> First(R, C)
    <3>1. \A m \in R : ~(n < m)
      OBVIOUS
    <3>. QED BY <1>5, <3>1 DEF First
  <2>2. l.textStarted = TRUE
    BY <1>5 DEF Texts
  <2>3. r.textOutputIndex = l.textOutputIndex
    BY <1>0, <2>2 DEF ContentAdded
  <2>. HIDE DEF S
  <2>. QED BY <1>1, <1>2, <1>5, <2>1, <2>3 DEF Texts, S
<1>. QED BY <1>3, <1>4, <1>5

-----------------------------------------------------------------------------
(* The variables of the handler.                                           *)

\* The calls are those of the chunks, each with its fragments in order.
CallsGathered ==
  /\ IsFiniteSet(CallIndexes) /\ CallIndexes \subseteq Nat
  /\ local.toolCalls = [ i \in CallIndexes |-> [id |-> i, arguments |-> InOrder(CallAt(i))] ]

FinishGathered ==
  /\ local.finishReason = FinishReason
  /\ FinishAt # {} => Latest(FinishAt) \in FinishAt

Gathered ==
  /\ chunks \in Seq(Chunks)
  /\ Texts(local, ReasoningAt, ContentAt)
  /\ CallsGathered /\ FinishGathered

\* Chunk n is the next.
Comes(chunk, n) ==
  /\ n \in Nat /\ DOMAIN chunks' = DOMAIN chunks \cup {n} /\ chunks'[n] = chunk
  /\ \A m \in DOMAIN chunks : m \in Nat /\ m < n /\ chunks'[m] = chunks[m]
  /\ n \notin DOMAIN chunks /\ IsFiniteSet(DOMAIN chunks)

LEMMA ChunkComes ==
  ASSUME chunks \in Seq(Chunks), NEW chunk \in Chunks, chunks' = Append(chunks, chunk),
         NEW n, n = Len(chunks) + 1
  PROVE  Comes(chunk, n) /\ chunks' \in Seq(Chunks)
<1>1. /\ Len(chunks) \in Nat /\ n \in Nat /\ DOMAIN chunks = 1..Len(chunks)
      /\ DOMAIN chunks' = 1..n /\ chunks'[n] = chunk /\ chunks' \in Seq(Chunks)
      /\ \A m \in 1..Len(chunks) : chunks'[m] = chunks[m]
  OBVIOUS
<1>2. IsFiniteSet(DOMAIN chunks)
  BY <1>1, FS_Interval
<1>3. /\ 1..n = (1..Len(chunks)) \cup {n} /\ n \notin 1..Len(chunks)
      /\ \A m \in 1..Len(chunks) : m \in Nat /\ m < n
  BY <1>1
<1>. QED BY <1>1, <1>2, <1>3 DEF Comes

\* A set of places that a chunk is added to or not.
LEMMA PlacesGrow ==
  ASSUME NEW chunk, NEW n, Comes(chunk, n)
  PROVE  /\ chunk.reasoning => ReasoningAt' = ReasoningAt \cup {n}
         /\ ~chunk.reasoning => ReasoningAt' = ReasoningAt
         /\ chunk.content => ContentAt' = ContentAt \cup {n}
         /\ ~chunk.content => ContentAt' = ContentAt
         /\ chunk.finish # "" => FinishAt' = FinishAt \cup {n}
         /\ chunk.finish = "" => FinishAt' = FinishAt
         /\ CallIndexes' = CallIndexes \cup chunk.calls
<1>1. \A m : m \in DOMAIN chunks' <=> m \in DOMAIN chunks \/ m = n
  BY DEF Comes
<1>2. /\ chunks'[n] = chunk /\ \A m \in DOMAIN chunks : chunks'[m] = chunks[m]
      /\ n \notin DOMAIN chunks
  BY DEF Comes
<1>3. /\ chunk.reasoning => ReasoningAt' = ReasoningAt \cup {n}
      /\ ~chunk.reasoning => ReasoningAt' = ReasoningAt
  BY <1>1, <1>2 DEF ReasoningAt
<1>4. /\ chunk.content => ContentAt' = ContentAt \cup {n}
      /\ ~chunk.content => ContentAt' = ContentAt
  BY <1>1, <1>2 DEF ContentAt
<1>5. /\ chunk.finish # "" => FinishAt' = FinishAt \cup {n}
      /\ chunk.finish = "" => FinishAt' = FinishAt
  BY <1>1, <1>2 DEF FinishAt
<1>6. CallIndexes' = CallIndexes \cup chunk.calls
  BY <1>1, <1>2 DEF CallIndexes
<1>. QED BY <1>3, <1>4, <1>5, <1>6

LEMMA CallAtGrows ==
  ASSUME NEW chunk, NEW n, Comes(chunk, n), NEW i
  PROVE  /\ i \in chunk.calls => CallAt(i)' = CallAt(i) \cup {n}
         /\ i \notin chunk.calls => CallAt(i)' = CallAt(i)
<1>1. \A m : m \in DOMAIN chunks' <=> m \in DOMAIN chunks \/ m = n
  BY DEF Comes
<1>2. /\ chunks'[n] = chunk /\ \A m \in DOMAIN chunks : chunks'[m] = chunks[m]
      /\ n \notin DOMAIN chunks
  BY DEF Comes
<1>. QED BY <1>1, <1>2 DEF CallAt

LEMMA PlacesAreNumbers ==
  ASSUME NEW chunk, NEW n, Comes(chunk, n)
  PROVE  /\ Before(ReasoningAt, n) /\ Before(ContentAt, n)
         /\ \A i : Before(CallAt(i), n)
<1>1. IsFiniteSet(DOMAIN chunks) /\ \A m \in DOMAIN chunks : m \in Nat /\ m < n
  BY DEF Comes
<1>2. ASSUME NEW S, S \subseteq DOMAIN chunks PROVE Before(S, n)
  BY <1>1, <1>2, FS_Subset DEF Before
<1>3. /\ ReasoningAt \subseteq DOMAIN chunks /\ ContentAt \subseteq DOMAIN chunks
      /\ \A i : CallAt(i) \subseteq DOMAIN chunks
  BY DEF ReasoningAt, ContentAt, CallAt
<1>. QED BY <1>2, <1>3

LEMMA LatestIs ==
  ASSUME NEW S, NEW n \in S, n \in Nat, \A m \in S : m = n \/ (m \in Nat /\ m < n)
  PROVE  Latest(S) = n
<1>1. ASSUME NEW m \in S PROVE m <= n
  BY <1>1
<1>2. ASSUME NEW k \in S, \A m \in S : m <= k PROVE k = n
  <2>1. n <= k /\ (k = n \/ (k \in Nat /\ k < n))
    BY <1>2
  <2>. QED BY <2>1
<1>. QED BY <1>1, <1>2 DEF Latest

\* The finish_reason of the last chunk that has one.
LEMMA FinishComes ==
  ASSUME FinishGathered, NEW chunk, NEW n, Comes(chunk, n),
         local'.finishReason = IF chunk.finish = "" THEN local.finishReason ELSE chunk.finish
  PROVE  FinishGathered'
<1>1. \A m \in FinishAt : m \in Nat /\ m < n /\ m \in DOMAIN chunks /\ chunks'[m] = chunks[m]
  BY DEF Comes, FinishAt
<1>2. CASE chunk.finish = ""
  <2>1. FinishAt' = FinishAt
    BY <1>2, PlacesGrow
  <2>2. FinishReason' = FinishReason
    BY <1>1, <2>1 DEF FinishReason, FinishGathered, Latest
  <2>3. Latest(FinishAt)' = Latest(FinishAt)
    BY <2>1 DEF Latest
  <2>. QED BY <1>2, <2>1, <2>2, <2>3 DEF FinishGathered
<1>3. CASE chunk.finish # ""
  <2>1. FinishAt' = FinishAt \cup {n}
    BY <1>3, PlacesGrow
  <2>2. Latest(FinishAt)' = n
    <3>1. n \in Nat /\ n \in FinishAt'
      BY <2>1 DEF Comes
    <3>2. \A m \in FinishAt' : m = n \/ (m \in Nat /\ m < n)
      BY <1>1, <2>1
    <3>. QED BY <3>1, <3>2, LatestIs
  <2>3. FinishReason' = chunk.finish
    BY <2>1, <2>2 DEF FinishReason, Comes
  <2>. QED BY <1>3, <2>1, <2>2, <2>3 DEF FinishGathered
<1>. QED BY <1>2, <1>3

\* The fragments of the calls of a chunk.
LEMMA CallsCome ==
  ASSUME CallsGathered, NEW chunk \in Chunks, NEW n, Comes(chunk, n),
         local'.toolCalls = MergeCalls(local.toolCalls, chunk.calls, n)
  PROVE  CallsGathered'
<1>1. /\ chunk.calls \subseteq Nat /\ IsFiniteSet(chunk.calls)
  BY ChunksAssumption DEF Chunk
<1>2. CallIndexes' = CallIndexes \cup chunk.calls
  BY PlacesGrow
<1>3. IsFiniteSet(CallIndexes') /\ CallIndexes' \subseteq Nat
  BY <1>1, <1>2, FS_Union DEF CallsGathered
<1>4. DOMAIN local.toolCalls = CallIndexes
  BY DEF CallsGathered
<1>5. ASSUME NEW i \in CallIndexes'
      PROVE  (IF i \in chunk.calls
                THEN MergeStreamToolCall(IF i \in CallIndexes THEN local.toolCalls[i] ELSE NoCall, i, n)
                ELSE IF i \in CallIndexes THEN local.toolCalls[i] ELSE NoCall)
             = [id |-> i, arguments |-> InOrder(CallAt(i)')]
  <2>1. IsFiniteSet(CallAt(i)) /\ CallAt(i) \subseteq Nat /\ \A m \in CallAt(i) : m < n
    BY PlacesAreNumbers DEF Before
  <2>2. i \in CallIndexes => local.toolCalls[i] = [id |-> i, arguments |-> InOrder(CallAt(i))]
    BY DEF CallsGathered
  <2>3. i \notin CallIndexes => CallAt(i) = {}
    BY DEF CallIndexes, CallAt
  <2>4. CASE i \in chunk.calls
    <3>1. CallAt(i)' = CallAt(i) \cup {n}
      BY <2>4, CallAtGrows
    <3>2. InOrder(CallAt(i)') = Append(InOrder(CallAt(i)), n)
      BY <2>1, <3>1, InOrderAppend DEF Comes
    <3>3. i \notin CallIndexes => InOrder(CallAt(i)) = <<>>
      BY <2>3, InOrderEmpty
    <3>4. CASE i \in CallIndexes
      <4>1. /\ local.toolCalls[i].arguments = InOrder(CallAt(i))
        BY <2>2, <3>4
      <4>. QED BY <2>4, <3>2, <3>4, <4>1 DEF MergeStreamToolCall
    <3>5. CASE i \notin CallIndexes
      BY <2>4, <3>2, <3>3, <3>5 DEF MergeStreamToolCall, NoCall
    <3>. QED BY <3>4, <3>5
  <2>5. CASE i \notin chunk.calls
    <3>1. i \in CallIndexes /\ CallAt(i)' = CallAt(i)
      BY <1>2, <2>5, CallAtGrows
    <3>. QED BY <2>2, <2>5, <3>1
  <2>. QED BY <2>4, <2>5
<1>6. local'.toolCalls = [ i \in CallIndexes' |-> [id |-> i, arguments |-> InOrder(CallAt(i)')] ]
  BY <1>2, <1>4, <1>5 DEF MergeCalls
<1>. QED BY <1>3, <1>6 DEF CallsGathered, InOrder

LEMMA InitGathered == Init => Gathered
<1>. SUFFICES ASSUME Init PROVE Gathered
  OBVIOUS
<1>1. /\ chunks = <<>> /\ ReasoningAt = {} /\ ContentAt = {} /\ FinishAt = {} /\ CallIndexes = {}
  <2>1. chunks = <<>>
    BY DEF Init, StreamInit
  <2>2. DOMAIN <<>> = {}
    OBVIOUS
  <2>. QED BY <2>1, <2>2 DEF ReasoningAt, ContentAt, FinishAt, CallIndexes
<1>2. local = [ reasoningStarted |-> FALSE, textStarted |-> FALSE,
                reasoningOutputIndex |-> 0, textOutputIndex |-> 0,
                reasoning |-> <<>>, content |-> <<>>, finishReason |-> "",
                toolCalls |-> [i \in {} |-> NoCall] ]
  BY DEF Init
<1>3. Texts(local, {}, {})
  BY <1>2, InOrderEmpty DEF Texts, Names
<1>4. CallsGathered
  BY <1>1, <1>2, FS_EmptySet DEF CallsGathered
<1>5. FinishGathered
  BY <1>1, <1>2 DEF FinishGathered, FinishReason
<1>6. chunks \in Seq(Chunks) /\ Texts(local, ReasoningAt, ContentAt)
  BY <1>1, <1>3
<1>. QED BY <1>4, <1>5, <1>6 DEF Gathered

Coming == Len(chunks) + 1
AfterReasoning(chunk) == IF chunk.reasoning THEN OnReasoning(local, Coming) ELSE local
AfterContent(chunk) ==
  IF chunk.content THEN OnContent(AfterReasoning(chunk), Coming) ELSE AfterReasoning(chunk)

\* A handled chunk: what is read of it is added to what was put together, first
\* the reasoning and then the text.
LEMMA HandleReads ==
  ASSUME Gathered, NEW chunk \in Chunks, Handle(chunk), NEW n, n = Coming,
         NEW afterReasoning, afterReasoning = AfterReasoning(chunk),
         NEW afterContent, afterContent = AfterContent(chunk)
  PROVE  /\ Comes(chunk, n) /\ chunks' \in Seq(Chunks)
         /\ chunk.reasoning \in BOOLEAN /\ chunk.content \in BOOLEAN
         /\ Texts(afterReasoning, ReasoningAt', ContentAt)
         /\ Texts(afterContent, ReasoningAt', ContentAt')
         /\ chunk.reasoning = TRUE => ReasoningAt' # {} /\ ReasoningAdded(local, n, afterReasoning)
         /\ chunk.content = TRUE => ContentAt' # {} /\ ContentAdded(afterReasoning, n, afterContent)
         /\ local'.reasoningStarted = afterContent.reasoningStarted
         /\ local'.textStarted = afterContent.textStarted
         /\ local'.reasoning = afterContent.reasoning /\ local'.content = afterContent.content
         /\ local'.textOutputIndex = afterContent.textOutputIndex
         /\ local'.reasoningOutputIndex = afterContent.reasoningOutputIndex
         /\ DOMAIN local' = Names
         /\ local'.finishReason = IF chunk.finish = "" THEN local.finishReason ELSE chunk.finish
         /\ local'.toolCalls = MergeCalls(local.toolCalls, chunk.calls, n)
<1>1. /\ chunks' = Append(chunks, chunk)
      /\ local' = [ afterContent EXCEPT
                      !.finishReason = IF chunk.finish = "" THEN @ ELSE chunk.finish,
                      !.toolCalls = MergeCalls(@, chunk.calls, n) ]
  BY DEF Handle, NextChunk, Coming, AfterReasoning, AfterContent
<1>2. Comes(chunk, n) /\ chunks' \in Seq(Chunks)
  BY <1>1, ChunkComes DEF Gathered, Coming
<1>3. n \in Nat /\ Before(ReasoningAt, n) /\ Before(ContentAt, n)
  BY <1>2, PlacesAreNumbers DEF Comes
<1>4. chunk.reasoning \in BOOLEAN /\ chunk.content \in BOOLEAN
  BY ChunksAssumption, Zenon DEF Chunk
<1>5. /\ Texts(afterReasoning, ReasoningAt', ContentAt)
      /\ afterReasoning.finishReason = local.finishReason
      /\ afterReasoning.toolCalls = local.toolCalls
  <2>1. Texts(local, ReasoningAt, ContentAt)
    BY DEF Gathered
  <2>2. CASE chunk.reasoning = TRUE
    <3>1. afterReasoning = OnReasoning(local, n)
      BY <2>2 DEF AfterReasoning
    <3>2. ReasoningAt' = ReasoningAt \cup {n}
      BY <1>2, <2>2, PlacesGrow
    <3>3. /\ Texts(afterReasoning, ReasoningAt \cup {n}, ContentAt)
          /\ afterReasoning.finishReason = local.finishReason
          /\ afterReasoning.toolCalls = local.toolCalls
      BY <1>3, <2>1, <3>1, ReasoningComes
    <3>. QED BY <3>2, <3>3
  <2>3. CASE chunk.reasoning = FALSE
    <3>1. afterReasoning = local
      BY <2>3 DEF AfterReasoning
    <3>2. ReasoningAt' = ReasoningAt
      BY <1>2, <2>3, PlacesGrow
    <3>. QED BY <2>1, <3>1, <3>2
  <2>. QED BY <1>4, <2>2, <2>3, Zenon
<1>6. UpTo(ReasoningAt', n)
  <2>1. ReasoningAt' = ReasoningAt \cup {n} \/ ReasoningAt' = ReasoningAt
    <3>1. chunk.reasoning \/ ~chunk.reasoning
      OBVIOUS
    <3>. QED BY <1>2, <3>1, PlacesGrow, Zenon
  <2>2. ASSUME NEW m \in ReasoningAt' PROVE m \in Nat /\ m <= n
    <3>1. m = n \/ (m \in Nat /\ m < n)
      <4>1. m \in ReasoningAt \/ m = n
        BY <2>1
      <4>. QED BY <1>3, <4>1 DEF Before
    <3>. QED BY <1>3, <3>1
  <2>. QED BY <2>2 DEF UpTo
<1>7. /\ Texts(afterContent, ReasoningAt', ContentAt')
      /\ afterContent.finishReason = local.finishReason
      /\ afterContent.toolCalls = local.toolCalls
  <2>1. CASE chunk.content = TRUE
    <3>1. afterContent = OnContent(afterReasoning, n)
      BY <2>1 DEF AfterContent
    <3>2. ContentAt' = ContentAt \cup {n}
      BY <1>2, <2>1, PlacesGrow
    <3>3. /\ Texts(afterContent, ReasoningAt', ContentAt \cup {n})
          /\ afterContent.finishReason = afterReasoning.finishReason
          /\ afterContent.toolCalls = afterReasoning.toolCalls
      BY <1>3, <1>5, <1>6, <3>1, ContentComes
    <3>. QED BY <1>5, <3>2, <3>3
  <2>2. CASE chunk.content = FALSE
    <3>1. afterContent = afterReasoning
      BY <2>2 DEF AfterContent
    <3>2. ContentAt' = ContentAt
      BY <1>2, <2>2, PlacesGrow
    <3>. QED BY <1>5, <3>1, <3>2
  <2>. QED BY <1>4, <2>1, <2>2, Zenon
<1>8. DOMAIN afterContent = Names
  BY <1>7 DEF Texts
<1>9. /\ DOMAIN local' = Names
      /\ local'.finishReason = IF chunk.finish = "" THEN local.finishReason ELSE chunk.finish
      /\ local'.toolCalls = MergeCalls(local.toolCalls, chunk.calls, n)
      /\ local'.reasoningStarted = afterContent.reasoningStarted
      /\ local'.textStarted = afterContent.textStarted
      /\ local'.reasoning = afterContent.reasoning /\ local'.content = afterContent.content
      /\ local'.textOutputIndex = afterContent.textOutputIndex
      /\ local'.reasoningOutputIndex = afterContent.reasoningOutputIndex
  BY <1>1, <1>7, <1>8 DEF Names
<1>10. chunk.reasoning = TRUE => ReasoningAt' # {} /\ ReasoningAdded(local, n, afterReasoning)
  <2>1. DOMAIN local = Names
    BY DEF Gathered, Texts
  <2>2. ASSUME chunk.reasoning = TRUE
        PROVE  ReasoningAt' # {} /\ ReasoningAdded(local, n, afterReasoning)
    <3>1. afterReasoning = OnReasoning(local, n)
      BY <2>2 DEF AfterReasoning
    <3>2. ReasoningAt' = ReasoningAt \cup {n}
      BY <1>2, <2>2, PlacesGrow
    <3>. QED BY <2>1, <3>1, <3>2, OnReasoningIs
  <2>. QED BY <2>2
<1>11. chunk.content = TRUE => ContentAt' # {} /\ ContentAdded(afterReasoning, n, afterContent)
  <2>1. DOMAIN afterReasoning = Names
    BY <1>5 DEF Texts
  <2>2. ASSUME chunk.content = TRUE
        PROVE  ContentAt' # {} /\ ContentAdded(afterReasoning, n, afterContent)
    <3>1. afterContent = OnContent(afterReasoning, n)
      BY <2>2 DEF AfterContent
    <3>2. ContentAt' = ContentAt \cup {n}
      BY <1>2, <2>2, PlacesGrow
    <3>. QED BY <2>1, <3>1, <3>2, OnContentIs
  <2>. QED BY <2>2
<1>. QED BY <1>2, <1>4, <1>5, <1>7, <1>9, <1>10, <1>11

LEMMA HandleGathers ==
  ASSUME Gathered, NEW chunk \in Chunks, Handle(chunk)
  PROVE  Gathered'
<1>. DEFINE n == Coming
            afterContent == AfterContent(chunk)
<1>1. /\ Comes(chunk, n) /\ chunks' \in Seq(Chunks)
      /\ Texts(afterContent, ReasoningAt', ContentAt')
      /\ local'.reasoningStarted = afterContent.reasoningStarted
      /\ local'.textStarted = afterContent.textStarted
      /\ local'.reasoning = afterContent.reasoning /\ local'.content = afterContent.content
      /\ local'.textOutputIndex = afterContent.textOutputIndex
      /\ local'.reasoningOutputIndex = afterContent.reasoningOutputIndex
      /\ DOMAIN local' = Names
      /\ local'.finishReason = IF chunk.finish = "" THEN local.finishReason ELSE chunk.finish
      /\ local'.toolCalls = MergeCalls(local.toolCalls, chunk.calls, n)
  BY HandleReads
<1>. HIDE DEF afterContent, n
<1>2. Texts(local', ReasoningAt', ContentAt')
  BY <1>1 DEF Texts
<1>3. CallsGathered' /\ FinishGathered'
  BY <1>1, CallsCome, FinishComes DEF Gathered
<1>. QED BY <1>1, <1>2, <1>3 DEF Gathered

-----------------------------------------------------------------------------
(* The response that is stored.                                            *)

LEMMA InOrderNonEmpty ==
  ASSUME NEW S, IsFiniteSet(S), S \subseteq Nat
  PROVE  InOrder(S) = <<>> <=> S = {}
<1>1. Cardinality(S) = 0 <=> S = {}
  BY FS_EmptySet
<1>2. InOrder(S) \in Seq(S) /\ Len(InOrder(S)) = Cardinality(S)
  BY InOrderFacts
<1>. QED BY <1>1, <1>2

\* The numbers from 0 on are in order as they are.
LEMMA IntervalInOrder ==
  ASSUME NEW K \in Nat, NEW S, S = 0..(K - 1)
  PROVE  /\ IsFiniteSet(S) /\ S \subseteq Nat /\ Cardinality(S) = K
         /\ \A n \in 1..K : InOrder(S)[n] = n - 1
<1>1. IsFiniteSet(S) /\ S \subseteq Nat /\ Cardinality(S) = K
  <2>1. K - 1 \in Int /\ 0 \in Int
    OBVIOUS
  <2>2. IsFiniteSet(S) /\ Cardinality(S) = IF 0 > K - 1 THEN 0 ELSE (K - 1) - 0 + 1
    BY <2>1, FS_Interval
  <2>. QED BY <2>2
<1>2. ASSUME NEW i \in S PROVE Below(S, i) = i
  <2>1. i \in Nat /\ i - 1 \in Int /\ 0 \in Int
    BY <1>1
  <2>2. { j \in S : j < i } = 0..(i - 1)
    BY <2>1
  <2>3. Cardinality(0..(i - 1)) = IF 0 > i - 1 THEN 0 ELSE (i - 1) - 0 + 1
    BY <2>1, FS_Interval
  <2>4. Cardinality(0..(i - 1)) = i
    BY <2>1, <2>3
  <2>5. Below(S, i) = Cardinality({ j \in S : j < i })
    BY DEF Below
  <2>. QED BY <2>2, <2>4, <2>5, Zenon
<1>3. \A n \in 1..K : InOrder(S)[n] \in S /\ Below(S, InOrder(S)[n]) = n - 1
  BY <1>1, InOrderFacts
<1>. QED BY <1>1, <1>2, <1>3

\* The calls that the loop over the map reaches.
ReachedIndexes == { i \in CallIndexes : i < Cardinality(CallIndexes) }

LEMMA ReachedFacts ==
  ASSUME CallsGathered, NEW calls, calls = Reached(local.toolCalls), NEW K, K = Cardinality(ReachedIndexes)
  PROVE  /\ K \in Nat /\ DOMAIN calls = 1..K /\ Len(calls) = K
         /\ calls = [ n \in 1..K |-> [ id |-> InOrder(ReachedIndexes)[n],
                                       arguments |-> InOrder(CallAt(InOrder(ReachedIndexes)[n])) ] ]
         /\ \A n \in 1..K : calls[n].id = InOrder(ReachedIndexes)[n] /\ calls[n].id \in Nat
         /\ \A m, n \in 1..K : calls[m].id = calls[n].id => m = n
<1>. DEFINE S == ReachedIndexes
            order == InOrder(S)
<1>1. S \subseteq CallIndexes /\ IsFiniteSet(S) /\ S \subseteq Nat
  BY FS_Subset DEF CallsGathered, ReachedIndexes
<1>2. /\ K \in Nat /\ DOMAIN order = 1..K
      /\ \A n \in 1..K : order[n] \in S /\ Below(S, order[n]) = n - 1
  BY <1>1, InOrderFacts
<1>3. DOMAIN local.toolCalls = CallIndexes
  BY DEF CallsGathered
<1>4. calls = [ n \in DOMAIN order |-> local.toolCalls[order[n]] ]
  BY <1>3 DEF Reached, ReachedIndexes
<1>. HIDE DEF order, S
<1>5. \A n \in 1..K : local.toolCalls[order[n]]
                        = [id |-> order[n], arguments |-> InOrder(CallAt(order[n]))]
  BY <1>1, <1>2 DEF CallsGathered
<1>6. calls = [ n \in 1..K |-> [id |-> order[n], arguments |-> InOrder(CallAt(order[n]))] ]
  BY <1>2, <1>4, <1>5
<1>7. DOMAIN calls = 1..K /\ \A n \in 1..K : calls[n].id = order[n]
  BY <1>6
<1>8. Len(calls) = K
  BY <1>2, <1>7
<1>9. ASSUME NEW m \in 1..K, NEW n \in 1..K, calls[m].id = calls[n].id PROVE m = n
  BY <1>2, <1>7, <1>9
<1>. QED BY <1>1, <1>2, <1>6, <1>7, <1>8, <1>9 DEF order, S

LEMMA ReasoningContentFinite ==
  ASSUME chunks \in Seq(Chunks)
  PROVE  /\ IsFiniteSet(ReasoningAt) /\ ReasoningAt \subseteq Nat
         /\ IsFiniteSet(ContentAt) /\ ContentAt \subseteq Nat
<1>1. DOMAIN chunks = 1..Len(chunks) /\ Len(chunks) \in Nat
  OBVIOUS
<1>2. IsFiniteSet(DOMAIN chunks) /\ DOMAIN chunks \subseteq Nat
  BY <1>1, FS_Interval
<1>3. ReasoningAt \subseteq DOMAIN chunks /\ ContentAt \subseteq DOMAIN chunks
  BY DEF ReasoningAt, ContentAt
<1>. QED BY <1>2, <1>3, FS_Subset

\* The text items of the handler are those of the answer, in its order.
LEMMA TextItemsAreOf ==
  ASSUME Gathered, NEW turn
  PROVE  LET reasoning == OfText(Answer.reasoning, Reasoning(Answer.reasoning))
             message == OfText(Answer.content, Message("assistant", Answer.content, Answer.reasoning, turn))
         IN  TextItems(local, turn) = IF TextFirst THEN message \o reasoning ELSE reasoning \o message
<1>. DEFINE R == ReasoningAt
            C == ContentAt
            r == <<Reasoning(InOrder(R))>>
            m == <<Message("assistant", InOrder(C), InOrder(R), turn)>>
            reasoning == IF R = {} THEN <<>> ELSE r
            message == IF C = {} THEN <<>> ELSE m
<1>1. Answer.reasoning = InOrder(R) /\ Answer.content = InOrder(C)
  BY DEF Answer
<1>2. (InOrder(R) = <<>> <=> R = {}) /\ (InOrder(C) = <<>> <=> C = {})
  BY InOrderNonEmpty, ReasoningContentFinite DEF Gathered
<1>3. TextFirst <=> First(R, C)
  BY DEF TextFirst, First
<1>4. Texts(local, R, C)
  BY DEF Gathered
<1>5. TextItems(local, turn) = IF First(R, C) THEN message \o reasoning ELSE reasoning \o message
  <2>. HIDE DEF R, C
  <2>1. CASE R = {}
    <3>1. local.reasoningStarted = FALSE /\ ~First(R, C)
      BY <1>4, <2>1 DEF Texts, First
    <3>2. CASE C = {}
      <4>1. local.textStarted = FALSE
        BY <1>4, <3>2 DEF Texts
      <4>. QED BY <2>1, <3>1, <3>2, <4>1 DEF TextItems
    <3>3. CASE C # {}
      <4>1. local.textStarted = TRUE /\ local.reasoning = InOrder(R) /\ local.content = InOrder(C)
        BY <1>4, <3>3 DEF Texts
      <4>2. TextItems(local, turn) = m \o <<>> \/ TextItems(local, turn) = <<>> \o m
        BY <3>1, <4>1 DEF TextItems
      <4>3. reasoning = <<>> /\ message = m
        BY <2>1, <3>3
      <4>4. \A x : <<x>> \o <<>> = <<x>> /\ <<>> \o <<x>> = <<x>>
        OBVIOUS
      <4>5. m \o <<>> = <<>> \o m
        BY <4>4
      <4>. HIDE DEF m, reasoning, message
      <4>. QED BY <3>1, <4>2, <4>3, <4>5
    <3>. QED BY <3>2, <3>3
  <2>2. CASE R # {}
    <3>1. local.reasoningStarted = TRUE /\ local.reasoning = InOrder(R) /\ local.content = InOrder(C)
      BY <1>4, <2>2 DEF Texts
    <3>2. CASE C = {}
      <4>1. local.textStarted = FALSE /\ ~First(R, C)
        BY <1>4, <3>2 DEF Texts, First
      <4>2. TextItems(local, turn) = r \o <<>>
        BY <3>1, <4>1 DEF TextItems
      <4>3. reasoning = r /\ message = <<>>
        BY <2>2, <3>2
      <4>. HIDE DEF r
      <4>. QED BY <4>1, <4>2, <4>3
    <3>3. CASE C # {}
      <4>1. local.textStarted = TRUE
        BY <1>4, <3>3 DEF Texts
      <4>2. local.reasoningOutputIndex > local.textOutputIndex <=> First(R, C)
        BY <1>4, <2>2 DEF Texts
      <4>. QED BY <2>2, <3>1, <3>3, <4>1, <4>2 DEF TextItems
    <3>. QED BY <3>2, <3>3
  <2>. QED BY <2>1, <2>2
<1>. QED BY <1>1, <1>2, <1>3, <1>5 DEF OfText

\* With the calls numbered from 0, the calls are those of the answer, and the
\* first is the one with index 0.
LEMMA CallItemsAreOf ==
  ASSUME CallsGathered, Numbered, NEW calls, calls = Reached(local.toolCalls)
  PROVE  /\ calls = Answer.calls
         /\ calls = <<>> <=> DOMAIN local.toolCalls = {}
         /\ \A n \in DOMAIN calls : calls[n].id = 0 <=> n = 1
<1>. DEFINE K == Cardinality(CallIndexes)
<1>1. IsFiniteSet(CallIndexes) /\ K \in Nat /\ CallIndexes = 0..(K - 1)
  BY FS_CardinalityType DEF CallsGathered, Numbered
<1>2. ReachedIndexes = CallIndexes
  <2>1. \A i \in CallIndexes : i < K
    BY <1>1
  <2>. QED BY <2>1 DEF ReachedIndexes
<1>. HIDE DEF K
<1>3. /\ DOMAIN calls = 1..K /\ Len(calls) = K
      /\ calls = [ n \in 1..K |-> [ id |-> InOrder(CallIndexes)[n],
                                    arguments |-> InOrder(CallAt(InOrder(CallIndexes)[n])) ] ]
  BY <1>2, ReachedFacts DEF K
<1>4. \A n \in 1..K : InOrder(CallIndexes)[n] = n - 1
  BY <1>1, IntervalInOrder
<1>5. DOMAIN InOrder(CallIndexes) = 1..K
  BY InOrderFacts DEF K, CallsGathered
<1>6. calls = Answer.calls
  BY <1>3, <1>5 DEF Answer
<1>7. calls = <<>> <=> DOMAIN local.toolCalls = {}
  <2>1. DOMAIN local.toolCalls = CallIndexes /\ (CallIndexes = {} <=> K = 0)
    BY <1>1, FS_EmptySet DEF CallsGathered, K
  <2>2. K = 0 => calls = <<>>
    <3>1. ASSUME K = 0 PROVE calls = <<>>
      <4>1. DOMAIN calls = {} /\ calls = [n \in DOMAIN calls |-> calls[n]]
        BY <1>3, <3>1
      <4>. QED BY <4>1
    <3>. QED BY <3>1
  <2>3. calls = <<>> => K = 0
    BY <1>3
  <2>. QED BY <2>1, <2>2, <2>3
<1>8. \A n \in DOMAIN calls : calls[n].id = 0 <=> n = 1
  BY <1>1, <1>3, <1>4
<1>. QED BY <1>6, <1>7, <1>8

LEMMA TwoPieces ==
  ASSUME NEW a, NEW b, NEW t, t = <<a>> \o <<b>>
  PROVE  t \in Seq({a, b}) /\ DOMAIN t = {1, 2} /\ t[1] = a /\ t[2] = b
<1>. DEFINE u == <<a>>
            v == <<b>>
<1>1. u \in Seq({a, b}) /\ v \in Seq({a, b}) /\ Len(u) = 1 /\ Len(v) = 1 /\ u[1] = a /\ v[1] = b
  OBVIOUS
<1>2. t = u \o v
  OBVIOUS
<1>. HIDE DEF u, v
<1>3. t \in Seq({a, b}) /\ Len(t) = 2 /\ t[1] = u[1] /\ t[2] = v[1]
  BY <1>1, <1>2
<1>. QED BY <1>1, <1>3

\* The first two of an output change places.
LEMMA FirstTwoSwapped ==
  ASSUME NEW a, NEW b, NEW S, NEW rest \in Seq(S), NEW whole, whole = (<<a>> \o <<b>>) \o rest
  PROVE  MessageFirst(whole) = (<<b>> \o <<a>>) \o rest
<1>. DEFINE T == S \cup {a, b}
<1>1. a \in T /\ b \in T /\ rest \in Seq(T)
  <2>1. S \subseteq T
    OBVIOUS
  <2>. HIDE DEF T
  <2>2. rest \in Seq(T)
    BY <2>1
  <2>. QED BY <2>2 DEF T
<1>. HIDE DEF T
<1>2. <<a>> \o <<b>> = <<a, b>> /\ <<b>> \o <<a>> = <<b, a>>
  <2>1. ASSUME NEW x \in T, NEW y \in T PROVE <<x>> \o <<y>> = <<x, y>>
    <3>. DEFINE t == <<x>> \o <<y>>
                w == <<x, y>>
    <3>1. w \in Seq(T) /\ Len(w) = 2 /\ w[1] = x /\ w[2] = y
      BY <2>1
    <3>2. t \in Seq({x, y}) /\ DOMAIN t = {1, 2} /\ t[1] = x /\ t[2] = y
      BY TwoPieces
    <3>. HIDE DEF t, w
    <3>3. Len(t) = 2
      BY <3>2
    <3>4. t = w
      BY <3>1, <3>2, <3>3
    <3>. QED BY <3>4 DEF t, w
  <2>. QED BY <1>1, <2>1
<1>3. <<a, b>> \in Seq(T) /\ Len(<<a, b>>) = 2
  BY <1>1
<1>4. whole = <<a, b>> \o rest
  BY <1>2
<1>5. whole \in Seq(T) /\ Len(whole) = 2 + Len(rest) /\ Len(rest) \in Nat
  BY <1>1, <1>3, <1>4
<1>6. \A n \in 1..Len(rest) : whole[n + 2] = rest[n]
  BY <1>1, <1>3, <1>4
<1>7. whole[1] = a /\ whole[2] = b
  BY <1>1, <1>3, <1>4
<1>8. SubSeq(whole, 3, Len(whole)) = rest
  <2>. DEFINE t == SubSeq(whole, 3, Len(whole))
  <2>1. t = [n \in 1..Len(rest) |-> whole[n + 2]]
    BY <1>5
  <2>2. rest = [n \in 1..Len(rest) |-> rest[n]]
    BY <1>1
  <2>3. \A n \in 1..Len(rest) : (n + 2) = (n + 2) /\ whole[n + 2] = rest[n]
    BY <1>6
  <2>. HIDE DEF t
  <2>. QED BY <2>1, <2>2, <2>3 DEF t
<1>. QED BY <1>2, <1>7, <1>8 DEF MessageFirst

\* The items in the order of the stream are those of the call without streaming,
\* with the message first if the text came first.
LEMMA StreamedIsWhole ==
  ASSUME Gathered
  PROVE  OutputItems(Answer, 1, TextFirst) = StreamedOutput
<1>1. CASE ~TextFirst
  BY <1>1 DEF OutputItems, WholeOutput, StreamedOutput
<1>2. CASE TextFirst
  <2>. DEFINE id == IF Answer.calls = <<>> THEN 0 ELSE 1
              r == Reasoning(Answer.reasoning)
              m == Message("assistant", Answer.content, Answer.reasoning, id)
              rest == CallItems(Answer.calls, Answer.reasoning, id)
  <2>1. ReasoningAt # {} /\ ContentAt # {}
    BY <1>2 DEF TextFirst
  <2>2. Answer.reasoning # <<>> /\ Answer.content # <<>>
    BY <2>1, InOrderNonEmpty, ReasoningContentFinite DEF Gathered, Answer
  <2>3. PICK S : rest \in Seq(S)
    <3>. DEFINE K == Cardinality(CallIndexes)
    <3>1. DOMAIN InOrder(CallIndexes) = 1..K /\ K \in Nat
      BY InOrderFacts, FS_CardinalityType DEF Gathered, CallsGathered
    <3>2. DOMAIN Answer.calls = 1..K
      BY <3>1 DEF Answer
    <3>3. DOMAIN rest = 1..K /\ rest = [n \in DOMAIN rest |-> rest[n]]
      BY <3>2 DEF CallItems
    <3>. HIDE DEF rest, K
    <3>4. rest \in [1..K -> { rest[n] : n \in 1..K }]
      BY <3>3
    <3>5. rest \in Seq({ rest[n] : n \in 1..K })
      BY <3>1, <3>4
    <3>. QED BY <3>5
  <2>4. WholeOutput = (<<r>> \o <<m>>) \o rest
    BY <2>2 DEF WholeOutput, OutputItems, OfText
  <2>5. OutputItems(Answer, 1, TextFirst) = (<<m>> \o <<r>>) \o rest
    BY <1>2, <2>2 DEF OutputItems, OfText
  <2>. HIDE DEF r, m, rest
  <2>6. MessageFirst(WholeOutput) = (<<m>> \o <<r>>) \o rest
    BY <2>3, <2>4, FirstTwoSwapped
  <2>. QED BY <1>2, <2>5, <2>6 DEF StreamedOutput
<1>. QED BY <1>1, <1>2

LEMMA FinishStoresAnswer ==
  ASSUME Gathered, Finish, Numbered, NEW response \in saved'
  PROVE  /\ response.output = OutputItems(Answer, 1, TextFirst)
         /\ response.status = StatusFromFinishReason(FinishReason)
<1>. DEFINE calls == Reached(local.toolCalls)
            turn  == IF DOMAIN local.toolCalls = {} THEN 0 ELSE 1
            texts == TextItems(local, turn)
            items == [ n \in DOMAIN calls |->
                         CallItem(calls[n], IF calls[n].id = 0 THEN local.reasoning ELSE <<>>, turn) ]
<1>1. response.output = texts \o items /\ response.status = StatusFromFinishReason(local.finishReason)
  <2>1. saved' = { [ output |-> texts \o items,
                     status |-> StatusFromFinishReason(local.finishReason) ] }
    BY DEF Finish
  <2>. HIDE DEF texts, items
  <2>. QED BY <2>1
<1>2. local.reasoning = Answer.reasoning /\ local.finishReason = FinishReason
  BY DEF Gathered, Texts, FinishGathered, Answer
<1>3. /\ calls = Answer.calls /\ (calls = <<>> <=> DOMAIN local.toolCalls = {})
      /\ \A n \in DOMAIN calls : calls[n].id = 0 <=> n = 1
  BY CallItemsAreOf DEF Gathered
<1>. HIDE DEF calls
<1>4. turn = IF Answer.calls = <<>> THEN 0 ELSE 1
  BY <1>3
<1>. HIDE DEF turn
<1>5. items = CallItems(Answer.calls, Answer.reasoning, turn)
  BY <1>2, <1>3 DEF CallItems
<1>6. texts = (LET reasoning == OfText(Answer.reasoning, Reasoning(Answer.reasoning))
                   message == OfText(Answer.content,
                                     Message("assistant", Answer.content, Answer.reasoning, turn))
               IN  IF TextFirst THEN message \o reasoning ELSE reasoning \o message)
  BY TextItemsAreOf
<1>. HIDE DEF texts, items
<1>. QED BY <1>1, <1>2, <1>4, <1>5, <1>6 DEF OutputItems

-----------------------------------------------------------------------------
(* The events.                                                             *)

Items == {<<>>, ReasoningItem, MessageItem} \cup { Call(id) : id \in Nat }
Whats == { "response.created", "response.in_progress", "item.added", "part.added", "delta",
           "text.done", "part.done", "item.done" } \cup Ended
Events == [what : Whats, item : Items, index : Nat]

\* Event x may come before event e.
Fits(x, e) ==
  /\ x.what \notin Ended
  /\ e.item # <<>> =>
       /\ x.item = e.item =>
            x.what # "item.done" /\ x.index = e.index /\ e.what # "item.added"
       /\ x.item \notin {<<>>, e.item} => x.index # e.index

Added(e) == Event("item.added", e.item, e.index)

Followable(es) ==
  \A n \in DOMAIN es :
    /\ \A k \in 1..(n - 1) : Fits(es[k], es[n])
    /\ es[n].item # <<>> => \E k \in 1..n : es[k] = Added(es[n])

LEMMA FollowableEvents == EventsAreFollowable <=> Followable(events)
BY DEF EventsAreFollowable, Followable, Fits, Added

LEMMA ItemsDiffer ==
  /\ ReasoningItem # MessageItem /\ ReasoningItem # <<>> /\ MessageItem # <<>>
  /\ \A id : Call(id) # ReasoningItem /\ Call(id) # MessageItem /\ Call(id) # <<>>
  /\ \A i, j : Call(i) = Call(j) => i = j
BY DEF ReasoningItem, MessageItem, Call

LEMMA AppendFits ==
  ASSUME NEW S, NEW es \in Seq(S), NEW e \in S, Followable(es),
         \A k \in DOMAIN es : Fits(es[k], e),
         e.item # <<>> => e = Added(e) \/ \E k \in DOMAIN es : es[k] = Added(e)
  PROVE  Followable(Append(es, e))
<1>. DEFINE all == Append(es, e)
            N == Len(es)
<1>1. /\ N \in Nat /\ DOMAIN es = 1..N /\ DOMAIN all = 1..(N + 1) /\ all[N + 1] = e
      /\ \A k \in 1..N : all[k] = es[k]
  OBVIOUS
<1>. HIDE DEF all, N
<1>2. ASSUME NEW n \in 1..N
      PROVE  /\ \A k \in 1..(n - 1) : Fits(all[k], all[n])
             /\ all[n].item # <<>> => \E k \in 1..n : all[k] = Added(all[n])
  <2>1. \A k \in 1..n : k \in 1..N /\ all[k] = es[k]
    BY <1>1
  <2>2. /\ \A k \in 1..(n - 1) : Fits(es[k], es[n])
        /\ es[n].item # <<>> => \E k \in 1..n : es[k] = Added(es[n])
    BY <1>1 DEF Followable
  <2>3. \A k \in 1..(n - 1) : k \in 1..n
    BY <1>1
  <2>4. n \in 1..n
    BY <1>1
  <2>. QED BY <2>1, <2>2, <2>3, <2>4
<1>3. /\ \A k \in 1..N : Fits(all[k], all[N + 1])
      /\ all[N + 1].item # <<>> => \E k \in 1..(N + 1) : all[k] = Added(all[N + 1])
  <2>1. \A k \in 1..N : Fits(all[k], e)
    BY <1>1
  <2>2. N + 1 \in 1..(N + 1) /\ \A k \in 1..N : k \in 1..(N + 1)
    BY <1>1
  <2>. QED BY <1>1, <2>1, <2>2
<1>4. \A n \in 1..(N + 1) : n \in 1..N \/ n = N + 1
  BY <1>1
<1>5. (N + 1) - 1 = N
  BY <1>1
<1>6. Followable(all)
  BY <1>1, <1>2, <1>3, <1>4, <1>5 DEF Followable
<1>. QED BY <1>6 DEF all

\* The client has been told of the items of o, each under its output_index, and
\* that those of d are done; nothing came that is not about one of them.
Told(es, o, d) ==
  /\ \A k \in DOMAIN es :
       /\ es[k].what \notin Ended
       /\ es[k].item # <<>> => es[k].item \in DOMAIN o /\ es[k].index = o[es[k].item]
       /\ es[k].what = "item.done" => es[k].item \in d
  /\ \A i \in DOMAIN o : \E k \in DOMAIN es : es[k] = Event("item.added", i, o[i])
  /\ \A i \in d : i \in DOMAIN o /\ \E k \in DOMAIN es : es[k] = Event("item.done", i, o[i])

\* No two items share an index.
Places(o) ==
  /\ \A i \in DOMAIN o : i \in Items /\ i # <<>> /\ o[i] \in Nat
  /\ \A i, j \in DOMAIN o : o[i] = o[j] => i = j

Traced(es, o, d) == es \in Seq(Events) /\ Followable(es) /\ Told(es, o, d) /\ Places(o)

Extend(o, item, index) == [ i \in DOMAIN o \cup {item} |-> IF i = item THEN index ELSE o[i] ]

LEMMA AppendIs ==
  ASSUME NEW S, NEW es \in Seq(S), NEW e \in S, NEW all, all = Append(es, e)
  PROVE  /\ all \in Seq(S)
         /\ \A k \in DOMAIN es : k \in DOMAIN all /\ all[k] = es[k]
         /\ \E n \in DOMAIN all : all[n] = e
         /\ \A k \in DOMAIN all : k \in DOMAIN es \/ all[k] = e
<1>1. /\ Len(es) \in Nat /\ DOMAIN es = 1..Len(es) /\ DOMAIN all = 1..(Len(es) + 1)
      /\ all[Len(es) + 1] = e /\ all \in Seq(S) /\ \A k \in 1..Len(es) : all[k] = es[k]
  OBVIOUS
<1>2. Len(es) + 1 \in 1..(Len(es) + 1)
  BY <1>1
<1>. QED BY <1>1, <1>2

LEMMA EventIs ==
  ASSUME NEW what, NEW item, NEW index, NEW e, e = Event(what, item, index)
  PROVE  /\ e.what = what /\ e.item = item /\ e.index = index
         /\ what \in Whats /\ item \in Items /\ index \in Nat => e \in Events
         /\ what = "item.added" => e = Added(e)
BY DEF Event, Events, Added

\* A new item under a free index.
LEMMA AddItem ==
  ASSUME NEW es, NEW o, NEW d, Traced(es, o, d), NEW item \in Items, item # <<>>,
         item \notin DOMAIN o, NEW index \in Nat, \A i \in DOMAIN o : o[i] # index,
         NEW e, e = Event("item.added", item, index),
         NEW all, all = Append(es, e), NEW p, p = Extend(o, item, index)
  PROVE  Traced(all, p, d)
<1>1. /\ e.what = "item.added" /\ e.item = item /\ e.index = index /\ e \in Events /\ e = Added(e)
  <2>. DEFINE what == "item.added"
  <2>1. what \in Whats /\ what = "item.added" /\ e = Event(what, item, index)
    BY DEF Whats
  <2>. HIDE DEF what
  <2>. QED BY <2>1, EventIs
<1>2. /\ es \in Seq(Events) /\ Followable(es) /\ Told(es, o, d) /\ Places(o)
  BY DEF Traced
<1>3. /\ DOMAIN p = DOMAIN o \cup {item} /\ p[item] = index
      /\ \A i \in DOMAIN o : p[i] = o[i] /\ i # item
  BY DEF Extend
<1>4. /\ all \in Seq(Events)
      /\ \A k \in DOMAIN es : k \in DOMAIN all /\ all[k] = es[k]
      /\ \E n \in DOMAIN all : all[n] = e
      /\ \A k \in DOMAIN all : k \in DOMAIN es \/ all[k] = e
  BY <1>1, <1>2, AppendIs
<1>5. ASSUME NEW k \in DOMAIN es PROVE Fits(es[k], e)
  <2>1. /\ es[k].what \notin Ended
        /\ es[k].item # <<>> => es[k].item \in DOMAIN o /\ es[k].index = o[es[k].item]
    BY <1>2 DEF Told
  <2>2. es[k].item # item /\ (es[k].item # <<>> => es[k].index # index)
    BY <2>1
  <2>. QED BY <1>1, <2>1, <2>2 DEF Fits
<1>6. Followable(all)
  BY <1>1, <1>2, <1>5, AppendFits
<1>7. Places(p)
  BY <1>2, <1>3 DEF Places
<1>8. Told(all, p, d)
  <2>1. ASSUME NEW k \in DOMAIN all
        PROVE  /\ all[k].what \notin Ended
               /\ all[k].item # <<>> => all[k].item \in DOMAIN p /\ all[k].index = p[all[k].item]
               /\ all[k].what = "item.done" => all[k].item \in d
    <3>1. CASE k \in DOMAIN es
      <4>1. all[k] = es[k] /\ es[k].what \notin Ended
        BY <1>2, <1>4, <3>1 DEF Told
      <4>2. /\ es[k].item # <<>> => es[k].item \in DOMAIN o /\ es[k].index = o[es[k].item]
            /\ es[k].what = "item.done" => es[k].item \in d
        BY <1>2, <3>1 DEF Told
      <4>. QED BY <1>3, <4>1, <4>2
    <3>2. CASE all[k] = e
      BY <1>1, <1>3, <3>2 DEF Ended
    <3>. QED BY <1>4, <3>1, <3>2
  <2>2. ASSUME NEW i \in DOMAIN p PROVE \E k \in DOMAIN all : all[k] = Event("item.added", i, p[i])
    <3>1. CASE i = item
      BY <1>3, <1>4, <3>1
    <3>2. CASE i \in DOMAIN o
      <4>1. PICK k \in DOMAIN es : es[k] = Event("item.added", i, o[i])
        BY <1>2, <3>2 DEF Told
      <4>. QED BY <1>3, <1>4, <3>2, <4>1
    <3>. QED BY <1>3, <3>1, <3>2
  <2>3. ASSUME NEW i \in d
        PROVE  i \in DOMAIN p /\ \E k \in DOMAIN all : all[k] = Event("item.done", i, p[i])
    <3>1. i \in DOMAIN o
      BY <1>2 DEF Told
    <3>2. PICK k \in DOMAIN es : es[k] = Event("item.done", i, o[i])
      BY <1>2 DEF Told
    <3>. QED BY <1>3, <1>4, <3>1, <3>2
  <2>. QED BY <2>1, <2>2, <2>3 DEF Told
<1>. QED BY <1>4, <1>6, <1>7, <1>8 DEF Traced

\* Something about an item that is open.
LEMMA TellOfItem ==
  ASSUME NEW es, NEW o, NEW d, Traced(es, o, d), NEW item \in DOMAIN o, item \notin d,
         NEW what \in Whats, what \notin Ended \cup {"item.added", "item.done"},
         NEW e, e = Event(what, item, o[item]), NEW all, all = Append(es, e)
  PROVE  Traced(all, o, d)
<1>1. /\ es \in Seq(Events) /\ Followable(es) /\ Told(es, o, d) /\ Places(o)
  BY DEF Traced
<1>2. /\ e.what = what /\ e.item = item /\ e.index = o[item] /\ e \in Events /\ item # <<>>
      /\ Added(e) = Event("item.added", item, o[item])
  <2>1. item \in Items /\ item # <<>> /\ o[item] \in Nat
    BY <1>1 DEF Places
  <2>. QED BY <2>1, EventIs DEF Added
<1>3. /\ all \in Seq(Events)
      /\ \A k \in DOMAIN es : k \in DOMAIN all /\ all[k] = es[k]
      /\ \A k \in DOMAIN all : k \in DOMAIN es \/ all[k] = e
  BY <1>1, <1>2, AppendIs
<1>4. ASSUME NEW k \in DOMAIN es PROVE Fits(es[k], e)
  <2>1. /\ es[k].what \notin Ended
        /\ es[k].item # <<>> => es[k].item \in DOMAIN o /\ es[k].index = o[es[k].item]
        /\ es[k].what = "item.done" => es[k].item \in d
    BY <1>1 DEF Told
  <2>2. es[k].item = item => es[k].what # "item.done" /\ es[k].index = o[item]
    BY <1>2, <2>1
  <2>3. es[k].item \notin {<<>>, item} => es[k].index # o[item]
    BY <1>1, <2>1 DEF Places
  <2>. QED BY <1>2, <2>1, <2>2, <2>3 DEF Fits
<1>5. \E k \in DOMAIN es : es[k] = Added(e)
  BY <1>1, <1>2 DEF Told
<1>6. Followable(all)
  BY <1>1, <1>2, <1>4, <1>5, AppendFits
<1>7. Told(all, o, d)
  <2>1. ASSUME NEW k \in DOMAIN all
        PROVE  /\ all[k].what \notin Ended
               /\ all[k].item # <<>> => all[k].item \in DOMAIN o /\ all[k].index = o[all[k].item]
               /\ all[k].what = "item.done" => all[k].item \in d
    <3>1. CASE k \in DOMAIN es
      BY <1>1, <1>3, <3>1 DEF Told
    <3>2. CASE all[k] = e
      BY <1>2, <3>2
    <3>. QED BY <1>3, <3>1, <3>2
  <2>2. /\ \A i \in DOMAIN o : \E k \in DOMAIN es : es[k] = Event("item.added", i, o[i])
        /\ \A i \in d : i \in DOMAIN o /\ \E k \in DOMAIN es : es[k] = Event("item.done", i, o[i])
    BY <1>1 DEF Told
  <2>. QED BY <1>3, <2>1, <2>2 DEF Told
<1>. QED BY <1>1, <1>3, <1>6, <1>7 DEF Traced

\* An open item is done.
LEMMA DoneItem ==
  ASSUME NEW es, NEW o, NEW d, Traced(es, o, d), NEW item \in DOMAIN o, item \notin d,
         NEW e, e = Event("item.done", item, o[item]), NEW all, all = Append(es, e),
         NEW b, b = d \cup {item}
  PROVE  Traced(all, o, b)
<1>1. /\ es \in Seq(Events) /\ Followable(es) /\ Told(es, o, d) /\ Places(o)
  BY DEF Traced
<1>2. /\ e.what = "item.done" /\ e.item = item /\ e.index = o[item] /\ e \in Events /\ item # <<>>
      /\ Added(e) = Event("item.added", item, o[item])
  <2>1. item \in Items /\ item # <<>> /\ o[item] \in Nat
    BY <1>1 DEF Places
  <2>. DEFINE what == "item.done"
  <2>2. what \in Whats /\ what = "item.done" /\ e = Event(what, item, o[item])
    BY DEF Whats
  <2>. HIDE DEF what
  <2>. QED BY <2>1, <2>2, EventIs DEF Added
<1>3. /\ all \in Seq(Events)
      /\ \A k \in DOMAIN es : k \in DOMAIN all /\ all[k] = es[k]
      /\ \E n \in DOMAIN all : all[n] = e
      /\ \A k \in DOMAIN all : k \in DOMAIN es \/ all[k] = e
  BY <1>1, <1>2, AppendIs
<1>4. ASSUME NEW k \in DOMAIN es PROVE Fits(es[k], e)
  <2>1. /\ es[k].what \notin Ended
        /\ es[k].item # <<>> => es[k].item \in DOMAIN o /\ es[k].index = o[es[k].item]
        /\ es[k].what = "item.done" => es[k].item \in d
    BY <1>1 DEF Told
  <2>2. es[k].item = item => es[k].what # "item.done" /\ es[k].index = o[item]
    BY <1>2, <2>1
  <2>3. es[k].item \notin {<<>>, item} => es[k].index # o[item]
    BY <1>1, <2>1 DEF Places
  <2>. QED BY <1>2, <2>1, <2>2, <2>3 DEF Fits
<1>5. \E k \in DOMAIN es : es[k] = Added(e)
  BY <1>1, <1>2 DEF Told
<1>6. Followable(all)
  BY <1>1, <1>2, <1>4, <1>5, AppendFits
<1>7. Told(all, o, b)
  <2>1. ASSUME NEW k \in DOMAIN all
        PROVE  /\ all[k].what \notin Ended
               /\ all[k].item # <<>> => all[k].item \in DOMAIN o /\ all[k].index = o[all[k].item]
               /\ all[k].what = "item.done" => all[k].item \in b
    <3>1. CASE k \in DOMAIN es
      BY <1>1, <1>3, <3>1 DEF Told
    <3>2. CASE all[k] = e
      BY <1>2, <3>2 DEF Ended
    <3>. QED BY <1>3, <3>1, <3>2
  <2>2. /\ \A i \in DOMAIN o : \E k \in DOMAIN es : es[k] = Event("item.added", i, o[i])
        /\ \A i \in d : i \in DOMAIN o /\ \E k \in DOMAIN es : es[k] = Event("item.done", i, o[i])
    BY <1>1 DEF Told
  <2>3. ASSUME NEW i \in b
        PROVE  i \in DOMAIN o /\ \E k \in DOMAIN all : all[k] = Event("item.done", i, o[i])
    BY <1>3, <2>2
  <2>4. \A i \in DOMAIN o : \E k \in DOMAIN all : all[k] = Event("item.added", i, o[i])
    BY <1>3, <2>2
  <2>. QED BY <2>1, <2>3, <2>4 DEF Told
<1>. QED BY <1>1, <1>3, <1>6, <1>7 DEF Traced

Extends(o, item, index, p) ==
  /\ DOMAIN p = DOMAIN o \cup {item} /\ p[item] = index
  /\ \A i \in DOMAIN o : p[i] = o[i]

LEMMA OnePiece ==
  ASSUME NEW S, NEW es \in Seq(S), NEW c \in S, NEW new, new = <<>> \o <<c>>
  PROVE  new \in Seq(S) /\ es \o new = Append(es, c)
<1>1. <<>> \o <<c>> = <<c>>
  OBVIOUS
<1>2. <<c>> \in Seq(S)
  OBVIOUS
<1>3. es \o <<c>> = Append(es, c)
  OBVIOUS
<1>. QED BY <1>1, <1>2, <1>3

LEMMA ThreePieces ==
  ASSUME NEW S, NEW es \in Seq(S), NEW a \in S, NEW b \in S, NEW c \in S,
         NEW new, new = <<a, b>> \o <<c>>
  PROVE  new \in Seq(S) /\ es \o new = Append(Append(Append(es, a), b), c)
<1>. DEFINE ab == <<a, b>>
            cc == <<c>>
            es2 == Append(Append(es, a), b)
<1>1. ab \in Seq(S) /\ cc \in Seq(S) /\ es2 \in Seq(S)
  OBVIOUS
<1>2. es \o ab = es2
  OBVIOUS
<1>. HIDE DEF ab, cc
<1>3. new \in Seq(S) /\ es \o new = (es \o ab) \o cc
  <2>1. new = ab \o cc
    BY DEF ab, cc
  <2>2. \A x, y, z \in Seq(S) : x \o (y \o z) = (x \o y) \o z /\ y \o z \in Seq(S)
    OBVIOUS
  <2>3. es \o (ab \o cc) = (es \o ab) \o cc /\ ab \o cc \in Seq(S)
    BY <1>1, <2>2
  <2>. QED BY <2>1, <2>3
<1>. HIDE DEF es2
<1>4. es2 \o cc = Append(es2, c)
  BY <1>1 DEF cc
<1>. QED BY <1>2, <1>3, <1>4 DEF es2

\* A piece of text of an item, that is new or is open.
LEMMA Announced ==
  ASSUME NEW es, NEW o, Traced(es, o, {}), NEW item \in Items, item # <<>>, NEW index \in Nat,
         NEW begun, begun = (item \in DOMAIN o), item \in DOMAIN o => o[item] = index,
         item \notin DOMAIN o => \A i \in DOMAIN o : o[i] # index,
         NEW new, new = Announce(begun, item, index)
  PROVE  new \in Seq(Events) /\ \E p : Traced(es \o new, p, {}) /\ Extends(o, item, index, p)
<1>. DEFINE a == Event("item.added", item, index)
            b == Event("part.added", item, index)
            c == Event("delta", item, index)
<1>1. a \in Events /\ b \in Events /\ c \in Events
  BY DEF Event, Events, Whats
<1>2. es \in Seq(Events)
  BY DEF Traced
<1>3. {"part.added", "delta"} \subseteq Whats \ (Ended \cup {"item.added", "item.done"})
  BY DEF Whats, Ended
<1>4. CASE begun = TRUE
  <2>1. new = <<>> \o <<c>>
    BY <1>4 DEF Announce
  <2>. HIDE DEF c
  <2>2. new \in Seq(Events) /\ es \o new = Append(es, c)
    BY <1>1, <1>2, <2>1, OnePiece
  <2>4. item \in DOMAIN o /\ o[item] = index /\ item \notin {}
    BY <1>4
  <2>5. c = Event("delta", item, o[item])
    BY <2>4 DEF c
  <2>6. Traced(es \o new, o, {})
    BY <1>3, <2>2, <2>4, <2>5, TellOfItem
  <2>7. Extends(o, item, index, o)
    BY <2>4 DEF Extends
  <2>. QED BY <2>2, <2>6, <2>7
<1>5. CASE begun = FALSE
  <2>. DEFINE q == Extend(o, item, index)
              es1 == Append(es, a)
              es2 == Append(es1, b)
              es3 == Append(es2, c)
  <2>1. new = <<a, b>> \o <<c>>
    BY <1>5 DEF Announce
  <2>. HIDE DEF a, b, c
  <2>2. new \in Seq(Events) /\ es \o new = es3
    BY <1>1, <1>2, <2>1, ThreePieces
  <2>4. item \notin DOMAIN o /\ \A i \in DOMAIN o : o[i] # index
    BY <1>5
  <2>5. Traced(es1, q, {})
    <3>1. a = Event("item.added", item, index) /\ es1 = Append(es, a)
      BY DEF a
    <3>. HIDE DEF es1
    <3>. QED BY <2>4, <3>1, AddItem
  <2>6. Extends(o, item, index, q) /\ item \in DOMAIN q /\ q[item] = index /\ item \notin {}
    BY <2>4 DEF Extends, Extend
  <2>7. b = Event("part.added", item, q[item]) /\ c = Event("delta", item, q[item])
    BY <2>6 DEF b, c
  <2>. HIDE DEF q, es1
  <2>8. Traced(es2, q, {})
    BY <1>3, <2>5, <2>6, <2>7, TellOfItem
  <2>. HIDE DEF es2
  <2>9. Traced(es3, q, {})
    BY <1>3, <2>6, <2>7, <2>8, TellOfItem
  <2>. QED BY <2>2, <2>6, <2>9
<1>6. begun = TRUE \/ begun = FALSE
  OBVIOUS
<1>. QED BY <1>4, <1>5, <1>6

\* The items that the variables l say are open, and where they say they are.
OpenedAs(l, o) ==
  /\ DOMAIN o = {ReasoningItem, MessageItem} \cap DOMAIN o
  /\ l.reasoningStarted = (ReasoningItem \in DOMAIN o)
  /\ l.textStarted = (MessageItem \in DOMAIN o)
  /\ ReasoningItem \in DOMAIN o => o[ReasoningItem] = l.reasoningOutputIndex
  /\ MessageItem \in DOMAIN o => o[MessageItem] = l.textOutputIndex

TracedText(es, l) == \E o : Traced(es, o, {}) /\ OpenedAs(l, o)

LEMMA ReasoningAnnounced ==
  ASSUME NEW R, NEW C, NEW S, S # {}, NEW n, NEW l, Texts(l, R, C),
         NEW r, ReasoningAdded(l, n, r), Texts(r, S, C),
         NEW es, TracedText(es, l),
         NEW new, new = Announce(l.reasoningStarted, ReasoningItem, r.reasoningOutputIndex)
  PROVE  new \in Seq(Events) /\ TracedText(es \o new, r)
<1>. DEFINE item == ReasoningItem
            index == r.reasoningOutputIndex
            begun == l.reasoningStarted
<1>1. PICK o : Traced(es, o, {}) /\ OpenedAs(l, o)
  BY DEF TracedText
<1>2. item \in Items /\ item # <<>> /\ index \in Nat
  BY ItemsDiffer DEF Texts, Items
<1>3. begun = (item \in DOMAIN o)
  BY <1>1 DEF OpenedAs
<1>4. item \in DOMAIN o => o[item] = index
  BY <1>1 DEF OpenedAs, ReasoningAdded
<1>5. item \notin DOMAIN o => \A i \in DOMAIN o : o[i] # index
  <2>1. ASSUME item \notin DOMAIN o, NEW i \in DOMAIN o PROVE o[i] # index
    <3>1. i = MessageItem /\ l.reasoningStarted = FALSE /\ l.textStarted = TRUE
      <4>1. i \in {ReasoningItem, MessageItem}
        BY <1>1, Zenon DEF OpenedAs
      <4>2. i = MessageItem
        BY <2>1, <4>1
      <4>3. l.reasoningStarted = FALSE
        <5>1. l.reasoningStarted = TRUE \/ l.reasoningStarted = FALSE
          BY DEF Texts
        <5>2. l.reasoningStarted = TRUE => ReasoningItem \in DOMAIN o
          BY <1>1 DEF OpenedAs
        <5>. QED BY <2>1, <5>1, <5>2
      <4>4. MessageItem \in DOMAIN o
        BY <4>2
      <4>5. l.textStarted = (MessageItem \in DOMAIN o)
        BY <1>1 DEF OpenedAs
      <4>. QED BY <4>2, <4>3, <4>4, <4>5
    <3>2. o[i] = l.textOutputIndex /\ index = 1 /\ r.textOutputIndex = l.textOutputIndex
      BY <1>1, <3>1 DEF OpenedAs, ReasoningAdded
    <3>3. r.textOutputIndex = 0
      BY <3>2 DEF Texts
    <3>. QED BY <3>2, <3>3
  <2>. QED BY <2>1
<1>. HIDE DEF item, index, begun
<1>6. new = Announce(begun, item, index)
  BY DEF item, index, begun
<1>7. new \in Seq(Events) /\ \E p : Traced(es \o new, p, {}) /\ Extends(o, item, index, p)
  BY <1>1, <1>2, <1>3, <1>4, <1>5, <1>6, Announced
<1>8. PICK p : Traced(es \o new, p, {}) /\ Extends(o, item, index, p)
  BY <1>7
<1>9. OpenedAs(r, p)
  <2>1. /\ DOMAIN p = DOMAIN o \cup {ReasoningItem} /\ p[ReasoningItem] = r.reasoningOutputIndex
        /\ \A i \in DOMAIN o : p[i] = o[i]
    BY <1>8 DEF Extends, item, index
  <2>2. ReasoningItem \in DOMAIN p /\ (MessageItem \in DOMAIN p <=> MessageItem \in DOMAIN o)
    BY <2>1, ItemsDiffer
  <2>3. DOMAIN p = {ReasoningItem, MessageItem} \cap DOMAIN p
    BY <1>1, <2>1 DEF OpenedAs
  <2>4. r.reasoningStarted = TRUE /\ r.textStarted = l.textStarted
    BY DEF ReasoningAdded
  <2>5. MessageItem \in DOMAIN o => p[MessageItem] = r.textOutputIndex
    <3>1. ASSUME MessageItem \in DOMAIN o PROVE p[MessageItem] = r.textOutputIndex
      <4>1. l.textStarted = TRUE /\ p[MessageItem] = l.textOutputIndex
        BY <1>1, <2>1, <3>1 DEF OpenedAs
      <4>2. l.reasoningStarted = TRUE \/ l.reasoningStarted = FALSE
        BY DEF Texts
      <4>. QED BY <4>1, <4>2 DEF ReasoningAdded
    <3>. QED BY <3>1
  <2>6. r.textStarted = (MessageItem \in DOMAIN p)
    BY <1>1, <2>2, <2>4 DEF OpenedAs
  <2>. QED BY <2>1, <2>2, <2>3, <2>4, <2>5, <2>6 DEF OpenedAs
<1>. QED BY <1>7, <1>8, <1>9 DEF TracedText

LEMMA ContentAnnounced ==
  ASSUME NEW R, NEW C, NEW S, S # {}, NEW n, NEW l, Texts(l, R, C),
         NEW r, ContentAdded(l, n, r), Texts(r, R, S),
         NEW es, TracedText(es, l),
         NEW new, new = Announce(l.textStarted, MessageItem, r.textOutputIndex)
  PROVE  new \in Seq(Events) /\ TracedText(es \o new, r)
<1>. DEFINE item == MessageItem
            index == r.textOutputIndex
            begun == l.textStarted
<1>1. PICK o : Traced(es, o, {}) /\ OpenedAs(l, o)
  BY DEF TracedText
<1>2. item \in Items /\ item # <<>> /\ index \in Nat
  BY ItemsDiffer DEF Texts, Items
<1>3. begun = (item \in DOMAIN o)
  BY <1>1 DEF OpenedAs
<1>4. item \in DOMAIN o => o[item] = index
  BY <1>1 DEF OpenedAs, ContentAdded
<1>5. item \notin DOMAIN o => \A i \in DOMAIN o : o[i] # index
  <2>1. ASSUME item \notin DOMAIN o, NEW i \in DOMAIN o PROVE o[i] # index
    <3>1. i = ReasoningItem /\ l.reasoningStarted = TRUE /\ l.textStarted = FALSE
      <4>1. i \in {ReasoningItem, MessageItem}
        BY <1>1, Zenon DEF OpenedAs
      <4>2. i = ReasoningItem
        BY <2>1, <4>1
      <4>3. l.textStarted = FALSE
        <5>1. l.textStarted = TRUE \/ l.textStarted = FALSE
          BY DEF Texts
        <5>2. l.textStarted = TRUE => MessageItem \in DOMAIN o
          BY <1>1 DEF OpenedAs
        <5>. QED BY <2>1, <5>1, <5>2
      <4>4. ReasoningItem \in DOMAIN o
        BY <4>2
      <4>5. l.reasoningStarted = (ReasoningItem \in DOMAIN o)
        BY <1>1 DEF OpenedAs
      <4>. QED BY <4>2, <4>3, <4>4, <4>5
    <3>2. o[i] = l.reasoningOutputIndex /\ index = 1 /\ r.reasoningOutputIndex = l.reasoningOutputIndex
      BY <1>1, <3>1 DEF OpenedAs, ContentAdded
    <3>3. R # {}
      BY <3>1 DEF Texts
    <3>4. r.reasoningOutputIndex = 0
      BY <3>2, <3>3 DEF Texts
    <3>. QED BY <3>2, <3>4
  <2>. QED BY <2>1
<1>. HIDE DEF item, index, begun
<1>6. new = Announce(begun, item, index)
  BY DEF item, index, begun
<1>7. new \in Seq(Events) /\ \E p : Traced(es \o new, p, {}) /\ Extends(o, item, index, p)
  BY <1>1, <1>2, <1>3, <1>4, <1>5, <1>6, Announced
<1>8. PICK p : Traced(es \o new, p, {}) /\ Extends(o, item, index, p)
  BY <1>7
<1>9. OpenedAs(r, p)
  <2>1. /\ DOMAIN p = DOMAIN o \cup {MessageItem} /\ p[MessageItem] = r.textOutputIndex
        /\ \A i \in DOMAIN o : p[i] = o[i]
    BY <1>8 DEF Extends, item, index
  <2>2. MessageItem \in DOMAIN p /\ (ReasoningItem \in DOMAIN p <=> ReasoningItem \in DOMAIN o)
    BY <2>1, ItemsDiffer
  <2>3. DOMAIN p = {ReasoningItem, MessageItem} \cap DOMAIN p
    BY <1>1, <2>1 DEF OpenedAs
  <2>4. r.textStarted = TRUE /\ r.reasoningStarted = l.reasoningStarted
        /\ r.reasoningOutputIndex = l.reasoningOutputIndex
    BY DEF ContentAdded
  <2>5. ReasoningItem \in DOMAIN o => p[ReasoningItem] = r.reasoningOutputIndex
    BY <1>1, <2>1, <2>4 DEF OpenedAs
  <2>6. r.reasoningStarted = (ReasoningItem \in DOMAIN p)
    BY <1>1, <2>2, <2>4 DEF OpenedAs
  <2>. QED BY <2>1, <2>2, <2>3, <2>4, <2>5, <2>6 DEF OpenedAs
<1>. QED BY <1>7, <1>8, <1>9 DEF TracedText

\* What a handled chunk says to the client.
LEMMA HandleTells ==
  ASSUME Gathered, NEW chunk \in Chunks, Handle(chunk), connected = TRUE,
         TracedText(events, local)
  PROVE  TracedText(events', local')
<1>. DEFINE n == Coming
            r == AfterReasoning(chunk)
            c == AfterContent(chunk)
            A == IF chunk.reasoning
                   THEN Announce(local.reasoningStarted, ReasoningItem, r.reasoningOutputIndex)
                   ELSE <<>>
            B == IF chunk.content
                   THEN Announce(local.textStarted, MessageItem, c.textOutputIndex)
                   ELSE <<>>
<1>1. events' = events \o (A \o B)
  <2>1. events' = IF connected THEN events \o (A \o B) ELSE events
    BY Zenon DEF Handle, Write, Coming, AfterReasoning, AfterContent
  <2>. HIDE DEF A, B
  <2>. QED BY <2>1
<1>2. /\ chunk.reasoning \in BOOLEAN /\ chunk.content \in BOOLEAN
      /\ Texts(r, ReasoningAt', ContentAt)
      /\ Texts(c, ReasoningAt', ContentAt')
      /\ chunk.reasoning = TRUE => ReasoningAt' # {} /\ ReasoningAdded(local, n, r)
      /\ chunk.content = TRUE => ContentAt' # {} /\ ContentAdded(r, n, c)
      /\ local'.reasoningStarted = c.reasoningStarted
      /\ local'.textStarted = c.textStarted
      /\ local'.textOutputIndex = c.textOutputIndex
      /\ local'.reasoningOutputIndex = c.reasoningOutputIndex
  BY HandleReads
<1>3. events \in Seq(Events) /\ Texts(local, ReasoningAt, ContentAt)
  BY DEF TracedText, Traced, Gathered
<1>4. A \in Seq(Events) /\ TracedText(events \o A, r) /\ local.textStarted = r.textStarted
  <2>1. CASE chunk.reasoning = TRUE
    <3>1. ReasoningAdded(local, n, r) /\ ReasoningAt' # {}
      BY <1>2, <2>1
    <3>2. A = Announce(local.reasoningStarted, ReasoningItem, r.reasoningOutputIndex)
      BY <2>1
    <3>3. local.textStarted = r.textStarted
      BY <3>1 DEF ReasoningAdded
    <3>. HIDE DEF A, r, n
    <3>. QED BY <1>2, <1>3, <3>1, <3>2, <3>3, ReasoningAnnounced
  <2>2. CASE chunk.reasoning = FALSE
    <3>1. A = <<>> /\ r = local
      BY <2>2 DEF AfterReasoning
    <3>. HIDE DEF A, r
    <3>. QED BY <1>3, <3>1
  <2>. QED BY <1>2, <2>1, <2>2, Zenon
<1>5. B \in Seq(Events) /\ TracedText((events \o A) \o B, c)
  <2>1. CASE chunk.content = TRUE
    <3>1. ContentAdded(r, n, c) /\ ContentAt' # {}
      BY <1>2, <2>1
    <3>2. B = Announce(r.textStarted, MessageItem, c.textOutputIndex)
      BY <1>4, <2>1
    <3>. HIDE DEF A, B, c, r, n
    <3>. QED BY <1>2, <1>4, <3>1, <3>2, ContentAnnounced
  <2>2. CASE chunk.content = FALSE
    <3>1. B = <<>> /\ c = r
      BY <2>2 DEF AfterContent
    <3>2. events \o A \in Seq(Events)
      BY <1>4 DEF TracedText, Traced
    <3>. HIDE DEF A, B, c, r
    <3>. QED BY <1>4, <3>1, <3>2
  <2>. QED BY <1>2, <2>1, <2>2, Zenon
<1>. HIDE DEF A, B, c, r, n
<1>6. events \o (A \o B) = (events \o A) \o B
  BY <1>3, <1>4, <1>5
<1>7. \A o : OpenedAs(c, o) => OpenedAs(local', o)
  BY <1>2 DEF OpenedAs
<1>. QED BY <1>1, <1>5, <1>6, <1>7 DEF TracedText

\* Closing an open item.
LEMMA ItemClosed ==
  ASSUME NEW es, NEW o, NEW d, Traced(es, o, d), NEW item \in DOMAIN o, item \notin d,
         NEW new, new = Close(item, o[item]), NEW b, b = d \cup {item}
  PROVE  new \in Seq(Events) /\ Traced(es \o new, o, b)
<1>. DEFINE x == Event("text.done", item, o[item])
            y == Event("part.done", item, o[item])
            z == Event("item.done", item, o[item])
            es1 == Append(es, x)
            es2 == Append(es1, y)
<1>1. x \in Events /\ y \in Events /\ z \in Events
  <2>1. item \in Items /\ o[item] \in Nat
    BY DEF Traced, Places
  <2>. QED BY <2>1 DEF Event, Events, Whats
<1>2. es \in Seq(Events)
  BY DEF Traced
<1>3. {"text.done", "part.done"} \subseteq Whats \ (Ended \cup {"item.added", "item.done"})
  BY DEF Whats, Ended
<1>4. new = <<x, y, z>>
  BY DEF Close
<1>5. x = Event("text.done", item, o[item]) /\ y = Event("part.done", item, o[item])
      /\ z = Event("item.done", item, o[item])
  OBVIOUS
<1>. HIDE DEF x, y, z
<1>6. new \in Seq(Events) /\ es \o new = Append(es2, z)
  <2>1. <<x, y, z>> \in Seq(Events)
    BY <1>1
  <2>2. es \o <<x, y, z>> = Append(Append(Append(es, x), y), z)
    BY <1>1, <1>2
  <2>. QED BY <1>4, <2>1, <2>2
<1>7. Traced(es1, o, d)
  BY <1>3, <1>5, TellOfItem
<1>. HIDE DEF es1
<1>8. Traced(es2, o, d)
  BY <1>3, <1>5, <1>7, TellOfItem
<1>. HIDE DEF es2
<1>9. Traced(es \o new, o, b)
  BY <1>5, <1>6, <1>8, DoneItem
<1>. QED BY <1>6, <1>9

\* Closing all of them.
LEMMA ClosingTells ==
  ASSUME NEW R, NEW C, NEW l, Texts(l, R, C), NEW es, NEW o, Traced(es, o, {}), OpenedAs(l, o),
         NEW new, new = Closing(l)
  PROVE  new \in Seq(Events) /\ Traced(es \o new, o, DOMAIN o)
<1>. DEFINE A == IF l.reasoningStarted THEN Close(ReasoningItem, l.reasoningOutputIndex) ELSE <<>>
            B == IF l.textStarted THEN Close(MessageItem, l.textOutputIndex) ELSE <<>>
            d == {ReasoningItem} \cap DOMAIN o
<1>1. new = A \o B
  BY DEF Closing
<1>2. es \in Seq(Events)
  BY DEF Traced
<1>3. /\ l.reasoningStarted = TRUE \/ l.reasoningStarted = FALSE
      /\ l.textStarted = TRUE \/ l.textStarted = FALSE
  BY DEF Texts
<1>4. /\ l.reasoningStarted = TRUE =>
           ReasoningItem \in DOMAIN o /\ o[ReasoningItem] = l.reasoningOutputIndex
      /\ l.reasoningStarted = FALSE => ReasoningItem \notin DOMAIN o
      /\ l.textStarted = TRUE =>
           MessageItem \in DOMAIN o /\ o[MessageItem] = l.textOutputIndex
      /\ l.textStarted = FALSE => MessageItem \notin DOMAIN o
  BY DEF OpenedAs
<1>5. A \in Seq(Events) /\ Traced(es \o A, o, d)
  <2>1. CASE l.reasoningStarted = TRUE
    <3>1. ReasoningItem \in DOMAIN o /\ A = Close(ReasoningItem, o[ReasoningItem])
      BY <1>4, <2>1
    <3>2. d = {} \cup {ReasoningItem} /\ ReasoningItem \notin {}
      BY <3>1
    <3>. HIDE DEF A, d
    <3>. QED BY <3>1, <3>2, ItemClosed
  <2>2. CASE l.reasoningStarted = FALSE
    <3>1. d = {} /\ A = <<>>
      BY <1>4, <2>2
    <3>. HIDE DEF A, d
    <3>. QED BY <1>2, <3>1
  <2>. QED BY <1>3, <2>1, <2>2
<1>6. B \in Seq(Events) /\ Traced((es \o A) \o B, o, DOMAIN o)
  <2>0. DOMAIN o = {ReasoningItem, MessageItem} \cap DOMAIN o
    BY Zenon DEF OpenedAs
  <2>1. CASE l.textStarted = TRUE
    <3>1. MessageItem \in DOMAIN o /\ B = Close(MessageItem, o[MessageItem])
      BY <1>4, <2>1
    <3>2. MessageItem \notin d
      BY ItemsDiffer
    <3>3. DOMAIN o = d \cup {MessageItem}
      BY <2>0, <3>1
    <3>. HIDE DEF A, B, d
    <3>. QED BY <1>5, <3>1, <3>2, <3>3, ItemClosed
  <2>2. CASE l.textStarted = FALSE
    <3>1. B = <<>>
      BY <2>2
    <3>2. d = DOMAIN o
      BY <1>4, <2>0, <2>2
    <3>3. es \o A \in Seq(Events)
      BY <1>5 DEF Traced
    <3>. HIDE DEF A, B, d
    <3>. QED BY <1>5, <3>1, <3>2, <3>3
  <2>. QED BY <1>3, <2>1, <2>2
<1>. HIDE DEF A, B, d
<1>7. es \o (A \o B) = (es \o A) \o B /\ A \o B \in Seq(Events)
  BY <1>2, <1>5, <1>6
<1>. QED BY <1>1, <1>6, <1>7

\* The items of an output are at their indexes, and no others were told of.
Placed(o, output) ==
  /\ \A p \in DOMAIN output : ItemOf(output[p]) \in DOMAIN o /\ o[ItemOf(output[p])] = p - 1
  /\ \A i \in DOMAIN o : \E p \in DOMAIN output : ItemOf(output[p]) = i

LEMMA ItemsOf ==
  ASSUME NEW a, NEW b, NEW c, NEW d
  PROVE  /\ ItemOf(Reasoning(a)) = ReasoningItem
         /\ ItemOf(Message(a, b, c, d)) = MessageItem
         /\ ItemOf(CallItem(a, b, c)) = Call(a.id)
BY DEF ItemOf, IsToolCallItem, Reasoning, Message, CallItem, WithArguments

LEMMA TextItemsPlaced ==
  ASSUME NEW R, NEW C, NEW l, Texts(l, R, C), NEW o, OpenedAs(l, o), NEW turn,
         NEW texts, texts = TextItems(l, turn)
  PROVE  (\E S : texts \in Seq(S)) /\ Placed(o, texts)
<1>. DEFINE r == Reasoning(l.reasoning)
            m == Message("assistant", l.content, l.reasoning, turn)
<1>1. ItemOf(r) = ReasoningItem /\ ItemOf(m) = MessageItem
  BY ItemsOf
<1>2. /\ l.reasoningStarted = TRUE \/ l.reasoningStarted = FALSE
      /\ l.textStarted = TRUE \/ l.textStarted = FALSE
  BY DEF Texts
<1>3. /\ l.reasoningStarted = TRUE =>
           ReasoningItem \in DOMAIN o /\ o[ReasoningItem] = l.reasoningOutputIndex
      /\ l.reasoningStarted = FALSE => ReasoningItem \notin DOMAIN o
      /\ l.textStarted = TRUE =>
           MessageItem \in DOMAIN o /\ o[MessageItem] = l.textOutputIndex
      /\ l.textStarted = FALSE => MessageItem \notin DOMAIN o
  BY DEF OpenedAs
<1>4. DOMAIN o = {ReasoningItem, MessageItem} \cap DOMAIN o
  BY Zenon DEF OpenedAs
<1>5. texts = LET reasoning == IF l.reasoningStarted THEN <<r>> ELSE <<>>
                  message == IF l.textStarted THEN <<m>> ELSE <<>>
              IN  IF l.textStarted /\ l.reasoningOutputIndex > l.textOutputIndex
                    THEN message \o reasoning ELSE reasoning \o message
  BY DEF TextItems
<1>. HIDE DEF r, m
<1>6. CASE l.reasoningStarted = FALSE /\ l.textStarted = FALSE
  <2>1. texts = <<>> \o <<>>
    BY <1>5, <1>6
  <2>2. texts = <<>>
    BY <2>1
  <2>3. DOMAIN o = {}
    BY <1>3, <1>4, <1>6
  <2>4. texts \in Seq({})
    BY <2>2
  <2>. QED BY <2>2, <2>3, <2>4 DEF Placed
<1>7. CASE l.reasoningStarted = TRUE /\ l.textStarted = FALSE
  <2>1. texts = <<r>> \o <<>>
    BY <1>5, <1>7
  <2>2. texts = <<r>>
    BY <2>1
  <2>3. DOMAIN o = {ReasoningItem} /\ o[ReasoningItem] = l.reasoningOutputIndex
    BY <1>3, <1>4, <1>7
  <2>4. l.reasoningOutputIndex = 0
    BY <1>7 DEF Texts, First
  <2>5. texts \in Seq({r}) /\ DOMAIN texts = {1} /\ texts[1] = r
    BY <2>2
  <2>. QED BY <1>1, <2>3, <2>4, <2>5 DEF Placed
<1>8. CASE l.reasoningStarted = FALSE /\ l.textStarted = TRUE
  <2>1. texts = <<>> \o <<m>> \/ texts = <<m>> \o <<>>
    BY <1>5, <1>8
  <2>2. texts = <<m>>
    BY <2>1
  <2>3. DOMAIN o = {MessageItem} /\ o[MessageItem] = l.textOutputIndex
    BY <1>3, <1>4, <1>8
  <2>4. l.textOutputIndex = 0
    BY <1>8 DEF Texts
  <2>5. texts \in Seq({m}) /\ DOMAIN texts = {1} /\ texts[1] = m
    BY <2>2
  <2>. QED BY <1>1, <2>3, <2>4, <2>5 DEF Placed
<1>9. CASE l.reasoningStarted = TRUE /\ l.textStarted = TRUE
  <2>1. DOMAIN o = {ReasoningItem, MessageItem} /\ o[ReasoningItem] = l.reasoningOutputIndex
        /\ o[MessageItem] = l.textOutputIndex
    BY <1>3, <1>4, <1>9
  <2>2. CASE l.reasoningOutputIndex = 1 /\ l.textOutputIndex = 0
    <3>1. texts = <<m>> \o <<r>>
      BY <1>5, <1>9, <2>2
    <3>3. texts \in Seq({m, r}) /\ DOMAIN texts = {1, 2} /\ texts[1] = m /\ texts[2] = r
      BY <3>1, TwoPieces
    <3>. QED BY <1>1, <2>1, <2>2, <3>3 DEF Placed
  <2>3. CASE l.reasoningOutputIndex = 0 /\ l.textOutputIndex = 1
    <3>1. texts = <<r>> \o <<m>>
      BY <1>5, <1>9, <2>3
    <3>3. texts \in Seq({r, m}) /\ DOMAIN texts = {1, 2} /\ texts[1] = r /\ texts[2] = m
      BY <3>1, TwoPieces
    <3>. QED BY <1>1, <2>1, <2>3, <3>3 DEF Placed
  <2>. QED BY <1>9, <2>2, <2>3 DEF Texts
<1>. QED BY <1>2, <1>6, <1>7, <1>8, <1>9

-----------------------------------------------------------------------------
(* The events of the calls.                                                *)

CallAdded(calls, first, n) == Event("item.added", Call(calls[n].id), first + n - 1)
CallDone(calls, first, n) == Event("item.done", Call(calls[n].id), first + n - 1)

\* The k-th of the events is about the n-th call.
OfCall(calls, first, ce, k, n) ==
  \/ k = 2 * n - 1 /\ ce[k] = CallAdded(calls, first, n)
  \/ k = 2 * n /\ ce[k] = CallDone(calls, first, n)

LEMMA CallEventAt ==
  ASSUME NEW K \in Nat, NEW calls, Len(calls) = K, NEW first \in Nat,
         NEW ce, ce = CallEvents(calls, first), NEW n \in 1..K,
         NEW a, a = 2 * n - 1, NEW b, b = 2 * n
  PROVE  /\ a \in 1..(2 * K) /\ ce[a] = CallAdded(calls, first, n)
         /\ b \in 1..(2 * K) /\ ce[b] = CallDone(calls, first, n)
<1>1. ce = [ k \in 1..(2 * K) |->
               Event(IF k % 2 = 1 THEN "item.added" ELSE "item.done",
                     Call(calls[(k + 1) \div 2].id), first + (k - 1) \div 2) ]
  BY DEF CallEvents
<1>2. /\ a \in 1..(2 * K) /\ b \in 1..(2 * K) /\ a % 2 = 1 /\ b % 2 # 1
      /\ (a + 1) \div 2 = n /\ (b + 1) \div 2 = n
      /\ first + (a - 1) \div 2 = first + n - 1 /\ first + (b - 1) \div 2 = first + n - 1
  OBVIOUS
<1>3. ce[a] = CallAdded(calls, first, n)
  BY <1>1, <1>2 DEF CallAdded
<1>4. ce[b] = CallDone(calls, first, n)
  BY <1>1, <1>2 DEF CallDone
<1>. QED BY <1>2, <1>3, <1>4

LEMMA CallEventsAre ==
  ASSUME NEW K \in Nat, NEW calls, Len(calls) = K, NEW first \in Nat,
         NEW ce, ce = CallEvents(calls, first)
  PROVE  /\ DOMAIN ce = 1..(2 * K)
         /\ \A k \in 1..(2 * K) : \E n \in 1..K : OfCall(calls, first, ce, k, n)
<1>1. DOMAIN ce = 1..(2 * K)
  BY DEF CallEvents
<1>2. ASSUME NEW k \in 1..(2 * K)
      PROVE  \E n \in 1..K : OfCall(calls, first, ce, k, n)
  <2>. DEFINE n == (k + 1) \div 2
              a == 2 * n - 1
              b == 2 * n
  <2>1. n \in 1..K /\ (k = a \/ k = b)
    OBVIOUS
  <2>2. a = 2 * n - 1 /\ b = 2 * n
    OBVIOUS
  <2>. HIDE DEF n, a, b
  <2>3. ce[a] = CallAdded(calls, first, n) /\ ce[b] = CallDone(calls, first, n)
    BY <2>1, <2>2, CallEventAt
  <2>. QED BY <2>1, <2>2, <2>3 DEF OfCall
<1>. QED BY <1>1, <1>2

\* Calls with ids of their own.
Calls(calls, K) ==
  /\ DOMAIN calls = 1..K /\ Len(calls) = K
  /\ \A n \in 1..K : calls[n].id \in Nat
  /\ \A m, n \in 1..K : calls[m].id = calls[n].id => m = n

\* Event e is about the n-th call.
AboutCall(e, calls, first, n) ==
  /\ e \in Events /\ e.what \in {"item.added", "item.done"} /\ e.what \notin Ended
  /\ e.item = Call(calls[n].id) /\ e.index = first + n - 1
  /\ Added(e) = CallAdded(calls, first, n)

LEMMA CallAddedFacts ==
  ASSUME NEW K \in Nat, NEW calls, Calls(calls, K), NEW first \in Nat, NEW n \in 1..K,
         NEW e, e = CallAdded(calls, first, n)
  PROVE  AboutCall(e, calls, first, n) /\ e.what = "item.added"
<1>1. Call(calls[n].id) \in Items /\ first + n - 1 \in Nat
  BY DEF Calls, Items
<1>2. e \in Events
  BY <1>1 DEF Events, Event, Whats, CallAdded
<1>3. e.what = "item.added" /\ e.item = Call(calls[n].id) /\ e.index = first + n - 1
  BY DEF Event, CallAdded
<1>4. Added(e) = CallAdded(calls, first, n)
  BY <1>3 DEF Added, CallAdded
<1>. QED BY <1>2, <1>3, <1>4 DEF AboutCall, Ended

LEMMA CallDoneFacts ==
  ASSUME NEW K \in Nat, NEW calls, Calls(calls, K), NEW first \in Nat, NEW n \in 1..K,
         NEW e, e = CallDone(calls, first, n)
  PROVE  AboutCall(e, calls, first, n) /\ e.what = "item.done"
<1>1. Call(calls[n].id) \in Items /\ first + n - 1 \in Nat
  BY DEF Calls, Items
<1>2. e \in Events
  BY <1>1 DEF Events, Event, Whats, CallDone
<1>3. e.what = "item.done" /\ e.item = Call(calls[n].id) /\ e.index = first + n - 1
  BY DEF Event, CallDone
<1>4. Added(e) = CallAdded(calls, first, n)
  BY <1>3 DEF Added, CallAdded
<1>. QED BY <1>2, <1>3, <1>4 DEF AboutCall, Ended

LEMMA CallEventIs ==
  ASSUME NEW K \in Nat, NEW calls, Calls(calls, K), NEW first \in Nat,
         NEW ce, ce = CallEvents(calls, first), NEW k, k \in 1..(2 * K)
  PROVE  \E n \in 1..K : OfCall(calls, first, ce, k, n) /\ AboutCall(ce[k], calls, first, n)
<1>0. Len(calls) = K
  BY DEF Calls
<1>1. PICK n \in 1..K : OfCall(calls, first, ce, k, n)
  BY <1>0, CallEventsAre
<1>2. ce[k] = CallAdded(calls, first, n) \/ ce[k] = CallDone(calls, first, n)
  BY <1>1, Zenon DEF OfCall
<1>3. AboutCall(ce[k], calls, first, n)
  BY <1>2, CallAddedFacts, CallDoneFacts
<1>. QED BY <1>1, <1>3

\* An event of a call fits after what is said of an earlier call, and a call is
\* done after it is added.
LEMMA CallEventsFit ==
  ASSUME NEW K \in Nat, NEW calls, Calls(calls, K), NEW first \in Nat,
         NEW ce, ce = CallEvents(calls, first),
         NEW j, j \in 1..(2 * K), NEW k, k \in 1..(2 * K), j < k
  PROVE  Fits(ce[j], ce[k])
<1>1. PICK m \in 1..K : OfCall(calls, first, ce, j, m) /\ AboutCall(ce[j], calls, first, m)
  BY CallEventIs
<1>2. PICK n \in 1..K : OfCall(calls, first, ce, k, n) /\ AboutCall(ce[k], calls, first, n)
  BY CallEventIs
<1>3. /\ ce[j].what \notin Ended /\ ce[j].item = Call(calls[m].id) /\ ce[j].index = first + m - 1
      /\ ce[k].item = Call(calls[n].id) /\ ce[k].index = first + n - 1
  BY <1>1, <1>2 DEF AboutCall
<1>4. ce[j].item = ce[k].item => m = n
  <2>1. ASSUME ce[j].item = ce[k].item PROVE m = n
    <3>1. Call(calls[m].id) = Call(calls[n].id)
      BY <1>3, <2>1
    <3>2. calls[m].id = calls[n].id
      BY <3>1, ItemsDiffer, Zenon
    <3>. QED BY <3>2 DEF Calls
  <2>. QED BY <2>1
<1>5. m = n => ce[j].what = "item.added" /\ ce[k].what = "item.done"
  <2>1. ASSUME m = n PROVE ce[j] = CallAdded(calls, first, m) /\ ce[k] = CallDone(calls, first, n)
    <3>1. j # 2 * m /\ k # 2 * n - 1
      BY <1>1, <1>2, <2>1 DEF OfCall
    <3>. QED BY <1>1, <1>2, <3>1 DEF OfCall
  <2>. QED BY <2>1, CallAddedFacts, CallDoneFacts
<1>6. m # n => ce[j].index # ce[k].index
  BY <1>3
<1>. QED BY <1>3, <1>4, <1>5, <1>6 DEF Fits

Unended(es) == \A k \in DOMAIN es : es[k].what \notin Ended

\* What is done is the items of o and the calls, at their indexes.
DoneWith(es, o, calls, first) ==
  \A e : (\E k \in DOMAIN es : es[k] = e) /\ e.what = "item.done" <=>
           \/ \E i \in DOMAIN o : e = Event("item.done", i, o[i])
           \/ \E n \in DOMAIN calls : e = CallDone(calls, first, n)

\* all is es and then ce, of lengths N and M.
JoinOf(all, es, N, ce, M) ==
  /\ DOMAIN all = 1..(N + M)
  /\ \A k \in 1..N : all[k] = es[k]
  /\ \A k \in 1..M : all[N + k] = ce[k]
  /\ \A k \in 1..(N + M) : k \in 1..N \/ \E m \in 1..M : k = N + m

LEMMA JoinIs ==
  ASSUME NEW S, NEW es \in Seq(S), NEW ce \in Seq(S), NEW all, all = es \o ce
  PROVE  all \in Seq(S) /\ JoinOf(all, es, Len(es), ce, Len(ce))
<1>1. all \in Seq(S)
  OBVIOUS
<1>2. DOMAIN all = 1..(Len(es) + Len(ce))
  OBVIOUS
<1>3. \A k \in 1..Len(es) : all[k] = es[k]
  OBVIOUS
<1>4. \A k \in 1..Len(ce) : all[Len(es) + k] = ce[k]
  OBVIOUS
<1>5. \A k \in 1..(Len(es) + Len(ce)) : k \in 1..Len(es) \/ \E m \in 1..Len(ce) : k = Len(es) + m
  OBVIOUS
<1>. QED BY <1>1, <1>2, <1>3, <1>4, <1>5 DEF JoinOf

\* ce are the events of the K calls, M of them.
CallsSay(ce, M, calls, K, first) ==
  /\ K \in Nat /\ Calls(calls, K) /\ first \in Nat
  /\ ce = CallEvents(calls, first) /\ M = 2 * K

LEMMA CallEventsTyped ==
  ASSUME NEW K, NEW calls, NEW first, NEW ce, NEW M, CallsSay(ce, M, calls, K, first)
  PROVE  /\ M \in Nat /\ ce \in Seq(Events) /\ Len(ce) = M
         /\ \A k \in 1..M : \E n \in 1..K : AboutCall(ce[k], calls, first, n)
<1>. /\ K \in Nat /\ Calls(calls, K) /\ first \in Nat
     /\ ce = CallEvents(calls, first) /\ M = 2 * K
  BY DEF CallsSay
<1>0. Len(calls) = K /\ M \in Nat
  BY DEF Calls
<1>1. ce = [k \in DOMAIN ce |-> ce[k]]
  BY DEF CallEvents
<1>2. DOMAIN ce = 1..M
  BY <1>0, CallEventsAre
<1>3. \A k \in 1..M : \E n \in 1..K : AboutCall(ce[k], calls, first, n)
  BY CallEventIs
<1>4. ce \in [1..M -> Events]
  <2>1. \A k \in 1..M : ce[k] \in Events
    BY <1>3 DEF AboutCall
  <2>. QED BY <1>1, <1>2, <2>1, Zenon
<1>5. ce \in Seq(Events) /\ Len(ce) = M
  <2>1. ce \in Seq(Events)
    BY <1>0, <1>4
  <2>. QED BY <1>0, <1>2, <2>1
<1>. QED BY <1>0, <1>3, <1>5

\* They fit among themselves, and before an event of a call there is the one that
\* adds the call.
LEMMA CallEventsFollow ==
  ASSUME NEW K, NEW calls, NEW first, NEW ce, NEW M, CallsSay(ce, M, calls, K, first)
  PROVE  /\ \A j, k \in 1..M : j < k => Fits(ce[j], ce[k])
         /\ \A k \in 1..M : \E m \in 1..M : m <= k /\ ce[m] = Added(ce[k])
<1>. /\ K \in Nat /\ Calls(calls, K) /\ first \in Nat
     /\ ce = CallEvents(calls, first) /\ M = 2 * K
  BY DEF CallsSay
<1>1. \A j, k \in 1..M : j < k => Fits(ce[j], ce[k])
  BY CallEventsFit
<1>2. ASSUME NEW k \in 1..M PROVE \E m \in 1..M : m <= k /\ ce[m] = Added(ce[k])
  <2>1. PICK n \in 1..K : OfCall(calls, first, ce, k, n) /\ AboutCall(ce[k], calls, first, n)
    BY CallEventIs
  <2>. DEFINE m == 2 * n - 1
              b == 2 * n
  <2>2. m <= k
    BY <2>1 DEF OfCall
  <2>3. m = 2 * n - 1 /\ b = 2 * n
    OBVIOUS
  <2>. HIDE DEF m, b
  <2>4. m \in 1..(2 * K) /\ ce[m] = CallAdded(calls, first, n)
    BY <2>3, CallEventAt DEF Calls
  <2>. QED BY <2>1, <2>2, <2>4 DEF AboutCall
<1>. QED BY <1>1, <1>2

\* What they say is done is the calls.
LEMMA CallsAreDone ==
  ASSUME NEW K, NEW calls, NEW first, NEW ce, NEW M, CallsSay(ce, M, calls, K, first)
  PROVE  \A e : (\E k \in 1..M : ce[k] = e) /\ e.what = "item.done"
                  <=> \E n \in 1..K : e = CallDone(calls, first, n)
<1>. /\ K \in Nat /\ Calls(calls, K) /\ first \in Nat
     /\ ce = CallEvents(calls, first) /\ M = 2 * K
  BY DEF CallsSay
<1>. TAKE e
<1>1. ASSUME NEW k \in 1..M, ce[k] = e, e.what = "item.done"
      PROVE  \E n \in 1..K : e = CallDone(calls, first, n)
  <2>1. PICK n \in 1..K : OfCall(calls, first, ce, k, n)
    BY CallEventIs
  <2>2. ce[k] # CallAdded(calls, first, n)
    BY <1>1, CallAddedFacts
  <2>. QED BY <1>1, <2>1, <2>2, Zenon DEF OfCall
<1>2. ASSUME NEW n \in 1..K, e = CallDone(calls, first, n)
      PROVE  (\E k \in 1..M : ce[k] = e) /\ e.what = "item.done"
  <2>. DEFINE a == 2 * n - 1
              b == 2 * n
  <2>1. a = 2 * n - 1 /\ b = 2 * n
    OBVIOUS
  <2>. HIDE DEF a, b
  <2>2. b \in 1..(2 * K) /\ ce[b] = CallDone(calls, first, n)
    BY <2>1, CallEventAt DEF Calls
  <2>3. e.what = "item.done"
    BY <1>2, CallDoneFacts
  <2>. QED BY <1>2, <2>2, <2>3
<1>. QED BY <1>1, <1>2

LEMMA CallsTold ==
  ASSUME NEW es, NEW o, Traced(es, o, DOMAIN o),
         NEW K, NEW calls, NEW first, NEW ce, NEW M, CallsSay(ce, M, calls, K, first),
         \A i \in DOMAIN o : o[i] < first, \A id : Call(id) \notin DOMAIN o,
         NEW all, all = es \o ce
  PROVE  /\ all \in Seq(Events) /\ Followable(all) /\ Unended(all)
         /\ DoneWith(all, o, calls, first)
<1>. DEFINE N == Len(es)
<1>0. K \in Nat /\ DOMAIN calls = 1..K /\ first \in Nat
  BY DEF CallsSay, Calls
<1>1. /\ M \in Nat /\ ce \in Seq(Events) /\ Len(ce) = M
      /\ \A k \in 1..M : \E n \in 1..K : AboutCall(ce[k], calls, first, n)
  BY CallEventsTyped
<1>2. es \in Seq(Events) /\ Followable(es) /\ Told(es, o, DOMAIN o) /\ Places(o)
  BY DEF Traced
<1>3. \A j, k \in 1..M : j < k => Fits(ce[j], ce[k])
  BY CallEventsFollow
<1>4. \A k \in 1..M : \E m \in 1..M : m <= k /\ ce[m] = Added(ce[k])
  BY CallEventsFollow
<1>5. /\ all \in Seq(Events) /\ N \in Nat /\ DOMAIN es = 1..N /\ DOMAIN all = 1..(N + M)
      /\ \A k \in 1..N : all[k] = es[k]
      /\ \A k \in 1..M : N + k \in 1..(N + M) /\ all[N + k] = ce[k]
      /\ \A k \in 1..(N + M) : k \in 1..N \/ \E m \in 1..M : k = N + m
  <2>1. all \in Seq(Events) /\ JoinOf(all, es, Len(es), ce, Len(ce))
    BY <1>1, <1>2, JoinIs
  <2>2. N \in Nat /\ DOMAIN es = 1..N
    BY <1>2
  <2>3. JoinOf(all, es, N, ce, M)
    BY <1>1, <2>1
  <2>. HIDE DEF N
  <2>4. \A k \in 1..M : N + k \in 1..(N + M)
    BY <1>1, <2>2
  <2>. QED BY <2>1, <2>2, <2>3, <2>4 DEF JoinOf
<1>. HIDE DEF N
<1>6. ASSUME NEW j \in 1..N, NEW k \in 1..M PROVE Fits(es[j], ce[k])
  <2>1. /\ es[j].what \notin Ended
        /\ es[j].item # <<>> => es[j].item \in DOMAIN o /\ es[j].index = o[es[j].item]
    BY <1>2, <1>5 DEF Told
  <2>2. PICK n \in 1..K : AboutCall(ce[k], calls, first, n)
    BY <1>1
  <2>3. es[j].item # ce[k].item
    BY <2>1, <2>2, ItemsDiffer DEF AboutCall
  <2>4. es[j].item # <<>> => es[j].index < first /\ es[j].index \in Nat
    BY <1>2, <2>1 DEF Places
  <2>5. ce[k].index >= first /\ ce[k].index \in Nat
    BY <1>0, <2>2 DEF AboutCall
  <2>6. es[j].item # <<>> => es[j].index # ce[k].index
    BY <1>0, <2>4, <2>5
  <2>. QED BY <2>1, <2>3, <2>6 DEF Fits
<1>7. Followable(all)
  <2>1. ASSUME NEW n \in 1..N
        PROVE  /\ \A k \in 1..(n - 1) : Fits(all[k], all[n])
               /\ all[n].item # <<>> => \E k \in 1..n : all[k] = Added(all[n])
    <3>1. \A k \in 1..n : k \in 1..N /\ all[k] = es[k]
      BY <1>5
    <3>2. /\ \A k \in 1..(n - 1) : Fits(es[k], es[n])
          /\ es[n].item # <<>> => \E k \in 1..n : es[k] = Added(es[n])
      BY <1>2, <1>5 DEF Followable
    <3>3. \A k \in 1..(n - 1) : k \in 1..n
      BY <1>5
    <3>4. n \in 1..n
      BY <1>5
    <3>. QED BY <3>1, <3>2, <3>3, <3>4
  <2>2. ASSUME NEW m \in 1..M, NEW n, n = N + m
        PROVE  /\ \A k \in 1..(n - 1) : Fits(all[k], all[n])
               /\ all[n].item # <<>> => \E k \in 1..n : all[k] = Added(all[n])
    <3>1. all[n] = ce[m]
      BY <1>5, <2>2
    <3>2. ASSUME NEW k \in 1..(n - 1) PROVE Fits(all[k], all[n])
      <4>1. k \in 1..(N + M)
        BY <1>1, <1>5, <2>2
      <4>2. CASE k \in 1..N
        <5>1. all[k] = es[k]
          BY <1>5, <4>2
        <5>. QED BY <1>6, <3>1, <4>2, <5>1
      <4>3. ASSUME NEW j \in 1..M, k = N + j PROVE Fits(all[k], all[n])
        <5>0. j < m
          BY <1>1, <1>5, <2>2, <4>3
        <5>1. all[k] = ce[j] /\ j < m
          BY <1>5, <4>3, <5>0
        <5>. QED BY <1>3, <3>1, <5>1
      <4>. QED BY <1>5, <4>1, <4>2, <4>3
    <3>3. PICK j \in 1..M : j <= m /\ ce[j] = Added(ce[m])
      BY <1>4
    <3>4. all[N + j] = Added(all[n])
      <4>1. all[N + j] = ce[j]
        BY <1>5
      <4>. QED BY <3>1, <3>3, <4>1
    <3>5. N + j \in 1..n
      BY <1>1, <1>5, <2>2, <3>3
    <3>. QED BY <3>2, <3>4, <3>5
  <2>3. \A n \in 1..(N + M) :
          /\ \A k \in 1..(n - 1) : Fits(all[k], all[n])
          /\ all[n].item # <<>> => \E k \in 1..n : all[k] = Added(all[n])
    BY <1>5, <2>1, <2>2
  <2>. QED BY <1>5, <2>3 DEF Followable
<1>8. Unended(all)
  <2>1. ASSUME NEW k \in DOMAIN all PROVE all[k].what \notin Ended
    <3>1. CASE k \in 1..N
      BY <1>2, <1>5, <3>1 DEF Told
    <3>2. CASE \E m \in 1..M : k = N + m
      BY <1>1, <1>5, <3>2 DEF AboutCall
    <3>. QED BY <1>5, <3>1, <3>2
  <2>. QED BY <2>1 DEF Unended
<1>9. \A e : (\E k \in DOMAIN all : all[k] = e)
               <=> (\E k \in 1..N : es[k] = e) \/ \E k \in 1..M : ce[k] = e
  <2>. TAKE e
  <2>1. ASSUME NEW k \in DOMAIN all, all[k] = e
        PROVE  (\E j \in 1..N : es[j] = e) \/ \E j \in 1..M : ce[j] = e
    <3>1. CASE k \in 1..N
      BY <1>5, <2>1, <3>1
    <3>2. CASE \E m \in 1..M : k = N + m
      BY <1>5, <2>1, <3>2
    <3>. QED BY <1>5, <3>1, <3>2
  <2>2. ASSUME NEW k \in 1..N, es[k] = e PROVE \E j \in DOMAIN all : all[j] = e
    <3>1. k \in DOMAIN all
      BY <1>1, <1>5
    <3>. QED BY <1>5, <2>2, <3>1
  <2>3. ASSUME NEW k \in 1..M, ce[k] = e PROVE \E j \in DOMAIN all : all[j] = e
    BY <1>5, <2>3
  <2>. QED BY <2>1, <2>2, <2>3
<1>10. \A e : (\E k \in 1..N : es[k] = e) /\ e.what = "item.done"
               <=> \E i \in DOMAIN o : e = Event("item.done", i, o[i])
  <2>. TAKE e
  <2>1. ASSUME NEW k \in 1..N, es[k] = e, e.what = "item.done"
        PROVE  \E i \in DOMAIN o : e = Event("item.done", i, o[i])
    <3>1. es[k].item \in DOMAIN o /\ es[k].item # <<>>
      BY <1>2, <1>5, <2>1 DEF Told, Places
    <3>2. es[k].index = o[es[k].item]
      BY <1>2, <1>5, <3>1 DEF Told
    <3>3. e \in Events
      BY <1>2, <1>5, <2>1
    <3>4. e = Event("item.done", e.item, e.index)
      BY <2>1, <3>3 DEF Event, Events
    <3>. QED BY <2>1, <3>1, <3>2, <3>4
  <2>2. ASSUME NEW i \in DOMAIN o, e = Event("item.done", i, o[i])
        PROVE  (\E k \in 1..N : es[k] = e) /\ e.what = "item.done"
    <3>1. \E k \in DOMAIN es : es[k] = Event("item.done", i, o[i])
      BY <1>2 DEF Told
    <3>2. e.what = "item.done"
      BY <2>2 DEF Event
    <3>. QED BY <1>5, <2>2, <3>1, <3>2
  <2>. QED BY <2>1, <2>2
<1>11. \A e : (\E k \in 1..M : ce[k] = e) /\ e.what = "item.done"
               <=> \E n \in 1..K : e = CallDone(calls, first, n)
  BY CallsAreDone
<1>12. DOMAIN calls = 1..K
  BY <1>0
<1>13. DoneWith(all, o, calls, first)
  <2>. SUFFICES ASSUME NEW e
                PROVE  (\E k \in DOMAIN all : all[k] = e) /\ e.what = "item.done" <=>
                         \/ \E i \in DOMAIN o : e = Event("item.done", i, o[i])
                         \/ \E n \in 1..K : e = CallDone(calls, first, n)
    BY <1>12 DEF DoneWith
  <2>. DEFINE A == \E k \in DOMAIN all : all[k] = e
              B == \E k \in 1..N : es[k] = e
              C == \E k \in 1..M : ce[k] = e
              w == e.what = "item.done"
              D == \E i \in DOMAIN o : e = Event("item.done", i, o[i])
              E == \E n \in 1..K : e = CallDone(calls, first, n)
  <2>1. A <=> B \/ C
    BY <1>9
  <2>2. B /\ w <=> D
    BY <1>10
  <2>3. C /\ w <=> E
    BY <1>11
  <2>. HIDE DEF A, B, C, D, E, w
  <2>4. A /\ w <=> D \/ E
    BY <2>1, <2>2, <2>3
  <2>. QED BY <2>4 DEF A, w, D, E
<1>. QED BY <1>5, <1>7, <1>8, <1>13

\* The items that are done are those of an output, at their places.
OutputDone(es, output) ==
  { e \in { es[k] : k \in DOMAIN es } : e.what = "item.done" } =
    { Event("item.done", ItemOf(output[p]), p - 1) : p \in DOMAIN output }

LEMMA OutputIsDone ==
  ASSUME NEW es, NEW o, NEW calls, NEW first \in Nat, DoneWith(es, o, calls, first),
         NEW K \in Nat, DOMAIN calls = 1..K,
         NEW texts, DOMAIN texts = 1..first, Placed(o, texts),
         NEW items, \A n \in 1..K : ItemOf(items[n]) = Call(calls[n].id),
         NEW output, JoinOf(output, texts, first, items, K)
  PROVE  OutputDone(es, output)
<1>1. /\ DOMAIN output = 1..(first + K)
      /\ \A p \in 1..first : output[p] = texts[p]
      /\ \A n \in 1..K : output[first + n] = items[n]
      /\ \A p \in 1..(first + K) : p \in 1..first \/ \E n \in 1..K : p = first + n
  BY DEF JoinOf
<1>2. ASSUME NEW i \in DOMAIN o, NEW e, e = Event("item.done", i, o[i])
      PROVE  \E p \in DOMAIN output : e = Event("item.done", ItemOf(output[p]), p - 1)
  <2>1. PICK p \in 1..first : ItemOf(texts[p]) = i
    BY DEF Placed
  <2>2. o[i] = p - 1 /\ output[p] = texts[p] /\ p \in DOMAIN output
    BY <1>1, <2>1 DEF Placed
  <2>. QED BY <1>2, <2>1, <2>2
<1>3. ASSUME NEW n \in 1..K, NEW e, e = CallDone(calls, first, n)
      PROVE  \E p \in DOMAIN output : e = Event("item.done", ItemOf(output[p]), p - 1)
  <2>. DEFINE p == first + n
  <2>1. p \in DOMAIN output /\ output[p] = items[n] /\ p - 1 = first + n - 1
    BY <1>1
  <2>. HIDE DEF p
  <2>. QED BY <1>3, <2>1 DEF CallDone
<1>4. ASSUME NEW p \in DOMAIN output, NEW e, e = Event("item.done", ItemOf(output[p]), p - 1)
      PROVE  \/ \E i \in DOMAIN o : e = Event("item.done", i, o[i])
             \/ \E n \in DOMAIN calls : e = CallDone(calls, first, n)
  <2>1. CASE p \in 1..first
    <3>1. output[p] = texts[p] /\ ItemOf(texts[p]) \in DOMAIN o /\ o[ItemOf(texts[p])] = p - 1
      BY <1>1, <2>1 DEF Placed
    <3>. QED BY <1>4, <3>1
  <2>2. ASSUME NEW n \in 1..K, p = first + n
        PROVE  e = CallDone(calls, first, n)
    <3>1. output[p] = items[n]
      BY <1>1, <2>2
    <3>2. p - 1 = first + n - 1
      BY <2>2
    <3>3. ItemOf(output[p]) = Call(calls[n].id)
      BY <3>1
    <3>. QED BY <1>4, <3>2, <3>3 DEF CallDone
  <2>. QED BY <1>1, <2>1, <2>2
<1>5. ASSUME NEW e
      PROVE  (\E k \in DOMAIN es : es[k] = e) /\ e.what = "item.done" <=>
               \E p \in DOMAIN output : e = Event("item.done", ItemOf(output[p]), p - 1)
  <2>1. (\E k \in DOMAIN es : es[k] = e) /\ e.what = "item.done" <=>
          \/ \E i \in DOMAIN o : e = Event("item.done", i, o[i])
          \/ \E n \in DOMAIN calls : e = CallDone(calls, first, n)
    BY DEF DoneWith
  <2>2. (\E i \in DOMAIN o : e = Event("item.done", i, o[i])) =>
          \E p \in DOMAIN output : e = Event("item.done", ItemOf(output[p]), p - 1)
    BY <1>2
  <2>3. (\E n \in DOMAIN calls : e = CallDone(calls, first, n)) =>
          \E p \in DOMAIN output : e = Event("item.done", ItemOf(output[p]), p - 1)
    BY <1>3
  <2>4. (\E p \in DOMAIN output : e = Event("item.done", ItemOf(output[p]), p - 1)) =>
          \/ \E i \in DOMAIN o : e = Event("item.done", i, o[i])
          \/ \E n \in DOMAIN calls : e = CallDone(calls, first, n)
    BY <1>4
  <2>. QED BY <2>1, <2>2, <2>3, <2>4
<1>6. \A e : e \in { es[k] : k \in DOMAIN es } <=> \E k \in DOMAIN es : es[k] = e
  OBVIOUS
<1>7. \A e : e \in { Event("item.done", ItemOf(output[p]), p - 1) : p \in DOMAIN output }
               <=> \E p \in DOMAIN output : e = Event("item.done", ItemOf(output[p]), p - 1)
  OBVIOUS
<1>8. ASSUME NEW e
      PROVE  e \in { x \in { es[k] : k \in DOMAIN es } : x.what = "item.done" } <=>
             e \in { Event("item.done", ItemOf(output[p]), p - 1) : p \in DOMAIN output }
  BY <1>5, <1>6, <1>7
<1>. QED BY <1>8 DEF OutputDone

\* What the handler says when it finishes, to a client that is there.
LEMMA FinishTells ==
  ASSUME Gathered, Finish, connected = TRUE, TracedText(events, local)
  PROVE  /\ events' \in Seq(Events) /\ Followable(events') /\ Unended(events')
         /\ \A response \in saved' : OutputDone(events', response.output)
<1>. DEFINE calls == Reached(local.toolCalls)
            turn == IF DOMAIN local.toolCalls = {} THEN 0 ELSE 1
            texts == TextItems(local, turn)
            items == [ n \in DOMAIN calls |->
                         CallItem(calls[n], IF calls[n].id = 0 THEN local.reasoning ELSE <<>>, turn) ]
            first == Len(texts)
            ce == CallEvents(calls, first)
            closing == Closing(local)
            K == Cardinality(ReachedIndexes)
            M == 2 * K
<1>1. /\ events' = events \o (closing \o ce)
      /\ saved' = { [ output |-> texts \o items,
                      status |-> StatusFromFinishReason(local.finishReason) ] }
  BY DEF Finish, Write
<1>2. Texts(local, ReasoningAt, ContentAt) /\ CallsGathered
  BY DEF Gathered
<1>3. K \in Nat /\ Calls(calls, K)
  <2>. HIDE DEF calls, K
  <2>1. calls = Reached(local.toolCalls) /\ K = Cardinality(ReachedIndexes)
    BY DEF calls, K
  <2>2. /\ K \in Nat /\ DOMAIN calls = 1..K /\ Len(calls) = K
        /\ \A n \in 1..K : calls[n].id = InOrder(ReachedIndexes)[n] /\ calls[n].id \in Nat
        /\ \A m, n \in 1..K : calls[m].id = calls[n].id => m = n
    BY <1>2, <2>1, ReachedFacts
  <2>. QED BY <2>2 DEF Calls
<1>4. PICK o : Traced(events, o, {}) /\ OpenedAs(local, o)
  BY DEF TracedText
<1>5. closing \in Seq(Events) /\ Traced(events \o closing, o, DOMAIN o)
  BY <1>2, <1>4, ClosingTells
<1>6. (\E S : texts \in Seq(S)) /\ Placed(o, texts)
  BY <1>2, <1>4, TextItemsPlaced
<1>7. \A n \in 1..K : ItemOf(items[n]) = Call(calls[n].id)
  <2>. TAKE n \in 1..K
  <2>1. DOMAIN calls = 1..K
    BY <1>3 DEF Calls
  <2>. HIDE DEF calls, K
  <2>2. items[n] = CallItem(calls[n], IF calls[n].id = 0 THEN local.reasoning ELSE <<>>, turn)
    BY <2>1
  <2>. HIDE DEF items
  <2>. QED BY <2>2, ItemsOf
<1>8. items \in Seq({ items[n] : n \in 1..K }) /\ Len(items) = K
  <2>1. DOMAIN items = 1..K /\ items = [ n \in DOMAIN items |-> items[n] ]
    BY <1>3 DEF Calls
  <2>. HIDE DEF items, K
  <2>. DEFINE T == { items[n] : n \in 1..K }
  <2>2. items \in [1..K -> T]
    BY <2>1
  <2>. HIDE DEF T
  <2>3. items \in Seq(T)
    BY <1>3, <2>2
  <2>4. Len(items) = K
    BY <1>3, <2>1, <2>3
  <2>. QED BY <2>3, <2>4 DEF T
<1>9. M = 2 * K
  OBVIOUS
<1>. HIDE DEF calls, turn, texts, items, closing, K, M
<1>10. PICK S : texts \in Seq(S)
  BY <1>6
<1>11. first \in Nat /\ DOMAIN texts = 1..first
  BY <1>10
<1>12. CallsSay(ce, M, calls, K, first)
  BY <1>3, <1>9, <1>11 DEF CallsSay
<1>13. ce \in Seq(Events)
  BY <1>12, CallEventsTyped
<1>14. \A i \in DOMAIN o : o[i] < first
  <2>. TAKE i \in DOMAIN o
  <2>1. PICK p \in 1..first : ItemOf(texts[p]) = i
    BY <1>6, <1>11 DEF Placed
  <2>2. o[i] = p - 1
    BY <1>6, <1>11, <2>1 DEF Placed
  <2>. QED BY <1>11, <2>2
<1>15. \A id : Call(id) \notin DOMAIN o
  BY <1>4, ItemsDiffer, Zenon DEF OpenedAs
<1>16. JoinOf(texts \o items, texts, first, items, K)
  <2>. DEFINE T == S \cup { items[n] : n \in 1..K }
  <2>1. texts \in Seq(T)
    BY <1>10
  <2>2. items \in Seq(T)
    BY <1>8
  <2>. HIDE DEF T
  <2>3. JoinOf(texts \o items, texts, Len(texts), items, Len(items))
    BY <2>1, <2>2, JoinIs
  <2>. QED BY <1>8, <2>3
<1>. HIDE DEF ce, first
<1>17. events' = (events \o closing) \o ce
  <2>1. events \in Seq(Events)
    BY <1>4 DEF Traced
  <2>2. events \o (closing \o ce) = (events \o closing) \o ce
    BY <1>5, <1>13, <2>1
  <2>. QED BY <1>1, <2>2
<1>18. /\ events' \in Seq(Events) /\ Followable(events') /\ Unended(events')
       /\ DoneWith(events', o, calls, first)
  BY <1>5, <1>12, <1>14, <1>15, <1>17, CallsTold
<1>19. DOMAIN calls = 1..K
  BY <1>3 DEF Calls
<1>20. OutputDone(events', texts \o items)
  BY <1>3, <1>6, <1>7, <1>11, <1>16, <1>18, <1>19, OutputIsDone
<1>21. \A response \in saved' : response.output = texts \o items
  BY <1>1
<1>. QED BY <1>18, <1>20, <1>21

-----------------------------------------------------------------------------
(* The handler as a whole.                                                 *)

Typed ==
  /\ pc \in {"start", "stream", "complete", "closed"}
  /\ connected \in BOOLEAN
  /\ upstream \in {"open", "ended", "failed"}
  /\ events \in Seq(Events)

\* When a response is saved, and with what.
Kept ==
  /\ pc = "start" => upstream = "open"
  /\ pc \in {"start", "stream"} => saved = {}
  /\ pc = "complete" => saved # {}
  /\ saved # {} => upstream = "ended"
  /\ pc = "closed" /\ upstream = "ended" => saved # {}
  /\ StoredIsTheAnswer

\* What the client was told.
Heard ==
  /\ Followable(events)
  /\ pc # "closed" => Unended(events)
  /\ pc = "start" => events = <<>> /\ local.reasoningStarted = FALSE /\ local.textStarted = FALSE
  /\ pc = "stream" /\ connected = TRUE => TracedText(events, local)
  /\ pc = "complete" /\ connected = TRUE =>
       \A response \in saved : OutputDone(events, response.output)
  /\ \A n \in DOMAIN events :
       /\ events[n].what = "response.completed" =>
            saved # {} /\ \A response \in saved : OutputDone(events, response.output)
       /\ events[n].what = "response.failed" => saved = {}

IInv == Typed /\ Gathered /\ Kept /\ Heard

LEMMA InitIInv == Init => IInv
<1>. SUFFICES ASSUME Init PROVE IInv
  OBVIOUS
<1>1. Gathered
  BY InitGathered
<1>2. events = <<>> /\ DOMAIN events = {} /\ events \in Seq(Events)
  <2>1. events = <<>>
    BY DEF Init
  <2>2. DOMAIN <<>> = {} /\ <<>> \in Seq(Events)
    OBVIOUS
  <2>. QED BY <2>1, <2>2
<1>3. Typed
  BY <1>2 DEF Typed, Init, StreamInit
<1>4. Kept
  BY DEF Kept, StoredIsTheAnswer, Init, StreamInit
<1>5. local.reasoningStarted = FALSE /\ local.textStarted = FALSE
  BY DEF Init
<1>6. Heard
  BY <1>2, <1>5 DEF Heard, Followable, Unended, Init
<1>. QED BY <1>1, <1>3, <1>4, <1>6 DEF IInv

PlainIs(es, what, all) ==
  /\ all \in Seq(Events) /\ Followable(all)
  /\ DOMAIN all = 1..(Len(es) + 1) /\ all[Len(es) + 1].what = what
  /\ \A k \in 1..Len(es) : all[k] = es[k] /\ k \in DOMAIN es

\* An event about no item.
LEMMA PlainAppended ==
  ASSUME NEW es \in Seq(Events), Followable(es), Unended(es), NEW what \in Whats,
         NEW all, all = Append(es, Plain(what))
  PROVE  PlainIs(es, what, all)
<1>. DEFINE e == Plain(what)
<1>1. e \in Events /\ e.item = <<>> /\ e.what = what
  BY DEF Plain, Event, Events, Items
<1>. HIDE DEF e
<1>2. all = Append(es, e)
  BY DEF e
<1>3. \A k \in DOMAIN es : Fits(es[k], e)
  BY <1>1 DEF Fits, Unended
<1>4. Followable(all)
  BY <1>1, <1>2, <1>3, AppendFits
<1>5. /\ all \in Seq(Events) /\ DOMAIN all = 1..(Len(es) + 1) /\ all[Len(es) + 1] = e
      /\ \A k \in 1..Len(es) : all[k] = es[k] /\ k \in DOMAIN es
  BY <1>1, <1>2
<1>. QED BY <1>1, <1>4, <1>5 DEF PlainIs

\* An event without an item changes nothing about what is done.
LEMMA PlainDoneIsSame ==
  ASSUME NEW es \in Seq(Events), NEW what \in Whats, what # "item.done",
         NEW all, all = Append(es, Plain(what)), NEW output, OutputDone(es, output)
  PROVE  OutputDone(all, output)
<1>. DEFINE e == Plain(what)
<1>1. e \in Events /\ e.what = what
  BY DEF Plain, Event, Events, Items
<1>. HIDE DEF e
<1>2. all = Append(es, e)
  BY DEF e
<1>3. /\ \A k \in DOMAIN es : k \in DOMAIN all /\ all[k] = es[k]
      /\ \A k \in DOMAIN all : k \in DOMAIN es \/ all[k] = e
  BY <1>1, <1>2, AppendIs
<1>4. { x \in { all[k] : k \in DOMAIN all } : x.what = "item.done" }
        = { x \in { es[k] : k \in DOMAIN es } : x.what = "item.done" }
  <2>1. ASSUME NEW x, x.what = "item.done"
        PROVE  (\E k \in DOMAIN all : x = all[k]) <=> \E k \in DOMAIN es : x = es[k]
    BY <1>1, <1>3, <2>1
  <2>. QED BY <2>1
<1>. QED BY <1>4 DEF OutputDone

LEMMA GatheredStays ==
  ASSUME Gathered, UNCHANGED <<chunks, local>>
  PROVE  Gathered'
<1>1. /\ ReasoningAt' = ReasoningAt /\ ContentAt' = ContentAt /\ FinishAt' = FinishAt
      /\ CallIndexes' = CallIndexes /\ FinishReason' = FinishReason
  BY DEF ReasoningAt, ContentAt, FinishAt, CallIndexes, FinishReason
<1>2. \A i : CallAt(i)' = CallAt(i)
  BY DEF CallAt
<1>3. CallsGathered'
  BY <1>1, <1>2 DEF Gathered, CallsGathered
<1>. QED BY <1>1, <1>3 DEF Gathered, FinishGathered

LEMMA ChunksStay ==
  ASSUME UNCHANGED chunks
  PROVE  /\ Numbered' = Numbered /\ TextFirst' = TextFirst
         /\ Answer' = Answer /\ FinishReason' = FinishReason /\ StreamedOutput' = StreamedOutput
<1>1. /\ ReasoningAt' = ReasoningAt /\ ContentAt' = ContentAt
      /\ CallIndexes' = CallIndexes /\ FinishReason' = FinishReason
  BY DEF ReasoningAt, ContentAt, FinishAt, CallIndexes, FinishReason
<1>2. Numbered' = Numbered /\ TextFirst' = TextFirst
  BY <1>1 DEF Numbered, TextFirst
<1>3. Answer' = Answer
  BY <1>1 DEF Answer, CallAt
<1>4. StreamedOutput' = StreamedOutput
  BY <1>2, <1>3 DEF StreamedOutput, WholeOutput, MessageFirst
<1>. QED BY <1>1, <1>2, <1>3, <1>4

LEMMA PlainTraced ==
  ASSUME NEW es, NEW o, NEW d, Traced(es, o, d),
         NEW what \in Whats, what \notin Ended \cup {"item.done"},
         NEW all, all = Append(es, Plain(what))
  PROVE  Traced(all, o, d)
<1>. DEFINE e == Plain(what)
<1>1. e \in Events /\ e.item = <<>> /\ e.what = what
  BY DEF Plain, Event, Events, Items
<1>. HIDE DEF e
<1>2. all = Append(es, e)
  BY DEF e
<1>3. /\ es \in Seq(Events) /\ Followable(es) /\ Told(es, o, d) /\ Places(o)
  BY DEF Traced
<1>4. /\ all \in Seq(Events)
      /\ \A k \in DOMAIN es : k \in DOMAIN all /\ all[k] = es[k]
      /\ \A k \in DOMAIN all : k \in DOMAIN es \/ all[k] = e
  BY <1>1, <1>2, <1>3, AppendIs
<1>5. \A k \in DOMAIN es : Fits(es[k], e)
  BY <1>1, <1>3 DEF Fits, Told
<1>6. Followable(all)
  BY <1>1, <1>2, <1>3, <1>5, AppendFits
<1>7. ASSUME NEW k \in DOMAIN all
      PROVE  /\ all[k].what \notin Ended
             /\ all[k].item # <<>> => all[k].item \in DOMAIN o /\ all[k].index = o[all[k].item]
             /\ all[k].what = "item.done" => all[k].item \in d
  <2>1. CASE k \in DOMAIN es
    BY <1>3, <1>4, <2>1 DEF Told
  <2>2. CASE all[k] = e
    BY <1>1, <2>2
  <2>. QED BY <1>4, <2>1, <2>2
<1>8. /\ \A i \in DOMAIN o : \E k \in DOMAIN es : es[k] = Event("item.added", i, o[i])
      /\ \A i \in d : i \in DOMAIN o /\ \E k \in DOMAIN es : es[k] = Event("item.done", i, o[i])
  BY <1>3 DEF Told
<1>9. Told(all, o, d)
  BY <1>4, <1>7, <1>8 DEF Told
<1>. QED BY <1>3, <1>4, <1>6, <1>9 DEF Traced

LEMMA TracedIs ==
  ASSUME NEW es, NEW l, TracedText(es, l)
  PROVE  es \in Seq(Events) /\ Followable(es) /\ Unended(es)
BY DEF TracedText, Traced, Told, Unended

LEMMA StartTells ==
  ASSUME IInv, Start, connected = TRUE
  PROVE  TracedText(events', local)
<1>. DEFINE a == Plain("response.created")
            b == Plain("response.in_progress")
            o == [i \in {} |-> 0]
<1>1. /\ events = <<>> /\ local.reasoningStarted = FALSE /\ local.textStarted = FALSE
      /\ events' = events \o <<a, b>>
  BY DEF IInv, Heard, Start, Write
<1>2. {"response.created", "response.in_progress"} \subseteq Whats \ (Ended \cup {"item.done"})
  BY DEF Whats, Ended
<1>3. DOMAIN <<>> = {} /\ <<>> \in Seq(Events)
  OBVIOUS
<1>4. Traced(events, o, {})
  BY <1>1, <1>3 DEF Traced, Followable, Told, Places
<1>5. Traced(Append(events, a), o, {})
  BY <1>2, <1>4, PlainTraced
<1>. HIDE DEF o
<1>6. Traced(Append(Append(events, a), b), o, {})
  BY <1>2, <1>5, PlainTraced
<1>. HIDE DEF a, b
<1>7. events' = Append(Append(events, a), b)
  BY <1>1
<1>8. OpenedAs(local, o)
  <2>1. DOMAIN o = {}
    BY DEF o
  <2>2. DOMAIN o = {ReasoningItem, MessageItem} \cap DOMAIN o
    BY <2>1
  <2>3. local.reasoningStarted = (ReasoningItem \in DOMAIN o)
    <3>1. (ReasoningItem \in DOMAIN o) = FALSE
      BY <2>1
    <3>2. local.reasoningStarted = FALSE
      BY <1>1
    <3>. QED BY <3>1, <3>2, Zenon
  <2>4. local.textStarted = (MessageItem \in DOMAIN o)
    <3>1. (MessageItem \in DOMAIN o) = FALSE
      BY <2>1
    <3>2. local.textStarted = FALSE
      BY <1>1
    <3>. QED BY <3>1, <3>2, Zenon
  <2>. QED BY <2>1, <2>2, <2>3, <2>4 DEF OpenedAs
<1>. QED BY <1>6, <1>7, <1>8 DEF TracedText

-----------------------------------------------------------------------------
(* Every step.                                                             *)

LEMMA GatheredNext == IInv /\ [Next]_vars => Gathered'
<1>. SUFFICES ASSUME IInv, [Next]_vars PROVE Gathered'
  OBVIOUS
<1>0. Gathered
  BY DEF IInv
<1>1. ASSUME NEW chunk \in Chunks, Handle(chunk) PROVE Gathered'
  BY <1>0, <1>1, HandleGathers
<1>2. CASE ~Chunked
  <2>1. UNCHANGED <<chunks, local>>
    BY <1>2 DEF Next, vars, Start, UpstreamEnds, EndOfStream, StreamBreaks, Fail, Finish, Complete,
                ClientLeaves, streamVars
  <2>. QED BY <1>0, <2>1, GatheredStays
<1>. QED BY <1>1, <1>2 DEF Chunked

LEMMA KeptNext == IInv /\ [Next]_vars => Kept'
<1>. SUFFICES ASSUME IInv, [Next]_vars PROVE Kept'
  OBVIOUS
<1>0. Gathered /\ Kept /\ Typed
  BY DEF IInv
<1>1. CASE Start
  <2>1. UNCHANGED <<chunks, upstream, saved>> /\ pc = "start" /\ pc' \in {"stream", "closed"}
    BY <1>1 DEF Start, streamVars
  <2>2. StoredIsTheAnswer'
    BY <1>0, <2>1, ChunksStay DEF Kept, StoredIsTheAnswer
  <2>. QED BY <1>0, <2>1, <2>2 DEF Kept
<1>2. ASSUME NEW chunk \in Chunks, Handle(chunk) PROVE Kept'
  <2>1. pc = "stream" /\ UNCHANGED <<pc, saved>> /\ upstream = "open" /\ upstream' # "ended"
    BY <1>2 DEF Handle, NextChunk
  <2>2. saved' = {}
    BY <1>0, <2>1 DEF Kept
  <2>. QED BY <2>1, <2>2 DEF Kept, StoredIsTheAnswer
<1>3. CASE UpstreamEnds
  <2>1. pc = "stream" /\ UNCHANGED <<pc, saved>>
    BY <1>3 DEF UpstreamEnds
  <2>2. saved' = {}
    BY <1>0, <2>1 DEF Kept
  <2>. QED BY <2>1, <2>2 DEF Kept, StoredIsTheAnswer
<1>4. CASE Fail
  <2>1. pc = "stream" /\ pc' = "closed" /\ upstream' = "failed" /\ UNCHANGED saved
    BY <1>4 DEF Fail, streamVars
  <2>2. saved' = {}
    BY <1>0, <2>1 DEF Kept
  <2>. QED BY <2>1, <2>2 DEF Kept, StoredIsTheAnswer
<1>5. CASE Finish
  <2>1. pc' = "complete" /\ upstream' = "ended" /\ UNCHANGED chunks /\ saved' # {}
    BY <1>5 DEF Finish, streamVars
  <2>2. ASSUME Numbered, NEW response \in saved'
        PROVE  /\ response.output = StreamedOutput
               /\ response.status = StatusFromFinishReason(FinishReason)
    BY <1>0, <1>5, <2>2, FinishStoresAnswer, StreamedIsWhole
  <2>3. StoredIsTheAnswer'
    BY <2>1, <2>2, ChunksStay DEF StoredIsTheAnswer
  <2>. QED BY <2>1, <2>3 DEF Kept
<1>6. CASE Complete
  <2>1. UNCHANGED <<chunks, upstream, saved>> /\ pc = "complete" /\ pc' = "closed"
    BY <1>6 DEF Complete, streamVars
  <2>2. StoredIsTheAnswer'
    BY <1>0, <2>1, ChunksStay DEF Kept, StoredIsTheAnswer
  <2>. QED BY <1>0, <2>1, <2>2 DEF Kept
<1>7. CASE ClientLeaves \/ UNCHANGED vars
  <2>1. UNCHANGED <<chunks, upstream, saved, pc>>
    BY <1>7 DEF ClientLeaves, streamVars, vars
  <2>2. StoredIsTheAnswer'
    BY <1>0, <2>1, ChunksStay DEF Kept, StoredIsTheAnswer
  <2>. QED BY <1>0, <2>1, <2>2 DEF Kept
<1>. QED BY <1>1, <1>2, <1>3, <1>4, <1>5, <1>6, <1>7 DEF Next, Chunked

\* As long as nothing has ended.
LEMMA HeardSoFar ==
  ASSUME Followable(events'), Unended(events'), pc' # "start",
         pc' = "stream" /\ connected' = TRUE => TracedText(events', local'),
         pc' = "complete" /\ connected' = TRUE =>
           \A response \in saved' : OutputDone(events', response.output)
  PROVE  Heard'
<1>1. \A n \in DOMAIN events' : events'[n].what \notin Ended
  BY DEF Unended
<1>2. \A n \in DOMAIN events' :
        events'[n].what # "response.completed" /\ events'[n].what # "response.failed"
  BY <1>1 DEF Ended
<1>. QED BY <1>2 DEF Heard

\* The end.
LEMMA HeardLast ==
  ASSUME Typed, Kept, Heard, pc # "closed", pc' = "closed", UNCHANGED saved, NEW what \in Ended,
         events' = IF connected THEN events \o <<Plain(what)>> ELSE events,
         connected = TRUE /\ what = "response.completed" =>
           saved # {} /\ \A response \in saved : OutputDone(events, response.output),
         what = "response.failed" => saved = {}
  PROVE  Heard' /\ events' \in Seq(Events)
<1>1. Followable(events) /\ Unended(events) /\ events \in Seq(Events)
  BY DEF Heard, Typed
<1>2. what \in Whats /\ what \in {"response.completed", "response.failed"} /\ what # "item.done"
  BY DEF Whats, Ended
<1>3. CASE connected = FALSE
  <2>1. events' = events
    BY <1>3
  <2>2. \A n \in DOMAIN events : events[n].what \notin Ended
    BY <1>1 DEF Unended
  <2>. QED BY <1>1, <2>1, <2>2 DEF Heard, Ended
<1>4. CASE connected = TRUE
  <2>1. events' = Append(events, Plain(what))
    <3>1. events' = events \o <<Plain(what)>>
      BY <1>4
    <3>2. Plain(what) \in Events
      BY <1>2 DEF Plain, Event, Events, Items
    <3>. QED BY <1>1, <3>1, <3>2
  <2>2. /\ events' \in Seq(Events) /\ Followable(events')
        /\ DOMAIN events' = 1..(Len(events) + 1) /\ events'[Len(events) + 1].what = what
        /\ \A k \in 1..Len(events) : events'[k] = events[k] /\ k \in DOMAIN events
    <3>1. PlainIs(events, what, events')
      BY <1>1, <1>2, <2>1, PlainAppended
    <3>. QED BY <3>1 DEF PlainIs
  <2>3. ASSUME NEW n \in DOMAIN events', events'[n].what \in Ended PROVE events'[n].what = what
    <3>1. n \in 1..Len(events) \/ n = Len(events) + 1
      BY <1>1, <2>2
    <3>. QED BY <1>1, <2>2, <2>3, <3>1 DEF Unended
  <2>4. ASSUME NEW n \in DOMAIN events'
        PROVE  /\ events'[n].what = "response.completed" =>
                    saved' # {} /\ \A response \in saved' : OutputDone(events', response.output)
               /\ events'[n].what = "response.failed" => saved' = {}
    <3>1. ASSUME events'[n].what = "response.completed"
          PROVE  saved' # {} /\ \A response \in saved' : OutputDone(events', response.output)
      <4>1. what = "response.completed"
        BY <2>3, <3>1 DEF Ended
      <4>2. saved # {} /\ \A response \in saved : OutputDone(events, response.output)
        BY <1>4, <4>1
      <4>3. \A response \in saved : OutputDone(events', response.output)
        BY <1>1, <1>2, <2>1, <4>2, PlainDoneIsSame
      <4>. QED BY <4>2, <4>3
    <3>2. ASSUME events'[n].what = "response.failed" PROVE saved' = {}
      BY <2>3, <3>2 DEF Ended
    <3>. QED BY <3>1, <3>2
  <2>. QED BY <2>2, <2>4 DEF Heard
<1>5. connected = TRUE \/ connected = FALSE
  BY DEF Typed
<1>. QED BY <1>3, <1>4, <1>5

LEMMA HeardNext == IInv /\ [Next]_vars => Heard' /\ events' \in Seq(Events)
<1>. SUFFICES ASSUME IInv, [Next]_vars PROVE Heard' /\ events' \in Seq(Events)
  OBVIOUS
<1>0. Gathered /\ Kept /\ Typed /\ Heard
  BY DEF IInv
<1>a. connected = TRUE \/ connected = FALSE
  BY <1>0 DEF Typed
<1>b. Followable(events) /\ events \in Seq(Events) /\ (pc # "closed" => Unended(events))
  BY <1>0 DEF Heard, Typed
<1>1. CASE Start
  <2>1. pc = "start" /\ UNCHANGED <<connected, local, saved>>
        /\ pc' = IF connected THEN "stream" ELSE "closed"
    BY <1>1 DEF Start
  <2>2. CASE connected = TRUE
    <3>1. TracedText(events', local') /\ pc' = "stream"
      BY <1>1, <2>1, <2>2, StartTells
    <3>2. events' \in Seq(Events) /\ Followable(events') /\ Unended(events')
      BY <3>1, TracedIs
    <3>. QED BY <3>1, <3>2, HeardSoFar
  <2>3. CASE connected = FALSE
    <3>1. events' = events /\ pc' = "closed"
      BY <1>1, <2>1, <2>3 DEF Start, Write
    <3>2. Followable(events') /\ Unended(events')
      BY <1>b, <2>1, <3>1
    <3>. QED BY <1>b, <3>1, <3>2, HeardSoFar
  <2>. QED BY <1>a, <2>2, <2>3
<1>2. ASSUME NEW chunk \in Chunks, Handle(chunk) PROVE Heard' /\ events' \in Seq(Events)
  <2>1. pc = "stream" /\ pc' = "stream" /\ UNCHANGED <<connected, saved>>
    BY <1>2 DEF Handle
  <2>2. CASE connected = TRUE
    <3>1. TracedText(events', local')
      BY <1>0, <1>2, <2>1, <2>2, HandleTells DEF Heard
    <3>2. events' \in Seq(Events) /\ Followable(events') /\ Unended(events')
      BY <3>1, TracedIs
    <3>. QED BY <2>1, <3>1, <3>2, HeardSoFar
  <2>3. CASE connected = FALSE
    <3>1. events' = events
      BY <1>2, <2>3 DEF Handle, Write
    <3>2. Followable(events') /\ Unended(events')
      BY <1>b, <2>1, <3>1
    <3>. QED BY <1>b, <2>1, <2>3, <3>1, <3>2, HeardSoFar
  <2>. QED BY <1>a, <2>2, <2>3
<1>3. CASE UpstreamEnds
  <2>1. pc = "stream" /\ UNCHANGED <<pc, connected, events, local, saved>>
    BY <1>3 DEF UpstreamEnds
  <2>2. Followable(events') /\ Unended(events')
    BY <1>b, <2>1
  <2>3. connected' = TRUE => TracedText(events', local')
    BY <1>0, <2>1 DEF Heard
  <2>. QED BY <1>b, <2>1, <2>2, <2>3, HeardSoFar
<1>4. CASE Fail
  <2>1. /\ pc = "stream" /\ pc' = "closed" /\ UNCHANGED saved
        /\ events' = IF connected THEN events \o <<Plain("response.failed")>> ELSE events
    BY <1>4 DEF Fail, Write
  <2>2. saved = {} /\ "response.failed" \in Ended
    BY <1>0, <2>1 DEF Kept, Ended
  <2>. QED BY <1>0, <2>1, <2>2, HeardLast
<1>5. CASE Finish
  <2>1. pc = "stream" /\ pc' = "complete" /\ UNCHANGED connected
    BY <1>5 DEF Finish
  <2>2. CASE connected = TRUE
    <3>1. TracedText(events, local)
      BY <1>0, <2>1, <2>2 DEF Heard
    <3>2. /\ events' \in Seq(Events) /\ Followable(events') /\ Unended(events')
          /\ \A response \in saved' : OutputDone(events', response.output)
      BY <1>0, <1>5, <2>2, <3>1, FinishTells
    <3>. QED BY <2>1, <3>2, HeardSoFar
  <2>3. CASE connected = FALSE
    <3>1. events' = events
      BY <1>5, <2>3 DEF Finish, Write
    <3>2. Followable(events') /\ Unended(events')
      BY <1>b, <2>1, <3>1
    <3>. QED BY <1>b, <2>1, <2>3, <3>1, <3>2, HeardSoFar
  <2>. QED BY <1>a, <2>2, <2>3
<1>6. CASE Complete
  <2>1. /\ pc = "complete" /\ pc' = "closed" /\ UNCHANGED saved
        /\ events' = IF connected THEN events \o <<Plain("response.completed")>> ELSE events
    BY <1>6 DEF Complete, Write
  <2>2. saved # {} /\ "response.completed" \in Ended
    BY <1>0, <2>1 DEF Kept, Ended
  <2>3. connected = TRUE => \A response \in saved : OutputDone(events, response.output)
    BY <1>0, <2>1 DEF Heard
  <2>. QED BY <1>0, <2>1, <2>2, <2>3, HeardLast
<1>7. CASE ClientLeaves
  <2>1. pc' = pc /\ pc # "closed" /\ connected' = FALSE /\ UNCHANGED <<events, local, saved>>
    BY <1>7 DEF ClientLeaves
  <2>2. CASE pc = "start"
    BY <1>0, <1>b, <2>1, <2>2 DEF Heard, Unended, Ended
  <2>3. CASE pc # "start"
    <3>1. Followable(events') /\ Unended(events')
      BY <1>b, <2>1
    <3>. QED BY <1>b, <2>1, <2>3, <3>1, HeardSoFar
  <2>. QED BY <2>2, <2>3
<1>8. CASE UNCHANGED vars
  BY <1>0, <1>b, <1>8 DEF vars, Heard
<1>. QED BY <1>1, <1>2, <1>3, <1>4, <1>5, <1>6, <1>7, <1>8 DEF Next, Chunked

LEMMA TypedNext == IInv /\ [Next]_vars => Typed'
<1>. SUFFICES ASSUME IInv, [Next]_vars PROVE Typed'
  OBVIOUS
<1>0. Typed
  BY DEF IInv
<1>1. events' \in Seq(Events)
  BY HeardNext
<1>2. pc' \in {"start", "stream", "complete", "closed"}
  BY <1>0 DEF Typed, Next, Chunked, vars, Start, Handle, UpstreamEnds, Fail, Finish, Complete,
              ClientLeaves
<1>3. connected' \in BOOLEAN
  <2>1. connected' = connected \/ connected' = FALSE
    BY DEF Next, Chunked, vars, Start, Handle, UpstreamEnds, Fail, Finish, Complete, ClientLeaves
  <2>2. connected \in BOOLEAN
    BY <1>0 DEF Typed
  <2>. QED BY <2>1, <2>2, Zenon
<1>4. upstream' \in {"open", "ended", "failed"}
  BY <1>0 DEF Typed, Next, Chunked, vars, streamVars, Start, Handle, NextChunk, UpstreamEnds,
              EndOfStream, StreamBreaks, Fail, Finish, Complete, ClientLeaves
<1>. QED BY <1>1, <1>2, <1>3, <1>4 DEF Typed

\* The inductive invariant of the handler: its variables put together what the
\* chunks so far said, and the events told of the open items under the indexes
\* they end up at.
THEOREM StreamInvariant == Spec => []IInv
<1>1. IInv /\ [Next]_vars => IInv'
  BY GatheredNext, KeptNext, HeardNext, TypedNext DEF IInv
<1>. QED BY <1>1, InitIInv, PTL DEF Spec

\* A client can follow the events of every stream: an item is added once, before
\* anything else about it, keeps its output_index, which no other item gets, and
\* gets nothing after it is done; and nothing comes after the end.
THEOREM StreamIsFollowable == Spec => []EventsAreFollowable
<1>1. IInv => EventsAreFollowable
  BY FollowableEvents DEF IInv, Heard
<1>. QED BY <1>1, StreamInvariant, PTL

\* However the chunks came, the output_index that an item was announced under,
\* before anyone knew what else would come, is its place in the stored output.
THEOREM IndexesAreFinal == Spec => []IndexesAreFinalPlaces
<1>1. IInv => IndexesAreFinalPlaces
  BY DEF IInv, Heard, IndexesAreFinalPlaces, OutputDone
<1>. QED BY <1>1, StreamInvariant, PTL

\* What a stream stores is what the same call would have stored without it, for
\* any chunks whose calls are numbered without a gap: the fragments of text,
\* reasoning and calls are put together whole and in order.  Only the message comes
\* before the reasoning if its text began first, where the other path never puts it.
THEOREM StoredAnswerIsWhole == Spec => []StoredIsTheAnswer
<1>1. IInv => StoredIsTheAnswer
  BY DEF IInv, Kept
<1>. QED BY <1>1, StreamInvariant, PTL

\* A response is saved exactly if the upstream ended well, and before the client
\* is told so; after a failure nothing is.
THEOREM SavedOnlyWhenWhole == Spec => []SavedIfEnded
<1>1. IInv => SavedIfEnded
  BY DEF IInv, Kept, Heard, SavedIfEnded
<1>. QED BY <1>1, StreamInvariant, PTL
=============================================================================
