------------------------ MODULE AnthropicStreamProofs -----------------------
(***************************************************************************)
(* Proofs about the streaming handler of the Anthropic endpoint, for any   *)
(* chunks, in any number and order, and a client that may go at any time:  *)
(* its blocks can be followed, its stop_reason is that of the answer in    *)
(* one piece, and the blocks hold that answer.                             *)
(***************************************************************************)
EXTENDS AnthropicStream, FiniteSetTheorems, WellFoundedInduction, TLAPS

-----------------------------------------------------------------------------
(* Sequences of events.                                                    *)

IsSequence(es) == \E S : es \in Seq(S)

\* all is es and then one event e.
AppendOf(all, es, e) ==
  /\ IsSequence(all) /\ Len(es) \in Nat /\ DOMAIN es = 1..Len(es)
  /\ DOMAIN all = 1..(Len(es) + 1) /\ all[Len(es) + 1] = e
  /\ \A k \in 1..Len(es) : all[k] = es[k]

LEMMA AppendIs ==
  ASSUME NEW es, IsSequence(es), NEW e, NEW all, all = es \o <<e>>
  PROVE  AppendOf(all, es, e)
<1>1. PICK S : es \in Seq(S)
  BY DEF IsSequence
<1>. DEFINE T == S \cup {e}
<1>2. es \in Seq(T) /\ <<e>> \in Seq(T)
  <2>1. es \in [1..Len(es) -> S] /\ Len(es) \in Nat
    BY <1>1
  <2>2. es \in [1..Len(es) -> T]
    BY <2>1
  <2>. QED BY <2>1, <2>2
<1>. HIDE DEF T
<1>3. all \in Seq(T) /\ Len(<<e>>) = 1 /\ <<e>>[1] = e
  BY <1>2
<1>4. /\ Len(es) \in Nat /\ DOMAIN es = 1..Len(es) /\ DOMAIN all = 1..(Len(es) + 1)
      /\ all[Len(es) + 1] = e /\ \A k \in 1..Len(es) : all[k] = es[k]
  BY <1>2, <1>3
<1>. QED BY <1>3, <1>4 DEF IsSequence, AppendOf

\* all is es and then new.
JoinOf(all, es, N, new, M) ==
  /\ N \in Nat /\ M \in Nat /\ DOMAIN es = 1..N /\ DOMAIN new = 1..M
  /\ DOMAIN all = 1..(N + M)
  /\ \A k \in 1..N : all[k] = es[k]
  /\ \A k \in 1..M : all[N + k] = new[k]
  /\ \A k \in 1..(N + M) : k \in 1..N \/ \E m \in 1..M : k = N + m

LEMMA SameElements ==
  ASSUME NEW es, IsSequence(es), NEW new, IsSequence(new)
  PROVE  \E T : es \in Seq(T) /\ new \in Seq(T)
<1>1. PICK R : es \in Seq(R)
  BY DEF IsSequence
<1>2. PICK S : new \in Seq(S)
  BY DEF IsSequence
<1>. DEFINE T == R \cup S
<1>3. es \in [1..Len(es) -> R] /\ Len(es) \in Nat /\ new \in [1..Len(new) -> S] /\ Len(new) \in Nat
  BY <1>1, <1>2
<1>4. es \in [1..Len(es) -> T] /\ new \in [1..Len(new) -> T]
  BY <1>3
<1>5. es \in Seq(T) /\ new \in Seq(T)
  BY <1>3, <1>4
<1>. QED BY <1>5

LEMMA JoinIs ==
  ASSUME NEW es, IsSequence(es), NEW new, IsSequence(new), NEW all, all = es \o new
  PROVE  IsSequence(all) /\ JoinOf(all, es, Len(es), new, Len(new))
<1>1. PICK T : es \in Seq(T) /\ new \in Seq(T)
  BY SameElements
<1>2. all \in Seq(T)
  BY <1>1
<1>3. DOMAIN all = 1..(Len(es) + Len(new))
  BY <1>1
<1>4. \A k \in 1..Len(es) : all[k] = es[k]
  BY <1>1
<1>5. \A k \in 1..Len(new) : all[Len(es) + k] = new[k]
  BY <1>1
<1>6. \A k \in 1..(Len(es) + Len(new)) : k \in 1..Len(es) \/ \E m \in 1..Len(new) : k = Len(es) + m
  BY <1>1
<1>7. /\ Len(es) \in Nat /\ Len(new) \in Nat /\ DOMAIN es = 1..Len(es) /\ DOMAIN new = 1..Len(new)
  BY <1>1
<1>. QED BY <1>2, <1>3, <1>4, <1>5, <1>6, <1>7 DEF JoinOf, IsSequence

LEMMA JoinsAssociate ==
  ASSUME NEW a, IsSequence(a), NEW b, IsSequence(b), NEW c, IsSequence(c)
  PROVE  a \o (b \o c) = (a \o b) \o c
<1>1. PICK R : a \in Seq(R) /\ b \in Seq(R)
  BY SameElements
<1>2. a \o b \in Seq(R)
  BY <1>1
<1>3. IsSequence(a \o b)
  BY <1>2 DEF IsSequence
<1>4. PICK T : a \o b \in Seq(T) /\ c \in Seq(T)
  BY <1>3, SameElements
<1>. DEFINE U == R \cup T
<1>5. /\ a \in [1..Len(a) -> R] /\ Len(a) \in Nat /\ b \in [1..Len(b) -> R] /\ Len(b) \in Nat
      /\ c \in [1..Len(c) -> T] /\ Len(c) \in Nat
  BY <1>1, <1>4
<1>6. a \in [1..Len(a) -> U] /\ b \in [1..Len(b) -> U] /\ c \in [1..Len(c) -> U]
  BY <1>5
<1>7. a \in Seq(U) /\ b \in Seq(U) /\ c \in Seq(U)
  BY <1>5, <1>6
<1>. HIDE DEF U
<1>8. \A x, y, z \in Seq(U) : x \o (y \o z) = (x \o y) \o z
  OBVIOUS
<1>. QED BY <1>7, <1>8

LEMMA NothingJoined ==
  ASSUME NEW es, IsSequence(es)
  PROVE  es \o <<>> = es /\ <<>> \o es = es /\ IsSequence(<<>>) /\ \A e : IsSequence(<<e>>)
<1>1. PICK S : es \in Seq(S)
  BY DEF IsSequence
<1>2. es \o <<>> = es /\ <<>> \o es = es
  BY <1>1
<1>3. <<>> \in Seq(S)
  OBVIOUS
<1>4. ASSUME NEW e PROVE <<e>> \in Seq({e})
  OBVIOUS
<1>. QED BY <1>2, <1>3, <1>4 DEF IsSequence

-----------------------------------------------------------------------------
(* Numbers in order.                                                       *)

Below(S, i) == Cardinality({ j \in S : j < i })

\* Counting what is below numbers the members of S from 0.
LEMMA BelowNumbers ==
  ASSUME NEW S, IsFiniteSet(S), S \subseteq Nat
  PROVE  /\ \A i \in S : Below(S, i) \in 0..(Cardinality(S) - 1)
         /\ \A i, j \in S : Below(S, i) = Below(S, j) => i = j
         /\ \A n \in 0..(Cardinality(S) - 1) : \E i \in S : Below(S, i) = n
<1>. DEFINE N == Cardinality(S)
            below(i) == { j \in S : j < i }
<1>0. N \in Nat
  BY FS_CardinalityType
<1>1. ASSUME NEW i \in S
      PROVE  IsFiniteSet(below(i)) /\ Below(S, i) \in Nat /\ Below(S, i) < N
  <2>1. below(i) \in SUBSET S /\ i \notin below(i)
    OBVIOUS
  <2>2. Below(S, i) = Cardinality(below(i))
    BY DEF Below
  <2>. HIDE DEF below
  <2>3. /\ IsFiniteSet(below(i)) /\ Cardinality(below(i)) \in Nat
        /\ Cardinality(below(i)) <= N /\ Cardinality(below(i)) # N
    BY <2>1, FS_Subset, FS_CardinalityType
  <2>. QED BY <1>0, <2>2, <2>3
<1>2. ASSUME NEW i \in S, NEW j \in S, i < j PROVE Below(S, i) < Below(S, j)
  <2>0. \A k \in S : k \in Nat /\ (k < i => k < j)
    BY <1>2
  <2>1. below(i) \in SUBSET below(j) /\ i \in below(j) /\ i \notin below(i)
    <3>1. i \in S /\ i < j /\ ~(i < i)
      BY <1>2, <2>0
    <3>2. i \in below(j) /\ i \notin below(i)
      BY <3>1
    <3>3. \A k \in below(i) : k \in below(j)
      BY <2>0
    <3>. QED BY <3>2, <3>3
  <2>2. Below(S, i) = Cardinality(below(i)) /\ Below(S, j) = Cardinality(below(j))
    BY DEF Below
  <2>3. IsFiniteSet(below(j)) /\ Below(S, i) \in Nat /\ Below(S, j) \in Nat
    BY <1>1
  <2>. HIDE DEF below
  <2>4. /\ Cardinality(below(i)) <= Cardinality(below(j))
        /\ Cardinality(below(i)) # Cardinality(below(j))
    BY <2>1, <2>3, FS_Subset
  <2>. QED BY <2>2, <2>3, <2>4
<1>. HIDE DEF below, N
<1>3. \A i \in S : Below(S, i) \in 0..(N - 1)
  BY <1>0, <1>1
<1>4. ASSUME NEW i \in S, NEW j \in S, Below(S, i) = Below(S, j) PROVE i = j
  <2>1. ~(i < j) /\ ~(j < i)
    BY <1>1, <1>2, <1>4
  <2>2. i \in Nat /\ j \in Nat
    OBVIOUS
  <2>. QED BY <2>1, <2>2
<1>5. ASSUME NEW n \in 0..(N - 1) PROVE \E i \in S : Below(S, i) = n
  <2>. DEFINE f == [i \in S |-> Below(S, i)]
  <2>1. f \in Injection(S, 0..(N - 1))
    BY <1>3, <1>4 DEF Injection, IsInjective
  <2>2. IsFiniteSet(0..(N - 1)) /\ Cardinality(0..(N - 1)) = N
    <3>1. N - 1 \in Int /\ 0 \in Int
      BY <1>0
    <3>. QED BY <1>0, <3>1, FS_Interval
  <2>3. f \in Surjection(S, 0..(N - 1))
    <3>. HIDE DEF f
    <3>1. Cardinality(S) = Cardinality(0..(N - 1))
      BY <2>2 DEF N
    <3>. QED BY <2>1, <2>2, <3>1, FS_Injection
  <2>. QED BY <2>3 DEF Surjection
<1>. QED BY <1>3, <1>4, <1>5 DEF N

LEMMA InOrderFacts ==
  ASSUME NEW S, IsFiniteSet(S), S \subseteq Nat
  PROVE  /\ Cardinality(S) \in Nat /\ InOrder(S) \in Seq(S)
         /\ Len(InOrder(S)) = Cardinality(S) /\ DOMAIN InOrder(S) = 1..Cardinality(S)
         /\ \A k \in 1..Cardinality(S) : InOrder(S)[k] \in S /\ Below(S, InOrder(S)[k]) = k - 1
<1>. DEFINE N == Cardinality(S)
            order == InOrder(S)
<1>0. N \in Nat
  BY FS_CardinalityType
<1>1. order = [ k \in 1..N |-> CHOOSE i \in S : Below(S, i) = k - 1 ]
  BY DEF InOrder, Below
<1>. HIDE DEF order
<1>2. \A k \in 1..N : order[k] \in S /\ Below(S, order[k]) = k - 1
  <2>. TAKE k \in 1..N
  <2>1. k - 1 \in 0..(Cardinality(S) - 1)
    BY <1>0
  <2>2. \E i \in S : Below(S, i) = k - 1
    BY <2>1, BelowNumbers
  <2>. QED BY <1>1, <2>2
<1>. HIDE DEF N
<1>3. DOMAIN order = 1..N /\ order \in [1..N -> S]
  BY <1>1, <1>2
<1>4. order \in Seq(S)
  BY <1>0, <1>3
<1>5. Len(order) = N
  BY <1>0, <1>3, <1>4
<1>. QED BY <1>0, <1>2, <1>3, <1>4, <1>5 DEF N, order

\* A number greater than all comes last.
LEMMA InOrderAppend ==
  ASSUME NEW S, IsFiniteSet(S), S \subseteq Nat, NEW n \in Nat, \A i \in S : i < n
  PROVE  InOrder(S \cup {n}) = Append(InOrder(S), n)
<1>. DEFINE T == S \cup {n}
            N == Cardinality(S)
            a == InOrder(S)
            b == InOrder(T)
<1>1. /\ IsFiniteSet(T) /\ T \subseteq Nat /\ n \notin S /\ N \in Nat
      /\ Cardinality(T) = N + 1
  BY FS_AddElement, FS_CardinalityType
<1>2. Below(T, n) = N
  <2>1. ASSUME NEW j PROVE j \in { k \in T : k < n } <=> j \in S
    <3>1. ~(n < n)
      OBVIOUS
    <3>. QED BY <3>1
  <2>2. { k \in T : k < n } = S
    BY <2>1
  <2>. QED BY <2>2 DEF Below
<1>3. \A i \in S : Below(T, i) = Below(S, i)
  <2>. TAKE i \in S
  <2>1. { j \in T : j < i } = { j \in S : j < i }
    BY <1>1
  <2>. QED BY <2>1 DEF Below
<1>. HIDE DEF T, N, a, b
<1>4. /\ a \in Seq(S) /\ Len(a) = N /\ DOMAIN a = 1..N
      /\ \A k \in 1..N : a[k] \in S /\ Below(S, a[k]) = k - 1
  BY InOrderFacts DEF N, a
<1>5. /\ b \in Seq(T) /\ Len(b) = N + 1 /\ DOMAIN b = 1..(N + 1)
      /\ \A k \in 1..(N + 1) : b[k] \in T /\ Below(T, b[k]) = k - 1
  <2>1. /\ b \in Seq(T) /\ Len(b) = Cardinality(T) /\ DOMAIN b = 1..Cardinality(T)
        /\ \A k \in 1..Cardinality(T) : b[k] \in T /\ Below(T, b[k]) = k - 1
    BY <1>1, InOrderFacts DEF b
  <2>. QED BY <1>1, <2>1
<1>6. \A i, j \in T : Below(T, i) = Below(T, j) => i = j
  BY <1>1, BelowNumbers
<1>7. n \in T /\ S \subseteq T
  BY DEF T
<1>8. ASSUME NEW k \in 1..N PROVE b[k] = a[k]
  <2>1. k \in 1..(N + 1)
    BY <1>1
  <2>2. Below(T, a[k]) = k - 1 /\ a[k] \in T /\ b[k] \in T /\ Below(T, b[k]) = k - 1
    BY <1>3, <1>4, <1>5, <1>7, <2>1
  <2>. QED BY <1>6, <2>2
<1>9. b[N + 1] = n
  <2>1. N + 1 \in 1..(N + 1) /\ (N + 1) - 1 = N
    BY <1>1
  <2>2. b[N + 1] \in T /\ Below(T, b[N + 1]) = N
    BY <1>5, <2>1
  <2>. QED BY <1>2, <1>6, <1>7, <2>2
<1>10. b = Append(a, n)
  BY <1>1, <1>4, <1>5, <1>8, <1>9
<1>. QED BY <1>10 DEF T, a, b

LEMMA InOrderEmpty == InOrder({}) = <<>>
BY FS_EmptySet, InOrderFacts

-----------------------------------------------------------------------------
(* Sequences put end to end.                                               *)

\* A set of natural numbers that is not empty has a least element.
LEMMA SmallestOf ==
  ASSUME NEW S, S \subseteq Nat, S # {}
  PROVE  \E n \in S : \A m \in S : n <= m
<1>1. \E R : IsWellFoundedOn(R, Nat) /\ \A m \in Nat, n \in Nat : m < n => <<m, n>> \in R
  <2>1. IsWellFoundedOn(OpToRel(<, Nat), Nat)
    BY NatLessThanWellFounded
  <2>2. \A m \in Nat, n \in Nat : m < n => <<m, n>> \in OpToRel(<, Nat)
    BY DEF OpToRel
  <2>. QED BY <2>1, <2>2, Zenon
<1>2. PICK R : IsWellFoundedOn(R, Nat) /\ \A m \in Nat, n \in Nat : m < n => <<m, n>> \in R
  BY <1>1
<1>3. IsWellFoundedOn(R, Nat)
  BY <1>2
<1>4. \E n \in S : \A m \in S : ~ (<<m, n>> \in R)
  BY <1>3, WFMin, Zenon
<1>5. PICK n \in S : \A m \in S : ~ (<<m, n>> \in R)
  BY <1>4
<1>6. \A m \in S : m \in Nat /\ n \in Nat /\ ~(m < n)
  BY <1>2, <1>5
<1>. QED BY <1>6

\* f is the function by which FlattenSeq reads the first n elements of s.
Flattens(f, s, n) == f = [i \in 1..n |-> IF i = 1 THEN s[i] ELSE f[i - 1] \o s[i]]

LEMMA FlattensAt ==
  ASSUME NEW f, NEW s, NEW n \in Nat, Flattens(f, s, n), NEW i \in 1..n
  PROVE  f[i] = IF i = 1 THEN s[i] ELSE f[i - 1] \o s[i]
BY DEF Flattens

SameUpTo(s, r, n) == \A i \in 1..n : s[i] = r[i]

LEMMA FlattensAgree ==
  ASSUME NEW s, NEW r, NEW n \in Nat, NEW m \in Nat, n <= m, SameUpTo(s, r, n),
         NEW f, NEW g, Flattens(f, s, n), Flattens(g, r, m)
  PROVE  SameUpTo(f, g, n)
<1>. DEFINE Bad == { i \in 1..n : f[i] # g[i] }
<1>. SUFFICES ASSUME Bad # {} PROVE FALSE
  BY DEF SameUpTo
<1>1. Bad \subseteq Nat
  OBVIOUS
<1>2. PICK i \in Bad : \A j \in Bad : i <= j
  BY <1>1, SmallestOf
<1>3. i \in 1..n /\ i \in 1..m /\ f[i] # g[i]
  BY <1>2
<1>4. /\ f[i] = IF i = 1 THEN s[i] ELSE f[i - 1] \o s[i]
      /\ g[i] = IF i = 1 THEN r[i] ELSE g[i - 1] \o r[i]
  BY <1>3, FlattensAt
<1>. s[i] = r[i]
  BY <1>3 DEF SameUpTo
<1>5. CASE i = 1
  BY <1>3, <1>4, <1>5
<1>6. CASE i # 1
  <2>1. i - 1 \in 1..n /\ i - 1 \notin Bad
    BY <1>2, <1>3, <1>6
  <2>2. f[i - 1] = g[i - 1]
    BY <2>1
  <2>. QED BY <1>3, <1>4, <1>6, <2>2
<1>. QED BY <1>5, <1>6

LEMMA FlattensExtend ==
  ASSUME NEW s, NEW n \in Nat, NEW f, Flattens(f, s, n)
  PROVE  \E g : Flattens(g, s, n + 1)
<1>. DEFINE e(i) == IF i = 1 THEN s[i] ELSE f[i - 1] \o s[i]
            g == [i \in 1..(n + 1) |-> e(i)]
<1>1. \A i \in 1..n : g[i] = f[i]
  BY FlattensAt
<1>2. \A i \in 1..(n + 1) : i # 1 => g[i - 1] = f[i - 1]
  <2>1. \A i \in 1..(n + 1) : i # 1 => i - 1 \in 1..n
    OBVIOUS
  <2>. HIDE DEF g
  <2>. QED BY <1>1, <2>1
<1>3. \A i \in 1..(n + 1) : e(i) = IF i = 1 THEN s[i] ELSE g[i - 1] \o s[i]
  BY <1>2
<1>4. g = [i \in 1..(n + 1) |-> IF i = 1 THEN s[i] ELSE g[i - 1] \o s[i]]
  BY <1>3
<1>. QED BY <1>4 DEF Flattens

LEMMA FlattensExists ==
  ASSUME NEW s, NEW n \in Nat PROVE \E f : Flattens(f, s, n)
<1>. DEFINE Bad == { k \in Nat : ~ \E f : Flattens(f, s, k) }
<1>. SUFFICES ASSUME Bad # {} PROVE FALSE
  OBVIOUS
<1>1. PICK k \in Bad : \A j \in Bad : k <= j
  BY SmallestOf
<1>2. CASE k = 0
  <2>1. <<>> = [i \in 1..0 |-> IF i = 1 THEN s[i] ELSE <<>>[i - 1] \o s[i]]
    OBVIOUS
  <2>. QED BY <1>1, <1>2, <2>1 DEF Flattens
<1>3. CASE k # 0
  <2>1. k - 1 \in Nat /\ k - 1 \notin Bad /\ (k - 1) + 1 = k
    BY <1>1, <1>3
  <2>2. PICK f : Flattens(f, s, k - 1)
    BY <2>1
  <2>3. \E g : Flattens(g, s, k)
    BY <2>1, <2>2, FlattensExtend
  <2>. QED BY <1>1, <2>3
<1>. QED BY <1>2, <1>3

\* FlattenSeq is the last value of such a function.
LEMMA FlattenSeqLast ==
  ASSUME NEW s, Len(s) \in Nat, Len(s) # 0
  PROVE  \E f : Flattens(f, s, Len(s)) /\ SeqX!FlattenSeq(s) = f[Len(s)]
<1>. DEFINE F == CHOOSE f : f = [i \in 1..Len(s) |-> IF i = 1 THEN s[i] ELSE f[i - 1] \o s[i]]
<1>1. \E f : f = [i \in 1..Len(s) |-> IF i = 1 THEN s[i] ELSE f[i - 1] \o s[i]]
  BY FlattensExists DEF Flattens
<1>2. F = [i \in 1..Len(s) |-> IF i = 1 THEN s[i] ELSE F[i - 1] \o s[i]]
  BY <1>1
<1>3. SeqX!FlattenSeq(s) = F[Len(s)]
  BY DEF SeqX!FlattenSeq
<1>. QED BY <1>2, <1>3 DEF Flattens

LEMMA FlattenAppend ==
  ASSUME NEW T, NEW s \in Seq(Seq(T)), NEW x \in Seq(T)
  PROVE  SeqX!FlattenSeq(Append(s, x)) = SeqX!FlattenSeq(s) \o x
<1>. DEFINE r == Append(s, x)
            n == Len(s)
            m == n + 1
<1>1. n \in Nat /\ m \in Nat /\ Len(r) = n + 1 /\ r[n + 1] = x /\ \A i \in 1..n : s[i] = r[i]
  OBVIOUS
<1>. HIDE DEF r
<1>2. PICK g : Flattens(g, r, n + 1) /\ SeqX!FlattenSeq(r) = g[n + 1]
  BY <1>1, FlattenSeqLast
<1>3. g[n + 1] = IF n + 1 = 1 THEN r[n + 1] ELSE g[(n + 1) - 1] \o r[n + 1]
  BY <1>1, <1>2, FlattensAt
<1>4. CASE n = 0
  <2>1. s = <<>> /\ SeqX!FlattenSeq(s) = s
    BY <1>4 DEF SeqX!FlattenSeq
  <2>2. SeqX!FlattenSeq(r) = x
    BY <1>1, <1>2, <1>3, <1>4
  <2>. QED BY <2>1, <2>2 DEF r
<1>5. CASE n # 0
  <2>1. PICK f : Flattens(f, s, n) /\ SeqX!FlattenSeq(s) = f[n]
    BY <1>1, <1>5, FlattenSeqLast
  <2>2. f[n] = g[n]
    <3>1. n <= m /\ n \in 1..n /\ Flattens(f, s, n) /\ Flattens(g, r, m)
      BY <1>1, <1>2, <1>5, <2>1
    <3>. HIDE DEF n, m
    <3>2. n \in Nat /\ m \in Nat /\ SameUpTo(s, r, n)
      BY <1>1 DEF SameUpTo
    <3>3. SameUpTo(f, g, n)
      BY <3>1, <3>2, FlattensAgree
    <3>. QED BY <3>1, <3>3 DEF SameUpTo
  <2>3. (n + 1) - 1 = n /\ n + 1 # 1
    BY <1>1, <1>5
  <2>4. SeqX!FlattenSeq(r) = g[n] \o x
    BY <1>1, <1>2, <1>3, <2>3
  <2>. QED BY <2>1, <2>2, <2>4 DEF r
<1>. QED BY <1>4, <1>5

LEMMA Joins ==
  ASSUME NEW T, NEW x \in Seq(T), NEW y \in Seq(T), NEW e \in T
  PROVE  x \o y \in Seq(T) /\ x \o Append(y, e) = Append(x \o y, e)
OBVIOUS

LEMMA JoinsAgain ==
  ASSUME NEW T, NEW x \in Seq(T), NEW y \in Seq(T), NEW z \in Seq(T)
  PROVE  (x \o y) \o z = x \o (y \o z)
OBVIOUS

\* f is the function by which FlattenSeq reads s.
LEMMA FlattenIs ==
  ASSUME NEW s, Len(s) \in Nat, NEW f, f[0] = <<>>, NEW T,
         \A n \in 1..Len(s) : s[n] \in Seq(T) /\ f[n] = f[n - 1] \o s[n], s \in Seq(Seq(T))
  PROVE  SeqX!FlattenSeq(s) = f[Len(s)]
<1>1. CASE Len(s) = 0
  <2>1. s = <<>> /\ SeqX!FlattenSeq(s) = s
    BY <1>1 DEF SeqX!FlattenSeq
  <2>. QED BY <1>1, <2>1
<1>2. CASE Len(s) # 0
  <2>1. PICK g : Flattens(g, s, Len(s)) /\ SeqX!FlattenSeq(s) = g[Len(s)]
    BY <1>2, FlattenSeqLast
  <2>. DEFINE Bad == { n \in 1..Len(s) : g[n] # f[n] }
  <2>2. ASSUME Bad # {} PROVE FALSE
    <3>1. PICK n \in Bad : \A m \in Bad : n <= m
      <4>1. Bad \subseteq Nat
        OBVIOUS
      <4>. QED BY <2>2, <4>1, SmallestOf
    <3>2. n \in 1..Len(s) /\ g[n] # f[n] /\ n \in Nat
      BY <3>1
    <3>3. g[n] = IF n = 1 THEN s[n] ELSE g[n - 1] \o s[n]
      BY <2>1, <3>2, FlattensAt
    <3>4. CASE n = 1
      <4>0. n - 1 = 0
        BY <3>4
      <4>1. f[n] = <<>> \o s[n] /\ s[n] \in Seq(T)
        BY <3>2, <4>0
      <4>2. <<>> \o s[n] = s[n]
        BY <4>1
      <4>. QED BY <3>2, <3>3, <3>4, <4>1, <4>2
    <3>5. CASE n # 1
      <4>1. n - 1 \in 1..Len(s) /\ n - 1 \notin Bad
        BY <3>1, <3>2, <3>5
      <4>2. g[n - 1] = f[n - 1]
        BY <4>1
      <4>. QED BY <3>2, <3>3, <3>5, <4>2
    <3>. QED BY <3>4, <3>5
  <2>3. Len(s) \in 1..Len(s)
    BY <1>2
  <2>. QED BY <2>1, <2>2, <2>3
<1>. QED BY <1>1, <1>2

LEMMA FlattenOneMore ==
  ASSUME NEW T, NEW s \in Seq(Seq(T)), NEW p \in Seq(Seq(T)), NEW x \in Seq(T),
         NEW a \in Seq(T), NEW b \in Seq(T), SeqX!FlattenSeq(p) = b,
         SeqX!FlattenSeq(s \o p) = a \o b
  PROVE  SeqX!FlattenSeq(s \o Append(p, x)) = a \o SeqX!FlattenSeq(Append(p, x))
<1>1. s \o p \in Seq(Seq(T)) /\ s \o Append(p, x) = Append(s \o p, x)
  BY Joins
<1>2. SeqX!FlattenSeq(Append(p, x)) = b \o x
  BY FlattenAppend
<1>3. SeqX!FlattenSeq(Append(s \o p, x)) = (a \o b) \o x
  BY <1>1, FlattenAppend
<1>4. (a \o b) \o x = a \o (b \o x)
  BY JoinsAgain
<1>. QED BY <1>1, <1>2, <1>3, <1>4

\* The concatenation of sequences over T is one, and of two such put end to end it
\* is one concatenation after the other.
LEMMA FlattenJoin ==
  ASSUME NEW T, NEW s \in Seq(Seq(T)), NEW r \in Seq(Seq(T))
  PROVE  /\ SeqX!FlattenSeq(r) \in Seq(T) /\ SeqX!FlattenSeq(s) \in Seq(T)
         /\ SeqX!FlattenSeq(s \o r) = SeqX!FlattenSeq(s) \o SeqX!FlattenSeq(r)
<1>. DEFINE pre(q, n) == [ i \in 1..n |-> q[i] ]
            flat(q) == SeqX!FlattenSeq(q)
<1>1. ASSUME NEW q \in Seq(Seq(T)) PROVE flat(q) \in Seq(T)
  <2>. DEFINE Bad == { n \in 0..Len(q) : flat(pre(q, n)) \notin Seq(T) }
  <2>1. ASSUME Bad # {} PROVE FALSE
    <3>1. Bad \subseteq Nat
      OBVIOUS
    <3>2. PICK n \in Bad : \A m \in Bad : n <= m
      BY <2>1, <3>1, SmallestOf
    <3>3. n \in 0..Len(q) /\ flat(pre(q, n)) \notin Seq(T)
      BY <3>2
    <3>4. CASE n = 0
      <4>1. pre(q, n) = <<>>
        BY <3>4
      <4>. HIDE DEF pre
      <4>2. flat(<<>>) = <<>>
        BY DEF SeqX!FlattenSeq
      <4>3. <<>> \in Seq(T)
        OBVIOUS
      <4>. QED BY <3>3, <4>1, <4>2, <4>3
    <3>5. CASE n # 0
      <4>1. n - 1 \in 0..Len(q) /\ n - 1 \notin Bad /\ n \in 1..Len(q)
        <5>1. n \in Nat /\ ~(n <= n - 1)
          BY <3>3
        <5>. HIDE DEF Bad
        <5>2. n - 1 \notin Bad
          BY <3>2, <5>1
        <5>. QED BY <3>3, <3>5, <5>2
      <4>2. /\ pre(q, n - 1) \in Seq(Seq(T)) /\ q[n] \in Seq(T)
            /\ pre(q, n) = Append(pre(q, n - 1), q[n])
        BY <4>1
      <4>. HIDE DEF pre
      <4>3. flat(pre(q, n - 1)) \in Seq(T)
        BY <4>1
      <4>4. flat(pre(q, n)) = flat(pre(q, n - 1)) \o q[n]
        BY <4>2, FlattenAppend
      <4>. HIDE DEF flat
      <4>5. flat(pre(q, n - 1)) \o q[n] \in Seq(T)
        BY <4>2, <4>3
      <4>. QED BY <3>3, <4>4, <4>5
    <3>. QED BY <3>4, <3>5
  <2>2. Len(q) \in 0..Len(q) /\ pre(q, Len(q)) = q
    OBVIOUS
  <2>. HIDE DEF pre, flat
  <2>. QED BY <2>1, <2>2
<1>2. flat(s \o r) = flat(s) \o flat(r)
  <2>. DEFINE Bad == { n \in 0..Len(r) : flat(s \o pre(r, n)) # flat(s) \o flat(pre(r, n)) }
  <2>1. ASSUME Bad # {} PROVE FALSE
    <3>1. Bad \subseteq Nat
      OBVIOUS
    <3>2. PICK n \in Bad : \A m \in Bad : n <= m
      BY <2>1, <3>1, SmallestOf
    <3>3. n \in 0..Len(r) /\ flat(s \o pre(r, n)) # flat(s) \o flat(pre(r, n))
      BY <3>2
    <3>4. CASE n = 0
      <4>1. pre(r, n) = <<>>
        BY <3>4
      <4>. HIDE DEF pre
      <4>2. flat(<<>>) = <<>>
        BY DEF SeqX!FlattenSeq
      <4>3. flat(s) \in Seq(T)
        BY <1>1
      <4>. HIDE DEF flat
      <4>4. s \o <<>> = s /\ flat(s) \o <<>> = flat(s)
        BY <4>3
      <4>. QED BY <3>3, <4>1, <4>2, <4>4
    <3>5. CASE n # 0
      <4>1. n - 1 \in 0..Len(r) /\ n - 1 \notin Bad /\ n \in 1..Len(r)
        <5>1. n \in Nat /\ ~(n <= n - 1)
          BY <3>3
        <5>. HIDE DEF Bad
        <5>2. n - 1 \notin Bad
          BY <3>2, <5>1
        <5>. QED BY <3>3, <3>5, <5>2
      <4>. DEFINE p == pre(r, n - 1)
      <4>2. p \in Seq(Seq(T)) /\ r[n] \in Seq(T) /\ pre(r, n) = Append(p, r[n])
        BY <4>1
      <4>3. flat(s \o p) = flat(s) \o flat(p)
        BY <4>1
      <4>. HIDE DEF pre, p
      <4>4. flat(s) \in Seq(T) /\ flat(p) \in Seq(T)
        BY <1>1, <4>2
      <4>5. flat(s \o Append(p, r[n])) = flat(s) \o flat(Append(p, r[n]))
        BY <4>2, <4>3, <4>4, FlattenOneMore
      <4>. HIDE DEF flat
      <4>. QED BY <3>3, <4>2, <4>5
    <3>. QED BY <3>4, <3>5
  <2>2. Len(r) \in 0..Len(r) /\ pre(r, Len(r)) = r
    OBVIOUS
  <2>. HIDE DEF pre, flat
  <2>. QED BY <2>1, <2>2
<1>. QED BY <1>1, <1>2

-----------------------------------------------------------------------------
(* Blocks that a client can follow.                                        *)

\* Event x may come before event e.
Fits(x, e) ==
  /\ e.what = "start" => x.index # e.index
  /\ e.what \in {"delta", "stop"} /\ x.index = e.index => x.kind = e.kind /\ x.what # "stop"

Begins(x, i) == x.what = "start" /\ x.index = i

Followable(es) ==
  \A n \in DOMAIN es :
    /\ \A k \in 1..(n - 1) : Fits(es[k], es[n])
    /\ es[n].what = "start" =>
         \A i \in 0..(es[n].index - 1) : \E k \in 1..(n - 1) : Begins(es[k], i)
    /\ es[n].what \in {"delta", "stop"} => \E k \in 1..(n - 1) : Begins(es[k], es[n].index)

LEMMA FollowableEvents == BlocksAreFollowable <=> TextFirst \/ Followable(events)
BY DEF BlocksAreFollowable, Followable, Fits, Begins

\* What comes after es may be event e.
Follows(es, e) ==
  /\ \A k \in DOMAIN es : Fits(es[k], e)
  /\ e.what = "start" => \A i \in 0..(e.index - 1) : \E k \in DOMAIN es : Begins(es[k], i)
  /\ e.what \in {"delta", "stop"} => \E k \in DOMAIN es : Begins(es[k], e.index)

LEMMA AppendFollows ==
  ASSUME NEW es, IsSequence(es), Followable(es), NEW e, Follows(es, e),
         NEW all, all = es \o <<e>>
  PROVE  Followable(all)
<1>. DEFINE N == Len(es)
<1>1. /\ N \in Nat /\ DOMAIN es = 1..N /\ DOMAIN all = 1..(N + 1) /\ all[N + 1] = e
      /\ \A k \in 1..N : all[k] = es[k]
  BY AppendIs DEF AppendOf
<1>. HIDE DEF N
<1>2. ASSUME NEW n \in 1..N
      PROVE  /\ \A k \in 1..(n - 1) : Fits(all[k], all[n])
             /\ all[n].what = "start" =>
                  \A i \in 0..(all[n].index - 1) : \E k \in 1..(n - 1) : Begins(all[k], i)
             /\ all[n].what \in {"delta", "stop"} =>
                  \E k \in 1..(n - 1) : Begins(all[k], all[n].index)
  <2>1. all[n] = es[n] /\ \A k \in 1..(n - 1) : k \in 1..N /\ all[k] = es[k]
    BY <1>1
  <2>2. /\ \A k \in 1..(n - 1) : Fits(es[k], es[n])
        /\ es[n].what = "start" =>
             \A i \in 0..(es[n].index - 1) : \E k \in 1..(n - 1) : Begins(es[k], i)
        /\ es[n].what \in {"delta", "stop"} => \E k \in 1..(n - 1) : Begins(es[k], es[n].index)
    BY <1>1 DEF Followable
  <2>. QED BY <2>1, <2>2
<1>3. /\ \A k \in 1..N : Fits(all[k], all[N + 1])
      /\ all[N + 1].what = "start" =>
           \A i \in 0..(all[N + 1].index - 1) : \E k \in 1..N : Begins(all[k], i)
      /\ all[N + 1].what \in {"delta", "stop"} => \E k \in 1..N : Begins(all[k], all[N + 1].index)
  <2>1. /\ \A k \in 1..N : Fits(es[k], e)
        /\ e.what = "start" => \A i \in 0..(e.index - 1) : \E k \in 1..N : Begins(es[k], i)
        /\ e.what \in {"delta", "stop"} => \E k \in 1..N : Begins(es[k], e.index)
    BY <1>1 DEF Follows
  <2>. QED BY <1>1, <2>1
<1>4. (N + 1) - 1 = N /\ \A n \in 1..(N + 1) : n \in 1..N \/ n = N + 1
  BY <1>1
<1>. QED BY <1>1, <1>2, <1>3, <1>4 DEF Followable

\* The client was told of N blocks: o[i] is the kind of block i, those of d have
\* stopped, and every event is about one of them or about none.
Told(es, o, d) ==
  /\ \A k \in DOMAIN es :
       /\ es[k].index \in DOMAIN o \cup {-1}
       /\ es[k].index \in DOMAIN o => es[k].kind = o[es[k].index]
       /\ es[k].what = "stop" => es[k].index \in d
  /\ \A i \in DOMAIN o : \E k \in DOMAIN es : Begins(es[k], i)

Traced(es, o, N, d) ==
  /\ N \in Nat /\ DOMAIN o = 0..(N - 1)
  /\ IsSequence(es) /\ Followable(es) /\ Told(es, o, d)

\* The next block.
LEMMA StartBlock ==
  ASSUME NEW es, NEW o, NEW N, NEW d, Traced(es, o, N, d), NEW kind, NEW puts,
         NEW e, e = Event("start", kind, N, puts), NEW all, all = es \o <<e>>,
         NEW p, p = [ i \in 0..N |-> IF i = N THEN kind ELSE o[i] ]
  PROVE  Traced(all, p, N + 1, d)
<1>1. e.what = "start" /\ e.kind = kind /\ e.index = N
  BY DEF Event
<1>2. /\ N \in Nat /\ DOMAIN o = 0..(N - 1) /\ IsSequence(es) /\ Followable(es) /\ Told(es, o, d)
  BY DEF Traced
<1>3. /\ IsSequence(all) /\ Len(es) \in Nat /\ DOMAIN es = 1..Len(es)
      /\ DOMAIN all = 1..(Len(es) + 1) /\ all[Len(es) + 1] = e
      /\ \A k \in 1..Len(es) : all[k] = es[k]
  <2>1. IsSequence(es)
    BY <1>2
  <2>2. AppendOf(all, es, e)
    BY <2>1, AppendIs
  <2>. QED BY <2>2 DEF AppendOf
<1>4. Follows(es, e)
  <2>1. \A k \in DOMAIN es : es[k].index # N
    BY <1>2 DEF Told
  <2>2. \A i \in 0..(N - 1) : \E k \in DOMAIN es : Begins(es[k], i)
    BY <1>2 DEF Told
  <2>. QED BY <1>1, <2>1, <2>2 DEF Follows, Fits
<1>5. Followable(all)
  BY <1>2, <1>4, AppendFollows
<1>6. /\ DOMAIN p = 0..N /\ N + 1 \in Nat /\ (N + 1) - 1 = N /\ p[N] = kind /\ N \in 0..N
      /\ \A i \in 0..(N - 1) : i \in 0..N /\ p[i] = o[i]
      /\ \A i \in 0..N : i = N \/ i \in 0..(N - 1)
  BY <1>2
<1>7. Told(all, p, d)
  <2>1. ASSUME NEW k \in 1..(Len(es) + 1)
        PROVE  /\ all[k].index \in DOMAIN p \cup {-1}
               /\ all[k].index \in DOMAIN p => all[k].kind = p[all[k].index]
               /\ all[k].what = "stop" => all[k].index \in d
    <3>1. CASE k \in 1..Len(es)
      <4>1. /\ es[k].index \in DOMAIN o \cup {-1}
            /\ es[k].index \in DOMAIN o => es[k].kind = o[es[k].index]
            /\ es[k].what = "stop" => es[k].index \in d
        BY <1>2, <1>3, <3>1 DEF Told
      <4>2. all[k] = es[k]
        BY <1>3, <3>1
      <4>3. -1 \notin 0..N
        BY <1>2
      <4>. QED BY <1>2, <1>6, <4>1, <4>2, <4>3
    <3>2. CASE k = Len(es) + 1
      BY <1>1, <1>3, <1>6, <3>2
    <3>. QED BY <1>3, <3>1, <3>2
  <2>2. ASSUME NEW i \in 0..N PROVE \E k \in 1..(Len(es) + 1) : Begins(all[k], i)
    <3>1. CASE i = N
      <4>1. Len(es) + 1 \in 1..(Len(es) + 1)
        BY <1>3
      <4>. QED BY <1>1, <1>3, <3>1, <4>1 DEF Begins
    <3>2. CASE i \in 0..(N - 1)
      <4>1. PICK k \in 1..Len(es) : Begins(es[k], i)
        BY <1>2, <1>3, <3>2 DEF Told
      <4>2. k \in 1..(Len(es) + 1)
        BY <1>3
      <4>. QED BY <1>3, <4>1, <4>2
    <3>. QED BY <1>6, <3>1, <3>2
  <2>. QED BY <1>3, <1>6, <2>1, <2>2 DEF Told
<1>. QED BY <1>3, <1>5, <1>6, <1>7 DEF Traced

\* Event e is about a block that is open, or about none.
IsAbout(e, o, d) ==
  /\ \/ e.what \in {"delta", "stop"} /\ e.index \in DOMAIN o
     \/ e.what \notin {"start", "delta", "stop"} /\ e.index = -1 /\ e.index \notin DOMAIN o
  /\ e.index \in DOMAIN o => e.kind = o[e.index] /\ e.index \notin d

LEMMA TellOfBlock ==
  ASSUME NEW es, NEW o, NEW N, NEW d, Traced(es, o, N, d),
         NEW e, IsAbout(e, o, d), NEW all, all = es \o <<e>>,
         NEW b, b = IF e.what = "stop" THEN d \cup {e.index} ELSE d
  PROVE  Traced(all, o, N, b)
<1>2. /\ N \in Nat /\ DOMAIN o = 0..(N - 1) /\ IsSequence(es) /\ Followable(es) /\ Told(es, o, d)
  BY DEF Traced
<1>3. /\ IsSequence(all) /\ Len(es) \in Nat /\ DOMAIN es = 1..Len(es)
      /\ DOMAIN all = 1..(Len(es) + 1) /\ all[Len(es) + 1] = e
      /\ \A k \in 1..Len(es) : all[k] = es[k]
  <2>1. IsSequence(es)
    BY <1>2
  <2>2. AppendOf(all, es, e)
    BY <2>1, AppendIs
  <2>. QED BY <2>2 DEF AppendOf
<1>4. Follows(es, e)
  <2>1. \A k \in DOMAIN es : Fits(es[k], e)
    BY <1>2 DEF Told, Fits, IsAbout
  <2>2. e.what \in {"delta", "stop"} => \E k \in DOMAIN es : Begins(es[k], e.index)
    BY <1>2 DEF Told, IsAbout
  <2>3. e.what # "start"
    BY DEF IsAbout
  <2>. QED BY <2>1, <2>2, <2>3 DEF Follows
<1>5. Followable(all)
  BY <1>2, <1>4, AppendFollows
<1>6. Told(all, o, b)
  <2>1. ASSUME NEW k \in 1..(Len(es) + 1)
        PROVE  /\ all[k].index \in DOMAIN o \cup {-1}
               /\ all[k].index \in DOMAIN o => all[k].kind = o[all[k].index]
               /\ all[k].what = "stop" => all[k].index \in b
    <3>1. CASE k \in 1..Len(es)
      BY <1>2, <1>3, <3>1 DEF Told
    <3>2. CASE k = Len(es) + 1
      BY <1>3, <3>2 DEF IsAbout
    <3>. QED BY <1>3, <3>1, <3>2
  <2>2. ASSUME NEW i \in DOMAIN o PROVE \E k \in 1..(Len(es) + 1) : Begins(all[k], i)
    <3>1. PICK k \in 1..Len(es) : Begins(es[k], i)
      BY <1>2, <1>3 DEF Told
    <3>2. k \in 1..(Len(es) + 1)
      BY <1>3
    <3>. QED BY <1>3, <3>1, <3>2
  <2>. QED BY <1>3, <2>1, <2>2 DEF Told
<1>. QED BY <1>2, <1>3, <1>5, <1>6 DEF Traced

Piece(begun, kind, index, piece) ==
  Begin(begun, kind, index) \o <<Event("delta", kind, index, piece)>>

\* A block that has begun is under index, or else it is the next.
HasPlace(o, N, begun, kind, index) ==
  /\ begun = TRUE => index \in DOMAIN o /\ o[index] = kind
  /\ begun = FALSE => index = N

\* After new there are M blocks, those of o among them, and the one under index if
\* it comes.
Retold(es, o, new, comes, kind, index, M) ==
  /\ IsSequence(new)
  /\ \E p : /\ Traced(es \o new, p, M, {})
            /\ \A i \in DOMAIN o : p[i] = o[i]
            /\ comes = TRUE => p[index] = kind

\* A piece of a block, which is new or is open.
LEMMA PieceTold ==
  ASSUME NEW es, NEW o, NEW N, Traced(es, o, N, {}), NEW kind, NEW index, NEW piece,
         NEW begun \in BOOLEAN, HasPlace(o, N, begun, kind, index),
         NEW new, new = Piece(begun, kind, index, piece),
         NEW M, M = IF begun = TRUE THEN N ELSE N + 1
  PROVE  Retold(es, o, new, TRUE, kind, index, M)
<1>. DEFINE s == Event("start", kind, index, <<>>)
            e == Event("delta", kind, index, piece)
<1>1. /\ e.what = "delta" /\ e.kind = kind /\ e.index = index
  BY DEF Event
<1>2. IsSequence(es) /\ IsSequence(<<s>>) /\ IsSequence(<<e>>)
  BY NothingJoined DEF Traced
<1>3. CASE begun = TRUE
  <2>0. index \in DOMAIN o /\ o[index] = kind /\ M = N
    BY <1>3 DEF HasPlace
  <2>1. new = <<e>>
    <3>1. new = <<>> \o <<e>>
      BY <1>3 DEF Begin, Piece
    <3>. HIDE DEF e
    <3>. QED BY <1>2, <3>1, NothingJoined
  <2>. HIDE DEF e
  <2>2. IsAbout(e, o, {}) /\ e.what # "stop"
    BY <1>1, <2>0 DEF IsAbout
  <2>3. Traced(es \o new, o, N, {})
    BY <2>1, <2>2, TellOfBlock
  <2>. QED BY <1>2, <2>0, <2>1, <2>3 DEF Retold
<1>4. CASE begun = FALSE
  <2>1. new = <<s>> \o <<e>>
    BY <1>4 DEF Begin, Piece
  <2>. DEFINE p == [ i \in 0..N |-> IF i = N THEN kind ELSE o[i] ]
              es1 == es \o <<s>>
  <2>2. index = N /\ N \in Nat /\ DOMAIN o = 0..(N - 1)
    BY <1>4 DEF Traced, HasPlace
  <2>3. Traced(es1, p, N + 1, {})
    BY <2>2, StartBlock
  <2>4. p[index] = kind /\ index \in DOMAIN p /\ \A i \in DOMAIN o : p[i] = o[i]
    BY <2>2
  <2>. HIDE DEF p, e, s
  <2>5. Traced(es1 \o <<e>>, p, N + 1, {})
    <3>1. IsAbout(e, p, {}) /\ e.what # "stop"
      BY <1>1, <2>4 DEF IsAbout
    <3>. HIDE DEF es1
    <3>. QED BY <2>3, <3>1, TellOfBlock
  <2>6. es \o new = es1 \o <<e>>
    <3>1. es \o (<<s>> \o <<e>>) = (es \o <<s>>) \o <<e>>
      BY <1>2, JoinsAssociate
    <3>. QED BY <2>1, <3>1
  <2>7. IsSequence(new)
    BY <1>2, <2>1, JoinIs
  <2>. QED BY <1>4, <2>4, <2>5, <2>6, <2>7 DEF Retold
<1>. QED BY <1>3, <1>4

-----------------------------------------------------------------------------
(* The blocks of the calls.                                                *)

\* The k-th event of new starts or stops block N + c - 1, that of the c-th call.
OfCall(new, N, k, c) ==
  /\ new[k].kind = "tool_use" /\ new[k].index = N + c - 1
  /\ \/ k = 2 * c - 1 /\ new[k].what = "start"
     \/ k = 2 * c /\ new[k].what = "stop"

\* M events of K calls.
AreTools(new, M, K, N) ==
  /\ K \in Nat /\ N \in Nat /\ M = 2 * K /\ DOMAIN new = 1..M
  /\ \A k \in 1..M : \E c \in 1..K : OfCall(new, N, k, c)

LEMMA ToolBlocksAre ==
  ASSUME NEW calls, Len(calls) \in Nat, NextIndex \in Nat
  PROVE  /\ AreTools(ToolBlocks(calls), 2 * Len(calls), Len(calls), NextIndex)
         /\ IsSequence(ToolBlocks(calls)) /\ Len(ToolBlocks(calls)) = 2 * Len(calls)
<1>. DEFINE K == Len(calls)
            N == NextIndex
            new == ToolBlocks(calls)
            M == 2 * K
<1>1. new = [ n \in 1..M |->
                IF n % 2 = 1 THEN Event("start", "tool_use", N + (n - 1) \div 2, calls[(n + 1) \div 2])
                             ELSE Event("stop", "tool_use", N + (n - 1) \div 2, <<>>) ]
  BY DEF ToolBlocks
<1>. HIDE DEF new
<1>2. K \in Nat /\ N \in Nat /\ M = 2 * K /\ M \in Nat
  OBVIOUS
<1>. HIDE DEF K, N, M
<1>3. ASSUME NEW k \in 1..M PROVE \E c \in 1..K : OfCall(new, N, k, c)
  <2>. DEFINE c == (k + 1) \div 2
  <2>1. /\ c \in 1..K /\ (k - 1) \div 2 = c - 1
        /\ (k % 2 = 1 => k = 2 * c - 1) /\ (k % 2 # 1 => k = 2 * c)
    BY <1>2
  <2>2. N + (k - 1) \div 2 = N + c - 1
    BY <1>2, <2>1
  <2>3. CASE k % 2 = 1
    <3>1. new[k] = Event("start", "tool_use", N + (k - 1) \div 2, calls[(k + 1) \div 2])
      BY <1>1, <2>3
    <3>2. /\ new[k].kind = "tool_use" /\ new[k].index = N + (k - 1) \div 2 /\ new[k].what = "start"
      BY <3>1 DEF Event
    <3>. QED BY <2>1, <2>2, <2>3, <3>2 DEF OfCall
  <2>4. CASE k % 2 # 1
    <3>1. new[k] = Event("stop", "tool_use", N + (k - 1) \div 2, <<>>)
      BY <1>1, <2>4
    <3>2. /\ new[k].kind = "tool_use" /\ new[k].index = N + (k - 1) \div 2 /\ new[k].what = "stop"
      BY <3>1 DEF Event
    <3>. QED BY <2>1, <2>2, <2>4, <3>2 DEF OfCall
  <2>. QED BY <2>3, <2>4
<1>4. DOMAIN new = 1..M
  BY <1>1
<1>5. new \in Seq({ new[k] : k \in 1..M }) /\ Len(new) = M
  <2>. DEFINE S == { new[k] : k \in 1..M }
  <2>1. new = [ k \in 1..M |-> new[k] ]
    BY <1>1
  <2>2. \A k \in 1..M : new[k] \in S
    OBVIOUS
  <2>. HIDE DEF S
  <2>3. new \in [1..M -> S]
    BY <2>1, <2>2, Zenon
  <2>4. new \in Seq(S)
    BY <1>2, <2>3
  <2>5. Len(new) = M
    BY <1>2, <1>4, <2>4
  <2>. QED BY <2>4, <2>5 DEF S
<1>6. AreTools(new, M, K, N)
  BY <1>2, <1>3, <1>4 DEF AreTools
<1>. QED BY <1>5, <1>6 DEF K, N, M, new, IsSequence

\* Among themselves they can be followed, after N blocks.
LEMMA ToolsFit ==
  ASSUME NEW new, NEW M, NEW K, NEW N, AreTools(new, M, K, N),
         NEW j \in 1..M, NEW k \in 1..M, j < k
  PROVE  Fits(new[j], new[k])
<1>0. K \in Nat /\ N \in Nat /\ M = 2 * K
  BY DEF AreTools
<1>1. PICK b \in 1..K : OfCall(new, N, j, b)
  BY DEF AreTools
<1>2. PICK c \in 1..K : OfCall(new, N, k, c)
  BY DEF AreTools
<1>3. /\ new[j].kind = new[k].kind /\ new[j].index = N + b - 1 /\ new[k].index = N + c - 1
  BY <1>1, <1>2 DEF OfCall
<1>4. new[j].index = new[k].index <=> b = c
  BY <1>0, <1>3
<1>5. b = c => new[k].what # "start" /\ new[j].what # "stop"
  BY <1>0, <1>1, <1>2 DEF OfCall
<1>. QED BY <1>3, <1>4, <1>5 DEF Fits

LEMMA ToolsBegin ==
  ASSUME NEW new, NEW M, NEW K, NEW N, AreTools(new, M, K, N), NEW k \in 1..M, NEW i \in Int, N <= i,
         \/ new[k].what = "start" /\ i < new[k].index
         \/ new[k].what = "stop" /\ i = new[k].index
  PROVE  \E m \in 1..M : m < k /\ Begins(new[m], i)
<1>0. K \in Nat /\ N \in Nat /\ M = 2 * K
  BY DEF AreTools
<1>1. PICK c \in 1..K : OfCall(new, N, k, c)
  BY DEF AreTools
<1>. DEFINE b == i - N + 1
            m == 2 * b - 1
<1>2. b \in 1..K /\ m \in 1..M /\ m < k /\ N + b - 1 = i
  BY <1>0, <1>1 DEF OfCall
<1>3. m = 2 * b - 1
  OBVIOUS
<1>. HIDE DEF b, m
<1>4. PICK x \in 1..K : OfCall(new, N, m, x)
  BY <1>2 DEF AreTools
<1>5. x = b /\ new[m].what = "start"
  BY <1>0, <1>2, <1>3, <1>4 DEF OfCall
<1>6. Begins(new[m], i)
  BY <1>2, <1>4, <1>5 DEF OfCall, Begins
<1>. QED BY <1>2, <1>6

\* The calls come after what was told of N blocks.
LEMMA ToolsTold ==
  ASSUME NEW es, NEW o, NEW N, NEW d, Traced(es, o, N, d),
         NEW new, NEW M, NEW K, AreTools(new, M, K, N),
         NEW all, NEW L, JoinOf(all, es, L, new, M)
  PROVE  Followable(all)
<1>0. /\ N \in Nat /\ DOMAIN o = 0..(N - 1) /\ Followable(es) /\ Told(es, o, d)
  BY DEF Traced
<1>1. /\ L \in Nat /\ M \in Nat /\ DOMAIN es = 1..L /\ DOMAIN all = 1..(L + M)
      /\ \A k \in 1..L : all[k] = es[k]
      /\ \A k \in 1..(L + M) : k \in 1..L \/ \E m \in 1..M : k = L + m
  BY DEF JoinOf
<1>2. ASSUME NEW n \in 1..L
      PROVE  /\ \A k \in 1..(n - 1) : Fits(all[k], all[n])
             /\ all[n].what = "start" =>
                  \A i \in 0..(all[n].index - 1) : \E k \in 1..(n - 1) : Begins(all[k], i)
             /\ all[n].what \in {"delta", "stop"} =>
                  \E k \in 1..(n - 1) : Begins(all[k], all[n].index)
  <2>1. all[n] = es[n] /\ \A k \in 1..(n - 1) : k \in 1..L /\ all[k] = es[k]
    BY <1>1
  <2>2. /\ \A k \in 1..(n - 1) : Fits(es[k], es[n])
        /\ es[n].what = "start" =>
             \A i \in 0..(es[n].index - 1) : \E k \in 1..(n - 1) : Begins(es[k], i)
        /\ es[n].what \in {"delta", "stop"} => \E k \in 1..(n - 1) : Begins(es[k], es[n].index)
    BY <1>0, <1>1 DEF Followable
  <2>. QED BY <2>1, <2>2
<1>3. ASSUME NEW m \in 1..M, NEW n, n = L + m
      PROVE  /\ \A k \in 1..(n - 1) : Fits(all[k], all[n])
             /\ all[n].what = "start" =>
                  \A i \in 0..(all[n].index - 1) : \E k \in 1..(n - 1) : Begins(all[k], i)
             /\ all[n].what \in {"delta", "stop"} =>
                  \E k \in 1..(n - 1) : Begins(all[k], all[n].index)
  <2>0. all[n] = new[m] /\ n \in Nat
    BY <1>1, <1>3 DEF JoinOf
  <2>1. PICK c \in 1..K : OfCall(new, N, m, c)
    BY DEF AreTools
  <2>2. /\ new[m].index \in Nat /\ N <= new[m].index /\ new[m].what \in {"start", "stop"}
    BY <1>0, <2>1 DEF OfCall, AreTools
  <2>3. ASSUME NEW k \in 1..(n - 1) PROVE Fits(all[k], all[n])
    <3>1. CASE k \in 1..L
      <4>1. es[k].index \in 0..(N - 1) \cup {-1}
        BY <1>0, <1>1, <3>1 DEF Told
      <4>2. es[k].index # new[m].index
        BY <1>0, <2>2, <4>1
      <4>. QED BY <1>1, <2>0, <3>1, <4>2 DEF Fits
    <3>2. ASSUME NEW j \in 1..M, k = L + j PROVE Fits(all[k], all[n])
      <4>1. j < m /\ all[k] = new[j]
        BY <1>1, <1>3, <3>2 DEF JoinOf
      <4>. QED BY <2>0, <4>1, ToolsFit
    <3>3. k \in 1..(L + M)
      BY <1>1, <1>3
    <3>. QED BY <1>1, <3>1, <3>2, <3>3
  <2>4. ASSUME NEW i \in Nat, \/ new[m].what = "start" /\ i < new[m].index
                              \/ new[m].what = "stop" /\ i = new[m].index
        PROVE  \E k \in 1..(n - 1) : Begins(all[k], i)
    <3>1. CASE i < N
      <4>0. i \in DOMAIN o
        BY <1>0, <3>1
      <4>1. PICK k \in 1..L : Begins(es[k], i)
        BY <1>0, <1>1, <4>0 DEF Told
      <4>2. k \in 1..(n - 1) /\ all[k] = es[k]
        BY <1>1, <1>3
      <4>. QED BY <4>1, <4>2
    <3>2. CASE N <= i
      <4>1. PICK j \in 1..M : j < m /\ Begins(new[j], i)
        BY <2>4, <3>2, ToolsBegin
      <4>2. L + j \in 1..(n - 1) /\ all[L + j] = new[j]
        BY <1>1, <1>3, <4>1 DEF JoinOf
      <4>. QED BY <4>1, <4>2
    <3>. QED BY <1>0, <3>1, <3>2
  <2>5. \A i \in 0..(new[m].index - 1) : i \in Nat /\ i < new[m].index
    BY <2>2
  <2>6. new[m].what = "start" =>
          \A i \in 0..(new[m].index - 1) : \E k \in 1..(n - 1) : Begins(all[k], i)
    BY <2>4, <2>5
  <2>7. new[m].what \in {"delta", "stop"} => \E k \in 1..(n - 1) : Begins(all[k], new[m].index)
    BY <2>2, <2>4
  <2>. QED BY <2>0, <2>3, <2>6, <2>7
<1>. QED BY <1>1, <1>2, <1>3 DEF Followable

-----------------------------------------------------------------------------
(* The variables of the handler.                                           *)

\* A chunk that says why the message stops.
Decisive(chunk) == chunk.calls # {} \/ chunk.finish # ""

\* The stop reason is that of the last chunk that says one.
StopIsOf(stop) ==
  \/ (\A n \in DOMAIN chunks : ~Decisive(chunks[n])) /\ stop = "end_turn"
  \/ \E n \in DOMAIN chunks :
       /\ Decisive(chunks[n]) /\ stop = StopAfter("", chunks[n])
       /\ \A m \in DOMAIN chunks : m > n => ~Decisive(chunks[m])

CallsAt == { n \in DOMAIN chunks : chunks[n].calls # {} }

HasLast(S) == S # {} => \E n \in S : \A m \in S : m <= n

Gathered ==
  /\ chunks \in Seq(Chunks)
  /\ local.thinkingStarted \in BOOLEAN /\ (local.thinkingStarted = TRUE <=> ReasoningAt # {})
  /\ local.textStarted \in BOOLEAN /\ (local.textStarted = TRUE <=> ContentAt # {})
  /\ local.textIndex = IF local.thinkingStarted THEN 1 ELSE 0
  /\ IsFiniteSet(DOMAIN local.toolCalls) /\ IsFiniteSet(CallIndexes)
  /\ HasLast(CallsAt) /\ StopIsOf(local.stopReason)

\* Chunk n is the next.
Comes(chunk, n) ==
  /\ n \in Nat /\ chunks' \in Seq(Chunks) /\ DOMAIN chunks' = DOMAIN chunks \cup {n}
  /\ chunks'[n] = chunk
  /\ \A m \in DOMAIN chunks : m \in Nat /\ m < n /\ chunks'[m] = chunks[m]

LEMMA ChunkComes ==
  ASSUME chunks \in Seq(Chunks), NEW chunk \in Chunks, chunks' = Append(chunks, chunk),
         NEW n, n = Len(chunks) + 1
  PROVE  Comes(chunk, n)
<1>1. /\ Len(chunks) \in Nat /\ n \in Nat /\ DOMAIN chunks = 1..Len(chunks)
      /\ DOMAIN chunks' = 1..n /\ chunks'[n] = chunk /\ chunks' \in Seq(Chunks)
      /\ \A m \in 1..Len(chunks) : chunks'[m] = chunks[m]
  OBVIOUS
<1>2. /\ 1..n = (1..Len(chunks)) \cup {n}
      /\ \A m \in 1..Len(chunks) : m \in Nat /\ m < n
  BY <1>1
<1>. QED BY <1>1, <1>2 DEF Comes

LEMMA ChunkFields ==
  ASSUME NEW chunk \in Chunks
  PROVE  /\ chunk.reasoning \in BOOLEAN /\ chunk.content \in BOOLEAN
         /\ IsFiniteSet(chunk.calls) /\ chunk.finish \in Finishes
<1>1. chunk \in Chunk(Nat)
  BY ChunksAssumption, Zenon
<1>2. chunk.reasoning \in BOOLEAN /\ chunk.content \in BOOLEAN
  BY <1>1, Zenon DEF Chunk
<1>3. chunk.finish \in Finishes
  BY <1>1, Zenon DEF Chunk
<1>4. IsFiniteSet(chunk.calls)
  BY ChunksAssumption, Zenon
<1>. QED BY <1>2, <1>3, <1>4

\* Whether reasoning or text has come is seen from the new chunk and from before.
LEMMA PlacesGrow ==
  ASSUME NEW chunk, NEW n, Comes(chunk, n)
  PROVE  /\ \A m : m \in ReasoningAt' <=> m \in ReasoningAt \/ (m = n /\ chunk.reasoning = TRUE)
         /\ \A m : m \in ContentAt' <=> m \in ContentAt \/ (m = n /\ chunk.content = TRUE)
         /\ \A m : m \in CallsAt' <=> m \in CallsAt \/ (m = n /\ chunk.calls # {})
         /\ CallIndexes' = CallIndexes \cup chunk.calls
<1>1. \A m : m \in DOMAIN chunks' <=> m \in DOMAIN chunks \/ m = n
  BY DEF Comes
<1>2. /\ chunks'[n] = chunk /\ \A m \in DOMAIN chunks : chunks'[m] = chunks[m] /\ m # n
  BY DEF Comes
<1>3. \A m : m \in ReasoningAt' <=> m \in ReasoningAt \/ (m = n /\ chunk.reasoning = TRUE)
  BY <1>1, <1>2 DEF ReasoningAt
<1>4. \A m : m \in ContentAt' <=> m \in ContentAt \/ (m = n /\ chunk.content = TRUE)
  BY <1>1, <1>2 DEF ContentAt
<1>5. \A m : m \in CallsAt' <=> m \in CallsAt \/ (m = n /\ chunk.calls # {})
  BY <1>1, <1>2 DEF CallsAt
<1>6. CallIndexes' = CallIndexes \cup chunk.calls
  BY <1>1, <1>2 DEF CallIndexes
<1>. QED BY <1>3, <1>4, <1>5, <1>6

LEMMA HandleReads ==
  ASSUME Gathered, NEW chunk \in Chunks, Handle(chunk)
  PROVE  /\ Comes(chunk, Len(chunks) + 1)
         /\ local'.thinkingStarted = (local.thinkingStarted \/ chunk.reasoning)
         /\ local'.textStarted = (local.textStarted \/ chunk.content)
         /\ local'.textIndex = TextIndex(chunk)
         /\ local'.stopReason = StopAfter(local.stopReason, chunk)
         /\ local'.toolCalls = MergeCalls(local.toolCalls, chunk.calls, Len(chunks) + 1)
<1>1. chunks' = Append(chunks, chunk) /\ chunks \in Seq(Chunks)
  BY DEF Handle, NextChunk, Gathered
<1>2. Comes(chunk, Len(chunks) + 1)
  BY <1>1, ChunkComes
<1>. QED BY <1>2 DEF Handle

LEMMA StopComes ==
  ASSUME NEW chunk, NEW n, Comes(chunk, n), StopIsOf(local.stopReason),
         local'.stopReason = StopAfter(local.stopReason, chunk)
  PROVE  StopIsOf(local.stopReason)'
<1>1. /\ \A m \in DOMAIN chunks' : m \in DOMAIN chunks \/ m = n
      /\ n \in DOMAIN chunks' /\ chunks'[n] = chunk /\ n \in Nat
      /\ \A m \in DOMAIN chunks : m \in DOMAIN chunks' /\ m \in Nat /\ m < n /\ chunks'[m] = chunks[m]
  BY DEF Comes
<1>2. CASE Decisive(chunk)
  <2>1. local'.stopReason = StopAfter("", chunk)
    BY <1>2 DEF StopAfter, Decisive
  <2>2. \A m \in DOMAIN chunks' : ~(m > n)
    BY <1>1
  <2>. QED BY <1>1, <1>2, <2>1, <2>2 DEF StopIsOf
<1>3. CASE ~Decisive(chunk)
  <2>1. local'.stopReason = local.stopReason
    BY <1>3 DEF StopAfter, Decisive
  <2>2. CASE (\A m \in DOMAIN chunks : ~Decisive(chunks[m])) /\ local.stopReason = "end_turn"
    <3>1. \A m \in DOMAIN chunks' : ~Decisive(chunks'[m])
      BY <1>1, <1>3, <2>2
    <3>. QED BY <2>1, <2>2, <3>1 DEF StopIsOf
  <2>3. ASSUME NEW d \in DOMAIN chunks, Decisive(chunks[d]),
               local.stopReason = StopAfter("", chunks[d]),
               \A m \in DOMAIN chunks : m > d => ~Decisive(chunks[m])
        PROVE  StopIsOf(local.stopReason)'
    <3>1. d \in DOMAIN chunks' /\ chunks'[d] = chunks[d]
      BY <1>1
    <3>2. \A m \in DOMAIN chunks' : m > d => ~Decisive(chunks'[m])
      BY <1>1, <1>3, <2>3
    <3>. QED BY <2>1, <2>3, <3>1, <3>2 DEF StopIsOf
  <2>. QED BY <2>2, <2>3 DEF StopIsOf
<1>. QED BY <1>2, <1>3

LEMMA HandleGathers ==
  ASSUME Gathered, NEW chunk \in Chunks, Handle(chunk)
  PROVE  Gathered'
<1>. DEFINE n == Len(chunks) + 1
<1>1. /\ Comes(chunk, n)
      /\ local'.thinkingStarted = (local.thinkingStarted \/ chunk.reasoning)
      /\ local'.textStarted = (local.textStarted \/ chunk.content)
      /\ local'.textIndex = TextIndex(chunk)
      /\ local'.stopReason = StopAfter(local.stopReason, chunk)
      /\ local'.toolCalls = MergeCalls(local.toolCalls, chunk.calls, n)
  BY HandleReads
<1>. HIDE DEF n
<1>2. chunk.reasoning \in BOOLEAN /\ chunk.content \in BOOLEAN /\ IsFiniteSet(chunk.calls)
  BY ChunkFields
<1>3. /\ local.thinkingStarted \in BOOLEAN /\ (local.thinkingStarted = TRUE <=> ReasoningAt # {})
      /\ local.textStarted \in BOOLEAN /\ (local.textStarted = TRUE <=> ContentAt # {})
      /\ local.textIndex = IF local.thinkingStarted THEN 1 ELSE 0
  BY DEF Gathered
<1>4. /\ \A m : m \in ReasoningAt' <=> m \in ReasoningAt \/ (m = n /\ chunk.reasoning = TRUE)
      /\ \A m : m \in ContentAt' <=> m \in ContentAt \/ (m = n /\ chunk.content = TRUE)
      /\ \A m : m \in CallsAt' <=> m \in CallsAt \/ (m = n /\ chunk.calls # {})
      /\ CallIndexes' = CallIndexes \cup chunk.calls
  BY <1>1, PlacesGrow
<1>5. local'.thinkingStarted \in BOOLEAN /\ (local'.thinkingStarted = TRUE <=> ReasoningAt' # {})
  <2>1. local'.thinkingStarted \in BOOLEAN
    BY <1>1, Zenon
  <2>2. local'.thinkingStarted = TRUE <=> local.thinkingStarted = TRUE \/ chunk.reasoning = TRUE
    BY <1>1, <1>2, <1>3, Zenon
  <2>3. ReasoningAt' # {} <=> ReasoningAt # {} \/ chunk.reasoning = TRUE
    BY <1>4
  <2>. QED BY <1>3, <2>1, <2>2, <2>3, Zenon
<1>6. local'.textStarted \in BOOLEAN /\ (local'.textStarted = TRUE <=> ContentAt' # {})
  <2>1. local'.textStarted \in BOOLEAN
    BY <1>1, Zenon
  <2>2. local'.textStarted = TRUE <=> local.textStarted = TRUE \/ chunk.content = TRUE
    BY <1>1, <1>2, <1>3, Zenon
  <2>3. ContentAt' # {} <=> ContentAt # {} \/ chunk.content = TRUE
    BY <1>4
  <2>. QED BY <1>3, <2>1, <2>2, <2>3, Zenon
<1>7. local'.textIndex = IF local'.thinkingStarted THEN 1 ELSE 0
  <2>1. CASE local.thinkingStarted = TRUE
    <3>1. local'.thinkingStarted = TRUE
      BY <1>1, <2>1, Zenon
    <3>. QED BY <1>1, <1>3, <2>1, <3>1 DEF TextIndex
  <2>2. CASE local.thinkingStarted = FALSE /\ chunk.reasoning = TRUE
    <3>1. local'.thinkingStarted = TRUE
      BY <1>1, <2>2, Zenon
    <3>. QED BY <1>1, <2>2, <3>1 DEF TextIndex
  <2>3. CASE local.thinkingStarted = FALSE /\ chunk.reasoning = FALSE
    <3>1. local'.thinkingStarted = FALSE
      BY <1>1, <2>3, Zenon
    <3>. QED BY <1>1, <1>3, <2>3, <3>1 DEF TextIndex
  <2>. QED BY <1>2, <1>3, <2>1, <2>2, <2>3, Zenon
<1>8. IsFiniteSet(DOMAIN local'.toolCalls) /\ IsFiniteSet(CallIndexes')
  <2>1. DOMAIN local'.toolCalls = DOMAIN local.toolCalls \cup chunk.calls
    BY <1>1 DEF MergeCalls
  <2>2. IsFiniteSet(DOMAIN local.toolCalls) /\ IsFiniteSet(CallIndexes)
    BY DEF Gathered
  <2>3. IsFiniteSet(DOMAIN local.toolCalls \cup chunk.calls) /\ IsFiniteSet(CallIndexes \cup chunk.calls)
    BY <1>2, <2>2, FS_Union
  <2>. QED BY <1>4, <2>1, <2>3
<1>9. HasLast(CallsAt')
  <2>1. \A m \in CallsAt : m \in Nat /\ m < n
    BY <1>1 DEF Comes, CallsAt
  <2>2. n \in Nat /\ HasLast(CallsAt)
    BY <1>1 DEF Comes, Gathered
  <2>3. CASE chunk.calls # {}
    <3>1. n \in CallsAt' /\ \A m \in CallsAt' : m <= n
      BY <1>4, <2>1, <2>2, <2>3
    <3>. QED BY <3>1 DEF HasLast
  <2>4. CASE chunk.calls = {}
    <3>1. CallsAt' = CallsAt
      BY <1>4, <2>4
    <3>. QED BY <2>2, <3>1
  <2>. QED BY <2>3, <2>4
<1>10. StopIsOf(local.stopReason)'
  BY <1>1, StopComes DEF Gathered
<1>11. chunks' \in Seq(Chunks)
  BY <1>1 DEF Comes
<1>. QED BY <1>5, <1>6, <1>7, <1>8, <1>9, <1>10, <1>11 DEF Gathered, HasLast

-----------------------------------------------------------------------------
(* A chunk is told.                                                        *)

LEMMA MaybeTold ==
  ASSUME NEW es, NEW o, NEW N, Traced(es, o, N, {}), NEW kind, NEW index, NEW piece,
         NEW begun \in BOOLEAN, NEW comes \in BOOLEAN,
         comes = TRUE => HasPlace(o, N, begun, kind, index),
         NEW new, new = IF comes THEN Piece(begun, kind, index, piece) ELSE <<>>,
         NEW M, M = IF comes = TRUE /\ begun = FALSE THEN N + 1 ELSE N
  PROVE  Retold(es, o, new, comes, kind, index, M)
<1>1. CASE comes = TRUE
  <2>1. new = Piece(begun, kind, index, piece) /\ HasPlace(o, N, begun, kind, index)
    BY <1>1
  <2>2. M = IF begun = TRUE THEN N ELSE N + 1
    BY <1>1
  <2>3. Retold(es, o, new, TRUE, kind, index, M)
    BY <2>1, <2>2, PieceTold
  <2>. QED BY <1>1, <2>3
<1>2. CASE comes = FALSE
  <2>1. new = <<>> /\ M = N
    BY <1>2
  <2>2. IsSequence(es)
    BY DEF Traced
  <2>3. IsSequence(new) /\ es \o new = es
    BY <2>1, <2>2, NothingJoined
  <2>. QED BY <1>2, <2>1, <2>3 DEF Retold
<1>. QED BY <1>1, <1>2

\* The N blocks of o are those that the handler has begun.
Says(o, N, l) ==
  /\ N = (IF l.thinkingStarted THEN 1 ELSE 0) + (IF l.textStarted THEN 1 ELSE 0)
  /\ l.thinkingStarted = TRUE => o[0] = "thinking"
  /\ l.textStarted = TRUE => o[l.textIndex] = "text"

\* Reasoning that begins after text makes TextFirst true, for good.
LEMMA TextFirstStays ==
  ASSUME Gathered, NEW chunk \in Chunks, Handle(chunk), ~TextFirst'
  PROVE  ~TextFirst /\ (local.thinkingStarted = FALSE /\ local.textStarted = TRUE => chunk.reasoning = FALSE)
<1>. DEFINE n == Len(chunks) + 1
<1>1. Comes(chunk, n)
  BY HandleReads
<1>. HIDE DEF n
<1>2. /\ \A m : m \in ReasoningAt' <=> m \in ReasoningAt \/ (m = n /\ chunk.reasoning = TRUE)
      /\ \A m : m \in ContentAt' <=> m \in ContentAt \/ (m = n /\ chunk.content = TRUE)
  BY <1>1, PlacesGrow
<1>3. \A m : m \in ReasoningAt \cup ContentAt => m \in Nat /\ m < n
  BY <1>1 DEF Comes, ReasoningAt, ContentAt
<1>4. ASSUME TextFirst PROVE FALSE
  <2>1. PICK c \in ContentAt : \A m \in ReasoningAt : c < m
    BY <1>4 DEF TextFirst
  <2>2. c \in ContentAt' /\ ReasoningAt' # {} /\ \A m \in ReasoningAt' : c < m
    BY <1>2, <1>3, <1>4, <2>1 DEF TextFirst
  <2>. QED BY <2>2 DEF TextFirst
<1>5. ASSUME local.thinkingStarted = FALSE, local.textStarted = TRUE, chunk.reasoning = TRUE
      PROVE  FALSE
  <2>1. ReasoningAt = {} /\ ContentAt # {}
    BY <1>5 DEF Gathered
  <2>2. PICK c \in ContentAt : TRUE
    BY <2>1
  <2>3. c \in ContentAt' /\ ReasoningAt' # {} /\ \A m \in ReasoningAt' : c < m
    BY <1>2, <1>3, <1>5, <2>1, <2>2
  <2>. QED BY <2>3 DEF TextFirst
<1>6. chunk.reasoning \in BOOLEAN
  BY ChunkFields
<1>. QED BY <1>4, <1>5, <1>6

LEMMA HandleTells ==
  ASSUME Gathered, NEW chunk \in Chunks, Handle(chunk), connected = TRUE, ~TextFirst',
         NEW o, NEW N, Traced(events, o, N, {}), Says(o, N, local)
  PROVE  \E p, M : Traced(events', p, M, {}) /\ Says(p, M, local')
<1>. DEFINE n == Len(chunks) + 1
            index == TextIndex(chunk)
            thinking == local.thinkingStarted
            text == local.textStarted
            R == IF chunk.reasoning THEN Piece(thinking, "thinking", 0, <<n>>) ELSE <<>>
            C == IF chunk.content THEN Piece(text, "text", index, <<n>>) ELSE <<>>
            es1 == events \o R
<1>1. events' = events \o (R \o C)
  BY DEF Handle, Write, Piece
<1>2. /\ local'.thinkingStarted = (thinking \/ chunk.reasoning)
      /\ local'.textStarted = (text \/ chunk.content)
      /\ local'.textIndex = index
  BY HandleReads
<1>3. /\ thinking \in BOOLEAN /\ text \in BOOLEAN
      /\ local.textIndex = IF thinking THEN 1 ELSE 0
  BY DEF Gathered
<1>4. chunk.reasoning \in BOOLEAN /\ chunk.content \in BOOLEAN
  BY ChunkFields
<1>5. /\ N \in Nat /\ DOMAIN o = 0..(N - 1) /\ IsSequence(events)
      /\ N = (IF thinking THEN 1 ELSE 0) + (IF text THEN 1 ELSE 0)
      /\ thinking = TRUE => o[0] = "thinking"
      /\ text = TRUE => o[local.textIndex] = "text"
  BY DEF Traced, Says
<1>6. /\ thinking = FALSE /\ text = TRUE => chunk.reasoning = FALSE
      /\ chunk.reasoning = TRUE /\ thinking = FALSE => index = 1
      /\ ~(chunk.reasoning = TRUE /\ thinking = FALSE) => index = local.textIndex
  <2>1. thinking = FALSE /\ text = TRUE => chunk.reasoning = FALSE
    BY TextFirstStays
  <2>2. CASE chunk.reasoning = TRUE /\ thinking = FALSE
    BY <2>1, <2>2 DEF TextIndex
  <2>3. CASE chunk.reasoning = FALSE \/ thinking = TRUE
    BY <2>1, <2>3 DEF TextIndex
  <2>. QED BY <1>3, <1>4, <2>1, <2>2, <2>3
<1>. HIDE DEF n, index, thinking, text
<1>7. PICK M : /\ M = IF chunk.reasoning = TRUE /\ thinking = FALSE THEN N + 1 ELSE N
               /\ Retold(events, o, R, chunk.reasoning, "thinking", 0, M)
  <2>. DEFINE M == IF chunk.reasoning = TRUE /\ thinking = FALSE THEN N + 1 ELSE N
  <2>1. chunk.reasoning = TRUE => HasPlace(o, N, thinking, "thinking", 0)
    <3>1. chunk.reasoning = TRUE /\ thinking = TRUE => 0 \in DOMAIN o /\ o[0] = "thinking"
      BY <1>3, <1>5
    <3>2. chunk.reasoning = TRUE /\ thinking = FALSE => 0 = N
      BY <1>3, <1>5, <1>6
    <3>. QED BY <3>1, <3>2 DEF HasPlace
  <2>2. M = IF chunk.reasoning = TRUE /\ thinking = FALSE THEN N + 1 ELSE N
    OBVIOUS
  <2>3. R = IF chunk.reasoning THEN Piece(thinking, "thinking", 0, <<n>>) ELSE <<>>
    OBVIOUS
  <2>. HIDE DEF R, M
  <2>4. Retold(events, o, R, chunk.reasoning, "thinking", 0, M)
    BY <1>3, <1>4, <2>1, <2>2, <2>3, MaybeTold
  <2>. QED BY <2>2, <2>4
<1>. HIDE DEF R, es1
<1>8. PICK p : /\ Traced(es1, p, M, {})
               /\ \A i \in DOMAIN o : p[i] = o[i]
               /\ chunk.reasoning = TRUE => p[0] = "thinking"
  BY <1>7 DEF Retold, es1
<1>9. M \in Nat /\ DOMAIN p = 0..(M - 1)
  BY <1>8 DEF Traced
<1>10. text = TRUE => index \in DOMAIN o /\ p[index] = "text" /\ index \in DOMAIN p
  <2>1. ASSUME text = TRUE PROVE index \in DOMAIN o /\ p[index] = "text" /\ index \in DOMAIN p
    <3>1. index = local.textIndex /\ index = IF thinking THEN 1 ELSE 0
      BY <1>3, <1>4, <1>6, <2>1
    <3>2. index \in DOMAIN o
      BY <1>3, <1>5, <2>1, <3>1
    <3>3. p[index] = "text"
      BY <1>5, <1>8, <2>1, <3>1, <3>2
    <3>. QED BY <1>5, <1>7, <1>9, <3>2, <3>3
  <2>. QED BY <2>1
<1>11. text = FALSE => index = M
  <2>1. ASSUME text = FALSE PROVE index = M
    <3>1. CASE thinking = TRUE
      BY <1>3, <1>5, <1>6, <1>7, <2>1, <3>1
    <3>2. CASE thinking = FALSE
      BY <1>3, <1>4, <1>5, <1>6, <1>7, <2>1, <3>2
    <3>. QED BY <1>3, <3>1, <3>2
  <2>. QED BY <2>1
<1>12. PICK L : /\ L = IF chunk.content = TRUE /\ text = FALSE THEN M + 1 ELSE M
                /\ Retold(es1, p, C, chunk.content, "text", index, L)
  <2>. DEFINE L == IF chunk.content = TRUE /\ text = FALSE THEN M + 1 ELSE M
  <2>1. HasPlace(p, M, text, "text", index)
    BY <1>10, <1>11 DEF HasPlace
  <2>2. L = IF chunk.content = TRUE /\ text = FALSE THEN M + 1 ELSE M
    OBVIOUS
  <2>3. C = IF chunk.content THEN Piece(text, "text", index, <<n>>) ELSE <<>>
    OBVIOUS
  <2>. HIDE DEF C, L
  <2>4. Retold(es1, p, C, chunk.content, "text", index, L)
    BY <1>3, <1>4, <1>8, <2>1, <2>2, <2>3, MaybeTold
  <2>. QED BY <2>2, <2>4
<1>. HIDE DEF C
<1>13. PICK q : /\ Traced(es1 \o C, q, L, {})
                /\ \A i \in DOMAIN p : q[i] = p[i]
                /\ chunk.content = TRUE => q[index] = "text"
  BY <1>12 DEF Retold
<1>14. events' = es1 \o C
  BY <1>1, <1>5, <1>7, <1>12, JoinsAssociate DEF es1, Retold
<1>15. L = (IF local'.thinkingStarted THEN 1 ELSE 0) + (IF local'.textStarted THEN 1 ELSE 0)
  <2>1. M = (IF local'.thinkingStarted THEN 1 ELSE 0) + (IF text THEN 1 ELSE 0)
    <3>1. CASE thinking = TRUE
      <4>1. local'.thinkingStarted = TRUE
        BY <1>2, <3>1, Zenon
      <4>. QED BY <1>5, <1>7, <3>1, <4>1
    <3>2. CASE thinking = FALSE /\ chunk.reasoning = TRUE
      <4>1. local'.thinkingStarted = TRUE
        BY <1>2, <3>2, Zenon
      <4>. QED BY <1>5, <1>7, <3>2, <4>1
    <3>3. CASE thinking = FALSE /\ chunk.reasoning = FALSE
      <4>1. local'.thinkingStarted = FALSE
        BY <1>2, <3>3, Zenon
      <4>. QED BY <1>5, <1>7, <3>3, <4>1
    <3>. QED BY <1>3, <1>4, <3>1, <3>2, <3>3, Zenon
  <2>2. CASE text = TRUE
    <3>1. local'.textStarted = TRUE
      BY <1>2, <2>2, Zenon
    <3>. QED BY <1>12, <2>1, <2>2, <3>1
  <2>3. CASE text = FALSE /\ chunk.content = TRUE
    <3>1. local'.textStarted = TRUE
      BY <1>2, <2>3, Zenon
    <3>. QED BY <1>9, <1>12, <2>1, <2>3, <3>1
  <2>4. CASE text = FALSE /\ chunk.content = FALSE
    <3>1. local'.textStarted = FALSE
      BY <1>2, <2>4, Zenon
    <3>. QED BY <1>12, <2>1, <2>4, <3>1
  <2>. QED BY <1>3, <1>4, <2>2, <2>3, <2>4, Zenon
<1>16. local'.thinkingStarted = TRUE => q[0] = "thinking"
  <2>1. ASSUME local'.thinkingStarted = TRUE PROVE q[0] = "thinking"
    <3>1. thinking = TRUE \/ (thinking = FALSE /\ chunk.reasoning = TRUE)
      BY <1>2, <1>3, <1>4, <2>1, Zenon
    <3>2. p[0] = "thinking" /\ 0 \in DOMAIN p
      <4>1. CASE thinking = TRUE
        <5>1. 0 \in DOMAIN o /\ o[0] = "thinking" /\ M >= 1
          BY <1>3, <1>5, <1>7, <4>1
        <5>. QED BY <1>8, <1>9, <5>1
      <4>2. CASE thinking = FALSE /\ chunk.reasoning = TRUE
        BY <1>5, <1>7, <1>8, <1>9, <4>2
      <4>. QED BY <3>1, <4>1, <4>2
    <3>. QED BY <1>13, <3>2
  <2>. QED BY <2>1
<1>17. local'.textStarted = TRUE => q[local'.textIndex] = "text"
  <2>1. ASSUME local'.textStarted = TRUE PROVE q[index] = "text"
    <3>1. text = TRUE \/ chunk.content = TRUE
      BY <1>2, <1>3, <1>4, <2>1, Zenon
    <3>. QED BY <1>10, <1>13, <3>1
  <2>. QED BY <1>2, <2>1
<1>. QED BY <1>13, <1>14, <1>15, <1>16, <1>17 DEF Says

-----------------------------------------------------------------------------
(* The end of the message.                                                 *)

LEMMA NextIndexIs ==
  ASSUME Gathered
  PROVE  NextIndex = (IF local.thinkingStarted THEN 1 ELSE 0) + (IF local.textStarted THEN 1 ELSE 0)
<1>. DEFINE a == <<"thinking", local.thinkingStarted>>
            b == <<"text", local.textStarted>>
            S == { started \in {a, b} : started[2] }
<1>1. local.thinkingStarted \in BOOLEAN /\ local.textStarted \in BOOLEAN
  BY DEF Gathered
<1>2. a # b /\ a[2] = local.thinkingStarted /\ b[2] = local.textStarted
  OBVIOUS
<1>3. NextIndex = Cardinality(S)
  BY DEF NextIndex
<1>. HIDE DEF a, b
<1>4. CASE local.thinkingStarted = FALSE /\ local.textStarted = FALSE
  <2>1. S = {}
    BY <1>2, <1>4
  <2>. HIDE DEF S
  <2>. QED BY <1>3, <1>4, <2>1, FS_EmptySet
<1>5. CASE local.thinkingStarted = TRUE /\ local.textStarted = FALSE
  <2>1. S = {a}
    BY <1>2, <1>5
  <2>. HIDE DEF S
  <2>. QED BY <1>3, <1>5, <2>1, FS_Singleton
<1>6. CASE local.thinkingStarted = FALSE /\ local.textStarted = TRUE
  <2>1. S = {b}
    BY <1>2, <1>6
  <2>. HIDE DEF S
  <2>. QED BY <1>3, <1>6, <2>1, FS_Singleton
<1>7. CASE local.thinkingStarted = TRUE /\ local.textStarted = TRUE
  <2>1. S = {a} \cup {b}
    BY <1>2, <1>7
  <2>. HIDE DEF S
  <2>2. IsFiniteSet({a}) /\ Cardinality({a}) = 1 /\ b \notin {a}
    BY <1>2, FS_Singleton
  <2>3. Cardinality({a} \cup {b}) = 2
    BY <2>2, FS_AddElement
  <2>. QED BY <1>3, <1>7, <2>1, <2>3
<1>. QED BY <1>1, <1>4, <1>5, <1>6, <1>7

\* As many calls as the loop reaches.
LEMMA ReachedIsFinite ==
  ASSUME NEW calls, IsFiniteSet(DOMAIN calls)
  PROVE  Len(Reached(calls)) \in Nat
<1>. DEFINE S == { i \in DOMAIN calls : i < Cardinality(DOMAIN calls) }
            order == InOrder(S)
            N == Cardinality(S)
<1>1. IsFiniteSet(S)
  BY FS_Subset
<1>2. N \in Nat
  BY <1>1, FS_CardinalityType
<1>3. DOMAIN order = 1..N
  BY DEF InOrder
<1>4. Reached(calls) = [ n \in DOMAIN order |-> calls[order[n]] ]
  BY DEF Reached
<1>. HIDE DEF S, order, N
<1>5. Reached(calls) = [ n \in 1..N |-> calls[order[n]] ]
  BY <1>3, <1>4
<1>. DEFINE T == { calls[order[n]] : n \in 1..N }
<1>6. \A n \in 1..N : calls[order[n]] \in T
  OBVIOUS
<1>. HIDE DEF T
<1>7. Reached(calls) \in [1..N -> T]
  BY <1>5, <1>6
<1>8. Reached(calls) \in Seq(T)
  BY <1>2, <1>7
<1>. QED BY <1>8

\* A block that has begun is open.
IsOpen(o, d, begun, kind, index) ==
  begun = TRUE => index \in DOMAIN o /\ o[index] = kind /\ index \notin d

\* If it has begun, new stops it.
StopsIt(es, o, N, d, new, begun, index) ==
  /\ IsSequence(new)
  /\ Traced(es \o new, o, N, IF begun = TRUE THEN d \cup {index} ELSE d)

LEMMA MaybeStopped ==
  ASSUME NEW es, NEW o, NEW N, NEW d, Traced(es, o, N, d), NEW kind, NEW index,
         NEW begun \in BOOLEAN, IsOpen(o, d, begun, kind, index),
         NEW new, new = IF begun THEN <<Event("stop", kind, index, <<>>)>> ELSE <<>>
  PROVE  StopsIt(es, o, N, d, new, begun, index)
<1>. DEFINE b == IF begun = TRUE THEN d \cup {index} ELSE d
            e == Event("stop", kind, index, <<>>)
<1>1. IsSequence(es) /\ IsSequence(<<e>>) /\ IsSequence(<<>>) /\ es \o <<>> = es
  BY NothingJoined DEF Traced
<1>2. e.what = "stop" /\ e.kind = kind /\ e.index = index
  BY DEF Event
<1>3. CASE begun = TRUE
  <2>1. new = <<e>>
    BY <1>3
  <2>. HIDE DEF e
  <2>2. IsAbout(e, o, d)
    BY <1>2, <1>3 DEF IsAbout, IsOpen
  <2>3. b = IF e.what = "stop" THEN d \cup {e.index} ELSE d
    BY <1>2, <1>3
  <2>4. Traced(es \o new, o, N, b)
    BY <2>1, <2>2, <2>3, TellOfBlock
  <2>. QED BY <1>1, <2>1, <2>4 DEF StopsIt
<1>4. CASE begun = FALSE
  BY <1>1, <1>4 DEF StopsIt
<1>. QED BY <1>3, <1>4

\* An event about no block may come at any time.
LEMMA PlainFollows ==
  ASSUME NEW es, IsSequence(es), Followable(es), NEW what, what \notin {"start", "delta", "stop"},
         NEW puts, NEW all, all = es \o <<Plain(what, puts)>>
  PROVE  IsSequence(all) /\ Followable(all)
<1>. DEFINE e == Plain(what, puts)
<1>1. e.what = what
  BY DEF Plain, Event
<1>2. all = es \o <<e>>
  OBVIOUS
<1>. HIDE DEF e
<1>3. Follows(es, e)
  BY <1>1 DEF Follows, Fits
<1>4. AppendOf(all, es, e)
  BY <1>2, AppendIs
<1>. QED BY <1>2, <1>3, <1>4, AppendFollows DEF AppendOf

LEMMA StopsTold ==
  ASSUME Gathered, NEW o, NEW N, Traced(events, o, N, {}), Says(o, N, local)
  PROVE  IsSequence(Stops) /\ \E d : Traced(events \o Stops, o, N, d)
<1>. DEFINE thinking == local.thinkingStarted
            text == local.textStarted
            R == IF thinking THEN <<Event("stop", "thinking", 0, <<>>)>> ELSE <<>>
            C == IF text THEN <<Event("stop", "text", local.textIndex, <<>>)>> ELSE <<>>
            a == IF thinking = TRUE THEN {} \cup {0} ELSE {}
            b == IF text = TRUE THEN a \cup {local.textIndex} ELSE a
<1>1. /\ thinking \in BOOLEAN /\ text \in BOOLEAN /\ local.textIndex = IF thinking THEN 1 ELSE 0
  BY DEF Gathered
<1>2. /\ N \in Nat /\ DOMAIN o = 0..(N - 1) /\ IsSequence(events)
      /\ N = (IF thinking THEN 1 ELSE 0) + (IF text THEN 1 ELSE 0)
      /\ thinking = TRUE => o[0] = "thinking"
      /\ text = TRUE => o[local.textIndex] = "text"
  BY DEF Traced, Says
<1>3. Stops = R \o C
  BY DEF Stops
<1>4. /\ R = IF thinking THEN <<Event("stop", "thinking", 0, <<>>)>> ELSE <<>>
      /\ C = IF text THEN <<Event("stop", "text", local.textIndex, <<>>)>> ELSE <<>>
  OBVIOUS
<1>b. /\ a = IF thinking = TRUE THEN {} \cup {0} ELSE {}
      /\ b = IF text = TRUE THEN a \cup {local.textIndex} ELSE a
  OBVIOUS
<1>. HIDE DEF thinking, text, R, C, a, b
<1>5. IsOpen(o, {}, thinking, "thinking", 0)
  BY <1>1, <1>2 DEF IsOpen
<1>6. IsSequence(R) /\ Traced(events \o R, o, N, a)
  <2>1. StopsIt(events, o, N, {}, R, thinking, 0)
    BY <1>1, <1>4, <1>5, MaybeStopped
  <2>. QED BY <1>b, <2>1 DEF StopsIt
<1>7. IsOpen(o, a, text, "text", local.textIndex)
  <2>1. CASE thinking = TRUE
    BY <1>2, <1>1, <1>b, <2>1 DEF IsOpen
  <2>2. CASE thinking = FALSE
    BY <1>2, <1>1, <1>b, <2>2 DEF IsOpen
  <2>. QED BY <1>1, <2>1, <2>2
<1>. DEFINE es1 == events \o R
<1>. HIDE DEF es1
<1>8. IsSequence(C) /\ Traced(es1 \o C, o, N, b)
  <2>1. Traced(es1, o, N, a)
    BY <1>6 DEF es1
  <2>2. StopsIt(es1, o, N, a, C, text, local.textIndex)
    BY <1>1, <1>4, <2>1, <1>7, MaybeStopped
  <2>. QED BY <1>b, <2>2 DEF StopsIt
<1>9. events \o (R \o C) = (events \o R) \o C
  BY <1>2, <1>6, <1>8, JoinsAssociate
<1>10. IsSequence(R \o C)
  BY <1>6, <1>8, JoinIs
<1>. QED BY <1>3, <1>8, <1>9, <1>10 DEF es1

\* The last events of the message: its blocks stop, its calls come, and why it stopped.
Rest == Stops \o ToolBlocks(Reached(local.toolCalls))

Ending == <<Plain("message_delta", local.stopReason), Plain("message_stop", <<>>)>>

LEMMA RestTold ==
  ASSUME Gathered, NEW o, NEW N, Traced(events, o, N, {}), Says(o, N, local)
  PROVE  Followable(events \o Rest)
<1>. DEFINE calls == Reached(local.toolCalls)
            new == ToolBlocks(calls)
            es == events \o Stops
            all == es \o new
<1>1. IsSequence(Stops) /\ \E d : Traced(es, o, N, d)
  BY StopsTold
<1>2. PICK d : Traced(es, o, N, d)
  BY <1>1
<1>3. IsSequence(events) /\ IsSequence(es) /\ N \in Nat
  BY <1>2 DEF Traced
<1>4. NextIndex = N
  BY NextIndexIs DEF Says
<1>5. Len(calls) \in Nat
  BY ReachedIsFinite DEF Gathered
<1>. HIDE DEF calls
<1>6. AreTools(new, 2 * Len(calls), Len(calls), N) /\ IsSequence(new) /\ Len(new) = 2 * Len(calls)
  BY <1>3, <1>4, <1>5, ToolBlocksAre
<1>. HIDE DEF new, es
<1>7. JoinOf(all, es, Len(es), new, 2 * Len(calls))
  BY <1>3, <1>6, JoinIs
<1>8. Followable(all)
  BY <1>2, <1>6, <1>7, ToolsTold
<1>9. events \o Rest = all
  BY <1>1, <1>3, <1>6, JoinsAssociate DEF Rest, calls, new, es
<1>. QED BY <1>8, <1>9

\* The message has not been given its end.
Unended(es) ==
  IsSequence(es) /\ \A k \in DOMAIN es : es[k].what \notin {"message_delta", "message_stop"}

LEMMA UnendedJoin ==
  ASSUME NEW es, Unended(es), NEW new, Unended(new)
  PROVE  Unended(es \o new)
<1>. DEFINE all == es \o new
<1>1. IsSequence(es) /\ IsSequence(new)
  BY DEF Unended
<1>2. IsSequence(all) /\ JoinOf(all, es, Len(es), new, Len(new))
  BY <1>1, JoinIs
<1>. HIDE DEF all
<1>3. ASSUME NEW k \in DOMAIN all PROVE all[k].what \notin {"message_delta", "message_stop"}
  <2>1. CASE k \in 1..Len(es)
    <3>1. all[k] = es[k] /\ k \in DOMAIN es
      BY <1>2, <2>1 DEF JoinOf
    <3>. QED BY <3>1 DEF Unended
  <2>2. ASSUME NEW m \in 1..Len(new), k = Len(es) + m PROVE all[k].what \notin {"message_delta", "message_stop"}
    <3>1. all[k] = new[m] /\ m \in DOMAIN new
      BY <1>2, <2>2 DEF JoinOf
    <3>. QED BY <3>1 DEF Unended
  <2>3. k \in 1..Len(es) \/ \E m \in 1..Len(new) : k = Len(es) + m
    BY <1>2 DEF JoinOf
  <2>. QED BY <2>1, <2>2, <2>3
<1>. QED BY <1>2, <1>3 DEF Unended, all

LEMMA UnendedEvents ==
  /\ Unended(<<>>)
  /\ \A what, kind, index, puts :
       what \notin {"message_delta", "message_stop"} => Unended(<<Event(what, kind, index, puts)>>)
<1>1. <<>> \in Seq({})
  OBVIOUS
<1>2. Unended(<<>>)
  BY <1>1 DEF Unended, IsSequence
<1>3. ASSUME NEW what, NEW kind, NEW index, NEW puts, what \notin {"message_delta", "message_stop"}
      PROVE  Unended(<<Event(what, kind, index, puts)>>)
  <2>. DEFINE e == Event(what, kind, index, puts)
  <2>1. e.what = what
    BY DEF Event
  <2>. HIDE DEF e
  <2>2. <<e>> \in Seq({e}) /\ DOMAIN <<e>> = {1} /\ <<e>>[1] = e
    OBVIOUS
  <2>3. Unended(<<e>>)
    BY <1>3, <2>1, <2>2 DEF Unended, IsSequence
  <2>. QED BY <2>3 DEF e
<1>. QED BY <1>2, <1>3

LEMMA RestUnended ==
  ASSUME Gathered
  PROVE  Unended(Rest)
<1>. DEFINE R == IF local.thinkingStarted THEN <<Event("stop", "thinking", 0, <<>>)>> ELSE <<>>
            C == IF local.textStarted THEN <<Event("stop", "text", local.textIndex, <<>>)>> ELSE <<>>
            calls == Reached(local.toolCalls)
            new == ToolBlocks(calls)
<1>1. local.thinkingStarted \in BOOLEAN /\ local.textStarted \in BOOLEAN
  BY DEF Gathered
<1>2. /\ Unended(<<>>) /\ Unended(<<Event("stop", "thinking", 0, <<>>)>>)
      /\ Unended(<<Event("stop", "text", local.textIndex, <<>>)>>)
  BY UnendedEvents
<1>3. Unended(R)
  BY <1>1, <1>2, Zenon
<1>4. Unended(C)
  BY <1>1, <1>2, Zenon
<1>. HIDE DEF R, C
<1>5. Unended(R \o C)
  BY <1>3, <1>4, UnendedJoin
<1>6. Unended(Stops)
  BY <1>5 DEF Stops, R, C
<1>7. Len(calls) \in Nat /\ NextIndex \in Nat
  <2>1. NextIndex \in Nat
    BY <1>1, NextIndexIs
  <2>. QED BY <2>1, ReachedIsFinite DEF Gathered
<1>. HIDE DEF calls
<1>8. AreTools(new, 2 * Len(calls), Len(calls), NextIndex) /\ IsSequence(new)
  BY <1>7, ToolBlocksAre
<1>. HIDE DEF new
<1>9. Unended(new)
  BY <1>8 DEF AreTools, OfCall, Unended
<1>10. Unended(Stops \o new)
  BY <1>6, <1>9, UnendedJoin
<1>. QED BY <1>10 DEF Rest, new, calls

\* The message is given one end, with the stop reason of the handler.
LEMMA EndingTells ==
  ASSUME NEW es, Unended(es), NEW all, all = es \o (Rest \o Ending), Gathered
  PROVE  /\ IsSequence(all)
         /\ \A k \in DOMAIN all : all[k].what = "message_delta" => all[k].puts = local.stopReason
         /\ Followable(es \o Rest) => Followable(all)
<1>. DEFINE p == Plain("message_delta", local.stopReason)
            q == Plain("message_stop", <<>>)
            a == es \o Rest
            b == a \o <<p>>
<1>1. p.what = "message_delta" /\ p.puts = local.stopReason /\ q.what = "message_stop"
  BY DEF Plain, Event
<1>2. Unended(a)
  BY RestUnended, UnendedJoin
<1>3. IsSequence(es) /\ IsSequence(Rest) /\ IsSequence(a)
  BY <1>2, RestUnended DEF Unended
<1>4. IsSequence(<<p>>) /\ IsSequence(<<q>>)
  BY <1>3, NothingJoined
<1>5. Ending = <<p>> \o <<q>>
  BY DEF Ending
<1>6. IsSequence(Ending)
  BY <1>4, <1>5, JoinIs
<1>7. all = a \o Ending
  BY <1>3, <1>6, JoinsAssociate
<1>8. Followable(a) => Followable(b)
  BY <1>3, PlainFollows
<1>. HIDE DEF p, q, a
<1>9. all = b \o <<q>>
  BY <1>3, <1>4, <1>5, <1>7, JoinsAssociate
<1>10. AppendOf(b, a, p)
  BY <1>3, AppendIs
<1>11. IsSequence(b)
  BY <1>10 DEF AppendOf
<1>. HIDE DEF b
<1>12. AppendOf(all, b, q)
  BY <1>9, <1>11, AppendIs
<1>13. Followable(b) => Followable(all)
  BY <1>9, <1>11, PlainFollows DEF q
<1>14. ASSUME NEW k \in DOMAIN all, all[k].what = "message_delta" PROVE all[k].puts = local.stopReason
  <2>1. DOMAIN b = 1..(Len(a) + 1) /\ Len(a) \in Nat /\ DOMAIN a = 1..Len(a)
    BY <1>10 DEF AppendOf
  <2>2. Len(b) = Len(a) + 1
    <3>1. DOMAIN b = 1..Len(b) /\ Len(b) \in Nat
      BY <1>12 DEF AppendOf
    <3>2. 1..Len(b) = 1..(Len(a) + 1)
      BY <2>1, <3>1
    <3>3. Len(a) + 1 \in 1..Len(b) /\ Len(a) + 2 \notin 1..Len(b)
      BY <2>1, <3>2
    <3>. QED BY <2>1, <3>1, <3>3
  <2>3. k \in 1..Len(a) \/ k = Len(a) + 1 \/ k = Len(b) + 1
    BY <1>12, <2>1, <2>2 DEF AppendOf
  <2>4. CASE k \in 1..Len(a)
    <3>1. all[k] = b[k] /\ b[k] = a[k]
      <4>1. k \in 1..Len(b)
        BY <2>1, <2>2, <2>4
      <4>. QED BY <1>10, <1>12, <2>4, <4>1 DEF AppendOf
    <3>. QED BY <1>2, <1>14, <2>1, <2>4, <3>1 DEF Unended
  <2>5. CASE k = Len(a) + 1
    <3>1. all[k] = b[k] /\ b[k] = p
      BY <1>10, <1>12, <2>1, <2>2, <2>5 DEF AppendOf
    <3>. QED BY <1>1, <3>1
  <2>6. CASE k = Len(b) + 1
    <3>1. all[k] = q
      BY <1>12, <2>6 DEF AppendOf
    <3>. QED BY <1>1, <1>14, <3>1
  <2>. QED BY <2>3, <2>4, <2>5, <2>6
<1>15. IsSequence(all)
  BY <1>12 DEF AppendOf
<1>. QED BY <1>8, <1>13, <1>14, <1>15 DEF a

-----------------------------------------------------------------------------
(* Why the message stopped.                                                *)

LEMMA LatestIs ==
  ASSUME NEW S, S \subseteq Nat, NEW n \in S, \A m \in S : m <= n
  PROVE  Latest(S) = n
<1>1. Latest(S) \in S /\ \A m \in S : m <= Latest(S)
  BY DEF Latest
<1>2. Latest(S) <= n /\ n <= Latest(S) /\ Latest(S) \in Nat /\ n \in Nat
  BY <1>1
<1>. QED BY <1>2

LEMMA AnswerHasCalls ==
  ASSUME Gathered
  PROVE  Answer.calls # <<>> <=> CallsAt # {}
<1>. DEFINE order == InOrder(CallIndexes)
            calls == [ k \in DOMAIN order |->
                         [id |-> order[k], arguments |-> InOrder(CallAt(order[k]))] ]
<1>1. Answer.calls = calls
  BY DEF Answer
<1>2. DOMAIN calls = 1..Cardinality(CallIndexes)
  BY DEF InOrder
<1>3. IsFiniteSet(CallIndexes) /\ Cardinality(CallIndexes) \in Nat
  BY FS_CardinalityType DEF Gathered
<1>4. CallIndexes # {} <=> CallsAt # {}
  BY DEF CallIndexes, CallsAt
<1>5. calls = [ k \in DOMAIN calls |-> calls[k] ]
  OBVIOUS
<1>. HIDE DEF order, calls
<1>6. CASE CallIndexes = {}
  <2>1. DOMAIN calls = {}
    BY <1>2, <1>6, FS_EmptySet
  <2>2. calls = [ k \in {} |-> calls[k] ]
    BY <1>5, <2>1
  <2>3. [ k \in {} |-> calls[k] ] = <<>>
    OBVIOUS
  <2>. QED BY <1>1, <1>4, <1>6, <2>2, <2>3
<1>7. CASE CallIndexes # {}
  <2>1. Cardinality(CallIndexes) # 0
    BY <1>3, <1>7, FS_EmptySet
  <2>2. 1 \in DOMAIN calls
    BY <1>2, <1>3, <2>1
  <2>3. DOMAIN <<>> = {}
    OBVIOUS
  <2>. QED BY <1>1, <1>4, <1>7, <2>2, <2>3
<1>. QED BY <1>6, <1>7

LEMMA StopAgrees ==
  ASSUME Gathered, ~OtherFinishAfterCalls
  PROVE  local.stopReason = StopReason(FinishReason, Answer.calls)
<1>1. chunks \in Seq(Chunks) /\ HasLast(CallsAt) /\ StopIsOf(local.stopReason)
  BY DEF Gathered
<1>2. DOMAIN chunks \subseteq Nat
  BY <1>1
<1>3. CallsAt \subseteq Nat /\ FinishAt \subseteq Nat
  BY <1>2 DEF CallsAt, FinishAt
<1>4. CASE CallsAt = {}
  <2>1. StopReason(FinishReason, Answer.calls) = FinishToStop(FinishReason)
    BY <1>4, AnswerHasCalls DEF StopReason
  <2>2. \A n \in DOMAIN chunks : chunks[n].calls = {} /\ (Decisive(chunks[n]) <=> n \in FinishAt)
    BY <1>4 DEF CallsAt, FinishAt, Decisive
  <2>3. CASE (\A n \in DOMAIN chunks : ~Decisive(chunks[n])) /\ local.stopReason = "end_turn"
    <3>1. FinishAt = {}
      BY <2>2, <2>3 DEF FinishAt
    <3>2. FinishReason = ""
      BY <3>1 DEF FinishReason
    <3>3. FinishToStop("") = "end_turn"
      BY DEF FinishToStop
    <3>. QED BY <2>1, <2>3, <3>2, <3>3
  <2>4. ASSUME NEW d \in DOMAIN chunks, Decisive(chunks[d]), local.stopReason = StopAfter("", chunks[d]),
               \A m \in DOMAIN chunks : m > d => ~Decisive(chunks[m])
        PROVE  local.stopReason = FinishToStop(FinishReason)
    <3>1. d \in FinishAt /\ chunks[d].calls = {} /\ chunks[d].finish # ""
      BY <2>2, <2>4 DEF FinishAt
    <3>2. \A m \in FinishAt : m <= d
      <4>1. SUFFICES ASSUME NEW m \in FinishAt PROVE m <= d
        OBVIOUS
      <4>2. m \in DOMAIN chunks /\ m \in Nat /\ d \in Nat
        BY <1>2, <1>3, <2>4 DEF FinishAt
      <4>3. ~(m > d)
        BY <2>2, <2>4, <4>2
      <4>. QED BY <4>2, <4>3
    <3>3. Latest(FinishAt) = d
      BY <1>3, <3>1, <3>2, LatestIs
    <3>4. FinishReason = chunks[d].finish
      BY <3>1, <3>3 DEF FinishReason
    <3>. QED BY <2>4, <3>1, <3>4 DEF StopAfter
  <2>. QED BY <1>1, <2>1, <2>3, <2>4 DEF StopIsOf
<1>5. CASE CallsAt # {}
  <2>1. Answer.calls # <<>> /\ StopReason(FinishReason, Answer.calls) = "tool_use"
    BY <1>5, AnswerHasCalls DEF StopReason
  <2>2. PICK l \in CallsAt : \A m \in CallsAt : m <= l
    BY <1>1, <1>5 DEF HasLast
  <2>3. LastCall = l
    <3>1. Latest(CallsAt) = l
      BY <1>3, <2>2, LatestIs
    <3>. QED BY <1>5, <3>1 DEF LastCall, CallsAt
  <2>4. l \in DOMAIN chunks /\ Decisive(chunks[l]) /\ chunks[l].calls # {}
    BY <2>2 DEF CallsAt, Decisive
  <2>5. PICK d \in DOMAIN chunks :
          /\ Decisive(chunks[d]) /\ local.stopReason = StopAfter("", chunks[d])
          /\ \A m \in DOMAIN chunks : m > d => ~Decisive(chunks[m])
    BY <1>1, <2>4 DEF StopIsOf
  <2>6. CASE chunks[d].calls # {}
    BY <2>1, <2>5, <2>6 DEF StopAfter
  <2>7. CASE chunks[d].calls = {}
    <3>1. chunks[d].finish # "" /\ d # l
      BY <2>4, <2>5, <2>7 DEF Decisive
    <3>2. ~(l > d)
      BY <2>4, <2>5
    <3>3. d > l
      <4>1. d \in Nat /\ l \in Nat
        BY <1>2, <2>4, <2>5
      <4>2. d # l
        BY <3>1
      <4>3. \A x, y \in Nat : x # y /\ ~(y > x) => x > y
        OBVIOUS
      <4>. QED BY <3>2, <4>1, <4>2, <4>3
    <3>4. chunks[d].finish = "tool_calls"
      BY <2>1, <2>3, <3>1, <3>3 DEF OtherFinishAfterCalls
    <3>5. FinishToStop("tool_calls") = "tool_use"
      BY DEF FinishToStop
    <3>. QED BY <2>1, <2>5, <2>7, <3>4, <3>5 DEF StopAfter
  <2>. QED BY <2>6, <2>7
<1>. QED BY <1>4, <1>5

-----------------------------------------------------------------------------
(* The invariant.                                                          *)

Typed ==
  /\ pc \in {"start", "stream", "closed"}
  /\ connected \in BOOLEAN
  /\ upstream \in {"open", "ended", "failed"}

\* What the client was told: until reasoning begins after text, its blocks are the
\* ones the handler has begun, and its message ends with the handler.
Heard ==
  /\ IsSequence(events)
  /\ pc = "start" => events = <<>> /\ local.thinkingStarted = FALSE /\ local.textStarted = FALSE
  /\ TextFirst \/ Followable(events)
  /\ pc = "stream" /\ connected = TRUE /\ ~TextFirst =>
       \E o, N : Traced(events, o, N, {}) /\ Says(o, N, local)
  /\ pc # "closed" => Unended(events)
  /\ StopReasonAgrees

IInv == Typed /\ Gathered /\ Heard

LEMMA NothingTold ==
  ASSUME NEW es, es = <<>>
  PROVE  IsSequence(es) /\ Unended(es) /\ Followable(es) /\ \E o : Traced(es, o, 0, {})
<1>1. es \in Seq({}) /\ DOMAIN es = {}
  OBVIOUS
<1>2. IsSequence(es) /\ Unended(es) /\ Followable(es)
  BY <1>1 DEF IsSequence, Unended, Followable
<1>. DEFINE o == [ i \in {} |-> "" ]
<1>3. DOMAIN o = {} /\ 0..(0 - 1) = {}
  OBVIOUS
<1>. HIDE DEF o
<1>4. Told(es, o, {})
  BY <1>1, <1>3 DEF Told
<1>5. Traced(es, o, 0, {})
  BY <1>2, <1>3, <1>4 DEF Traced
<1>. QED BY <1>2, <1>5

LEMMA UnendedAgrees ==
  ASSUME Unended(events)
  PROVE  StopReasonAgrees
BY DEF StopReasonAgrees, Unended

LEMMA InitGathered == Init => Gathered
<1>. SUFFICES ASSUME Init PROVE Gathered
  OBVIOUS
<1>1. /\ chunks = <<>> /\ local.thinkingStarted = FALSE /\ local.textStarted = FALSE
      /\ local.textIndex = 0 /\ local.stopReason = "end_turn" /\ DOMAIN local.toolCalls = {}
  BY DEF Init, StreamInit
<1>2. chunks \in Seq(Chunks) /\ DOMAIN chunks = {}
  BY <1>1
<1>3. ReasoningAt = {} /\ ContentAt = {} /\ CallsAt = {} /\ CallIndexes = {}
  BY <1>2 DEF ReasoningAt, ContentAt, CallsAt, CallIndexes
<1>4. IsFiniteSet({})
  BY FS_EmptySet
<1>5. StopIsOf(local.stopReason)
  BY <1>1, <1>2 DEF StopIsOf
<1>. QED BY <1>1, <1>2, <1>3, <1>4, <1>5 DEF Gathered, HasLast

LEMMA InitInvariant == Init => IInv
<1>. SUFFICES ASSUME Init PROVE IInv
  OBVIOUS
<1>1. Gathered
  BY InitGathered
<1>2. Typed
  BY DEF Init, StreamInit, Typed
<1>3. /\ events = <<>> /\ pc = "start"
      /\ local.thinkingStarted = FALSE /\ local.textStarted = FALSE
  BY DEF Init
<1>4. IsSequence(events) /\ Unended(events) /\ Followable(events)
  BY <1>3, NothingTold
<1>5. StopReasonAgrees
  BY <1>4, UnendedAgrees
<1>6. Heard
  BY <1>3, <1>4, <1>5 DEF Heard
<1>. QED BY <1>1, <1>2, <1>6 DEF IInv

-----------------------------------------------------------------------------
(* The steps.                                                              *)

\* The handler's variables are those of before.
LEMMA GatheredStays ==
  ASSUME Gathered, UNCHANGED <<chunks, local>>
  PROVE  Gathered' /\ (TextFirst' <=> TextFirst)
<1>1. /\ ReasoningAt' = ReasoningAt /\ ContentAt' = ContentAt /\ CallsAt' = CallsAt
      /\ CallIndexes' = CallIndexes
  BY DEF ReasoningAt, ContentAt, CallsAt, CallIndexes
<1>2. StopIsOf(local.stopReason)'
  BY DEF StopIsOf, Gathered
<1>3. TextFirst' <=> TextFirst
  BY <1>1 DEF TextFirst
<1>4. Gathered'
  BY <1>1, <1>2 DEF Gathered, HasLast
<1>. QED BY <1>3, <1>4

LEMMA AnswerStays ==
  ASSUME UNCHANGED chunks
  PROVE  /\ Answer.calls' = Answer.calls /\ FinishReason' = FinishReason
         /\ OtherFinishAfterCalls' <=> OtherFinishAfterCalls
<1>1. chunks' = chunks
  OBVIOUS
<1>2. Answer.calls' = Answer.calls
  BY <1>1 DEF Answer, ReasoningAt, ContentAt, CallIndexes, CallAt
<1>3. FinishReason' = FinishReason
  BY <1>1 DEF FinishReason, FinishAt
<1>4. LastCall' = LastCall
  BY <1>1 DEF LastCall
<1>5. OtherFinishAfterCalls' <=> OtherFinishAfterCalls
  BY <1>1, <1>2, <1>4 DEF OtherFinishAfterCalls
<1>. QED BY <1>2, <1>3, <1>5

LEMMA AgreesStays ==
  ASSUME StopReasonAgrees, UNCHANGED <<chunks, events>>
  PROVE  StopReasonAgrees'
BY AnswerStays DEF StopReasonAgrees

LEMMA StartKeeps ==
  ASSUME IInv, Start
  PROVE  IInv'
<1>. DEFINE e == Plain("message_start", <<>>)
<1>1. /\ pc = "start" /\ UNCHANGED <<chunks, upstream, connected, local>>
      /\ events' = (IF connected THEN events \o <<e>> ELSE events)
      /\ pc' = (IF connected THEN "stream" ELSE "closed")
  BY DEF Start, Write, streamVars
<1>2. Typed /\ Gathered /\ Heard
  BY DEF IInv
<1>3. Gathered'
  BY <1>1, <1>2, GatheredStays
<1>4. connected \in BOOLEAN
  BY <1>2 DEF Typed
<1>5. Typed'
  BY <1>1, <1>2 DEF Typed
<1>6. events = <<>> /\ local.thinkingStarted = FALSE /\ local.textStarted = FALSE
  BY <1>1, <1>2 DEF Heard
<1>7. Unended(<<e>>)
  BY UnendedEvents DEF Plain
<1>8. PICK o : Traced(events, o, 0, {})
  BY <1>6, NothingTold
<1>9. IsAbout(e, o, {}) /\ e.what # "stop"
  BY <1>8 DEF IsAbout, Plain, Event, Traced
<1>. DEFINE all == events \o <<e>>
<1>. HIDE DEF e
<1>10. Traced(all, o, 0, {})
  BY <1>8, <1>9, TellOfBlock
<1>11. Says(o, 0, local')
  BY <1>1, <1>6 DEF Says
<1>12. Unended(events) /\ IsSequence(events)
  BY <1>6, NothingTold
<1>13. Unended(all)
  BY <1>7, <1>12, UnendedJoin
<1>. HIDE DEF all
<1>14. CASE connected = TRUE
  <2>1. events' = all /\ pc' = "stream"
    BY <1>1, <1>14 DEF all
  <2>2. IsSequence(events') /\ Followable(events') /\ Unended(events')
    BY <1>10, <1>13, <2>1 DEF Traced
  <2>3. StopReasonAgrees'
    BY <2>2 DEF StopReasonAgrees, Unended
  <2>4. Traced(events', o, 0, {})
    BY <1>10, <2>1
  <2>. QED BY <1>3, <1>5, <1>11, <2>1, <2>2, <2>3, <2>4 DEF IInv, Heard
<1>15. CASE connected = FALSE
  <2>1. events' = events /\ pc' = "closed"
    BY <1>1, <1>15
  <2>2. IsSequence(events') /\ Followable(events') /\ Unended(events')
    BY <1>6, <2>1, NothingTold
  <2>3. StopReasonAgrees'
    BY <2>2 DEF StopReasonAgrees, Unended
  <2>. QED BY <1>3, <1>5, <2>1, <2>2, <2>3 DEF IInv, Heard
<1>. QED BY <1>4, <1>14, <1>15

\* What a chunk writes is no end.
LEMMA HandleUnended ==
  ASSUME Gathered, Unended(events), NEW chunk \in Chunks, Handle(chunk), connected \in BOOLEAN
  PROVE  Unended(events')
<1>. DEFINE n == Len(chunks) + 1
            R == IF chunk.reasoning
                   THEN Begin(local.thinkingStarted, "thinking", 0) \o <<Event("delta", "thinking", 0, <<n>>)>>
                   ELSE <<>>
            C == IF chunk.content
                   THEN Begin(local.textStarted, "text", TextIndex(chunk))
                          \o <<Event("delta", "text", TextIndex(chunk), <<n>>)>>
                   ELSE <<>>
<1>1. events' = IF connected THEN events \o (R \o C) ELSE events
  BY DEF Handle, Write
<1>2. /\ local.thinkingStarted \in BOOLEAN /\ local.textStarted \in BOOLEAN
      /\ chunk.reasoning \in BOOLEAN /\ chunk.content \in BOOLEAN
  BY ChunkFields DEF Gathered
<1>3. ASSUME NEW begun \in BOOLEAN, NEW kind, NEW index, NEW piece
      PROVE  Unended(Begin(begun, kind, index) \o <<Event("delta", kind, index, piece)>>)
  <2>1. Unended(<<Event("start", kind, index, <<>>)>>) /\ Unended(<<>>)
    BY UnendedEvents
  <2>2. Unended(Begin(begun, kind, index))
    BY <2>1, Zenon DEF Begin
  <2>3. Unended(<<Event("delta", kind, index, piece)>>)
    BY UnendedEvents
  <2>. QED BY <2>2, <2>3, UnendedJoin
<1>4. Unended(<<>>)
  BY UnendedEvents
<1>5. Unended(R)
  BY <1>2, <1>3, <1>4, Zenon
<1>6. Unended(C)
  BY <1>2, <1>3, <1>4, Zenon
<1>. HIDE DEF R, C
<1>7. Unended(R \o C)
  BY <1>5, <1>6, UnendedJoin
<1>8. Unended(events \o (R \o C))
  BY <1>7, UnendedJoin
<1>. QED BY <1>1, <1>8, Zenon

LEMMA ChunkKeeps ==
  ASSUME IInv, NEW chunk \in Chunks, Handle(chunk)
  PROVE  IInv'
<1>1. /\ pc = "stream" /\ pc' = pc /\ connected' = connected
      /\ upstream' \in {"open", "failed"}
  BY DEF Handle, NextChunk
<1>2. Typed /\ Gathered /\ Heard
  BY DEF IInv
<1>3. Gathered'
  BY <1>2, HandleGathers
<1>4. Typed'
  BY <1>1, <1>2 DEF Typed
<1>5. connected \in BOOLEAN /\ Unended(events)
  BY <1>1, <1>2 DEF Typed, Heard
<1>6. Unended(events')
  BY <1>2, <1>5, HandleUnended
<1>7. StopReasonAgrees' /\ IsSequence(events')
  BY <1>6 DEF StopReasonAgrees, Unended
<1>8. CASE TextFirst'
  BY <1>1, <1>3, <1>4, <1>6, <1>7, <1>8 DEF IInv, Heard
<1>9. CASE ~TextFirst'
  <2>1. ~TextFirst
    BY <1>2, <1>9, TextFirstStays
  <2>2. CASE connected = TRUE
    <3>1. PICK o, N : Traced(events, o, N, {}) /\ Says(o, N, local)
      BY <1>1, <1>2, <2>1, <2>2 DEF Heard
    <3>2. PICK p, M : Traced(events', p, M, {}) /\ Says(p, M, local')
      BY <1>2, <1>9, <2>2, <3>1, HandleTells
    <3>3. Followable(events')
      BY <3>2 DEF Traced
    <3>. QED BY <1>1, <1>3, <1>4, <1>6, <1>7, <3>2, <3>3 DEF IInv, Heard
  <2>3. CASE connected = FALSE
    <3>1. events' = events
      BY <2>3 DEF Handle, Write
    <3>2. Followable(events')
      BY <1>2, <2>1, <3>1 DEF Heard
    <3>. QED BY <1>1, <1>3, <1>4, <1>6, <1>7, <2>3, <3>2 DEF IInv, Heard
  <2>. QED BY <1>5, <2>2, <2>3
<1>. QED BY <1>8, <1>9

LEMMA UpstreamEndsKeeps ==
  ASSUME IInv, UpstreamEnds
  PROVE  IInv'
<1>1. /\ UNCHANGED <<chunks, pc, connected, events, local>> /\ upstream' \in {"ended", "failed"}
  BY DEF UpstreamEnds, EndOfStream, StreamBreaks
<1>2. Typed /\ Gathered /\ Heard
  BY DEF IInv
<1>3. Gathered' /\ (TextFirst' <=> TextFirst)
  BY <1>1, <1>2, GatheredStays
<1>4. StopReasonAgrees'
  BY <1>1, <1>2, AgreesStays DEF Heard
<1>5. Typed'
  BY <1>1, <1>2 DEF Typed
<1>6. Heard'
  BY <1>1, <1>2, <1>3, <1>4 DEF Heard
<1>. QED BY <1>3, <1>5, <1>6 DEF IInv

LEMMA FailKeeps ==
  ASSUME IInv, Fail
  PROVE  IInv'
<1>. DEFINE e == Plain("error", <<>>)
            all == events \o <<e>>
<1>1. /\ pc = "stream" /\ UNCHANGED <<chunks, upstream, connected, local>> /\ pc' = "closed"
      /\ events' = (IF connected THEN all ELSE events)
  BY DEF Fail, Write, streamVars
<1>2. Typed /\ Gathered /\ Heard
  BY DEF IInv
<1>3. Gathered' /\ (TextFirst' <=> TextFirst)
  BY <1>1, <1>2, GatheredStays
<1>4. Typed'
  BY <1>1, <1>2 DEF Typed
<1>5. connected \in BOOLEAN /\ Unended(events)
  BY <1>1, <1>2 DEF Typed, Heard
<1>6. Unended(<<e>>)
  BY UnendedEvents DEF Plain
<1>7. Unended(all)
  BY <1>5, <1>6, UnendedJoin
<1>8. Followable(events) => Followable(all)
  BY <1>5, PlainFollows DEF Unended
<1>. HIDE DEF all
<1>9. Unended(events') /\ (Followable(events) => Followable(events'))
  BY <1>1, <1>5, <1>7, <1>8, Zenon
<1>10. StopReasonAgrees' /\ IsSequence(events')
  BY <1>9 DEF StopReasonAgrees, Unended
<1>11. TextFirst' \/ Followable(events')
  BY <1>2, <1>3, <1>9 DEF Heard
<1>12. Heard'
  BY <1>1, <1>10, <1>11 DEF Heard
<1>. QED BY <1>3, <1>4, <1>12 DEF IInv

LEMMA FinishKeeps ==
  ASSUME IInv, Finish
  PROVE  IInv'
<1>. DEFINE all == events \o (Rest \o Ending)
<1>1. /\ pc = "stream" /\ UNCHANGED <<chunks, upstream, connected, local>> /\ pc' = "closed"
      /\ events' = (IF connected THEN all ELSE events)
  BY DEF Finish, Write, streamVars, Rest, Ending
<1>2. Typed /\ Gathered /\ Heard
  BY DEF IInv
<1>3. Gathered' /\ (TextFirst' <=> TextFirst)
  BY <1>1, <1>2, GatheredStays
<1>4. Typed'
  BY <1>1, <1>2 DEF Typed
<1>5. connected \in BOOLEAN /\ Unended(events)
  BY <1>1, <1>2 DEF Typed, Heard
<1>6. /\ IsSequence(all)
      /\ \A k \in DOMAIN all : all[k].what = "message_delta" => all[k].puts = local.stopReason
      /\ Followable(events \o Rest) => Followable(all)
  BY <1>2, <1>5, EndingTells
<1>. HIDE DEF all
<1>7. CASE connected = TRUE
  <2>1. events' = all
    BY <1>1, <1>7
  <2>2. TextFirst' \/ Followable(all)
    <3>1. CASE TextFirst
      BY <1>3, <3>1
    <3>2. CASE ~TextFirst
      <4>1. PICK o, N : Traced(events, o, N, {}) /\ Says(o, N, local)
        BY <1>1, <1>2, <1>7, <3>2 DEF Heard
      <4>2. Followable(events \o Rest)
        BY <1>2, <4>1, RestTold
      <4>. QED BY <1>6, <4>2
    <3>. QED BY <3>1, <3>2
  <2>3. StopReasonAgrees'
    <3>1. ~OtherFinishAfterCalls => local.stopReason = StopReason(FinishReason, Answer.calls)
      BY <1>2, StopAgrees
    <3>2. /\ Answer.calls' = Answer.calls /\ FinishReason' = FinishReason
          /\ OtherFinishAfterCalls' <=> OtherFinishAfterCalls
      BY <1>1, AnswerStays
    <3>. QED BY <1>6, <2>1, <3>1, <3>2 DEF StopReasonAgrees
  <2>. QED BY <1>1, <1>3, <1>4, <1>6, <2>1, <2>2, <2>3 DEF IInv, Heard
<1>8. CASE connected = FALSE
  <2>1. events' = events
    BY <1>1, <1>8
  <2>2. StopReasonAgrees' /\ IsSequence(events')
    BY <1>5, <2>1 DEF StopReasonAgrees, Unended
  <2>3. TextFirst' \/ Followable(events')
    BY <1>2, <1>3, <2>1 DEF Heard
  <2>. QED BY <1>1, <1>3, <1>4, <2>2, <2>3 DEF IInv, Heard
<1>. QED BY <1>5, <1>7, <1>8

LEMMA ClientLeavesKeeps ==
  ASSUME IInv, ClientLeaves
  PROVE  IInv'
<1>1. /\ UNCHANGED <<chunks, upstream, pc, events, local>> /\ connected' = FALSE
  BY DEF ClientLeaves, streamVars
<1>2. Typed /\ Gathered /\ Heard
  BY DEF IInv
<1>3. Gathered' /\ (TextFirst' <=> TextFirst)
  BY <1>1, <1>2, GatheredStays
<1>4. StopReasonAgrees'
  BY <1>1, <1>2, AgreesStays DEF Heard
<1>5. Typed'
  BY <1>1, <1>2 DEF Typed
<1>6. Heard'
  BY <1>1, <1>2, <1>3, <1>4 DEF Heard
<1>. QED BY <1>3, <1>5, <1>6 DEF IInv

LEMMA StutterKeeps ==
  ASSUME IInv, UNCHANGED vars
  PROVE  IInv'
<1>1. UNCHANGED <<chunks, upstream, pc, connected, events, local>>
  BY DEF vars, streamVars
<1>2. Typed /\ Gathered /\ Heard
  BY DEF IInv
<1>3. Gathered' /\ (TextFirst' <=> TextFirst)
  BY <1>1, <1>2, GatheredStays
<1>4. StopReasonAgrees'
  BY <1>1, <1>2, AgreesStays DEF Heard
<1>5. Typed'
  BY <1>1, <1>2 DEF Typed
<1>6. Heard'
  BY <1>1, <1>2, <1>3, <1>4 DEF Heard
<1>. QED BY <1>3, <1>5, <1>6 DEF IInv

LEMMA NextInvariant == IInv /\ [Next]_vars => IInv'
<1>. SUFFICES ASSUME IInv, [Next]_vars PROVE IInv'
  OBVIOUS
<1>1. CASE Start
  BY <1>1, StartKeeps
<1>2. CASE Chunked
  BY <1>2, ChunkKeeps DEF Chunked
<1>3. CASE UpstreamEnds
  BY <1>3, UpstreamEndsKeeps
<1>4. CASE Fail
  BY <1>4, FailKeeps
<1>5. CASE Finish
  BY <1>5, FinishKeeps
<1>6. CASE ClientLeaves
  BY <1>6, ClientLeavesKeeps
<1>7. CASE UNCHANGED vars
  BY <1>7, StutterKeeps
<1>. QED BY <1>1, <1>2, <1>3, <1>4, <1>5, <1>6, <1>7 DEF Next

\* streamAnthropicMessage knows of every chunk which blocks have begun, where the
\* text goes and why the message would stop, and the client was told just that,
\* until reasoning begins after text.
THEOREM MessageInvariant == Spec => []IInv
<1>1. Init => IInv
  BY InitInvariant
<1>2. IInv /\ [Next]_vars => IInv'
  BY NextInvariant
<1>. QED BY <1>1, <1>2, PTL DEF Spec

\* Whatever the upstream sends in whatever pieces, a client can follow the blocks of
\* POST /v1/messages: each starts once under the next free index, gets its pieces
\* while it is open and stops once, unless reasoning begins after text.
THEOREM BlocksCanBeFollowed == Spec => []BlocksAreFollowable
<1>1. IInv => BlocksAreFollowable
  BY FollowableEvents DEF IInv, Heard
<1>. QED BY <1>1, MessageInvariant, PTL

\* The stop_reason that StopReason gives chunk by chunk is the one it gives the whole
\* answer, unless the upstream names another reason after its last call.
THEOREM StopReasonIsTheAnswers == Spec => []StopReasonAgrees
<1>1. IInv => StopReasonAgrees
  BY DEF IInv, Heard
<1>. QED BY <1>1, MessageInvariant, PTL

-----------------------------------------------------------------------------
(* What events put into the blocks of a kind.                              *)

\* The events es put p into the blocks of kind, each of them elements of T.
Gives(es, kind, T, p) ==
  /\ IsSequence(es) /\ p \in Seq(T)
  /\ \A n \in DOMAIN es : PutBy(es[n], kind) \in Seq(T)
  /\ SeqX!FlattenSeq([ n \in DOMAIN es |-> PutBy(es[n], kind) ]) = p

Pieces(es, kind) == [ n \in DOMAIN es |-> PutBy(es[n], kind) ]

LEMMA PiecesAre ==
  ASSUME NEW es, IsSequence(es), NEW kind, NEW T,
         \A n \in DOMAIN es : PutBy(es[n], kind) \in Seq(T)
  PROVE  /\ Len(es) \in Nat /\ DOMAIN es = 1..Len(es)
         /\ Pieces(es, kind) \in Seq(Seq(T)) /\ Len(Pieces(es, kind)) = Len(es)
         /\ \A n \in 1..Len(es) : Pieces(es, kind)[n] = PutBy(es[n], kind)
<1>1. Len(es) \in Nat /\ DOMAIN es = 1..Len(es)
  BY DEF IsSequence
<1>2. Pieces(es, kind) \in [1..Len(es) -> Seq(T)]
  BY <1>1 DEF Pieces
<1>3. Pieces(es, kind) \in Seq(Seq(T)) /\ Len(Pieces(es, kind)) = Len(es)
  BY <1>1, <1>2
<1>4. \A n \in 1..Len(es) : Pieces(es, kind)[n] = PutBy(es[n], kind)
  BY <1>1 DEF Pieces
<1>. QED BY <1>1, <1>3, <1>4

LEMMA JoinFunction ==
  ASSUME NEW T, NEW a \in Seq(T), NEW b \in Seq(T)
  PROVE  a \o b = [ n \in 1..(Len(a) + Len(b)) |-> (a \o b)[n] ]
<1>1. a \o b \in Seq(T) /\ Len(a \o b) = Len(a) + Len(b)
  OBVIOUS
<1>2. ASSUME NEW s \in Seq(T) PROVE s = [ n \in 1..Len(s) |-> s[n] ]
  OBVIOUS
<1>. QED BY <1>1, <1>2

LEMMA NothingFirst ==
  ASSUME NEW T
  PROVE  <<>> \in Seq(T) /\ \A s \in Seq(T) : <<>> \o s = s /\ s \o <<>> = s
<1>1. <<>> \in Seq(T)
  OBVIOUS
<1>2. ASSUME NEW s \in Seq(T) PROVE <<>> \o s = s /\ s \o <<>> = s
  OBVIOUS
<1>. QED BY <1>1, <1>2

LEMMA GivesJoin ==
  ASSUME NEW es, NEW new, NEW kind, NEW T, NEW p, NEW q,
         Gives(es, kind, T, p), Gives(new, kind, T, q)
  PROVE  Gives(es \o new, kind, T, p \o q)
<1>. DEFINE all == es \o new
            a == Pieces(es, kind)
            b == Pieces(new, kind)
            c == Pieces(all, kind)
<1>1. IsSequence(es) /\ IsSequence(new) /\ p \in Seq(T) /\ q \in Seq(T)
  BY DEF Gives
<1>2. /\ Len(es) \in Nat /\ DOMAIN es = 1..Len(es)
      /\ a \in Seq(Seq(T)) /\ Len(a) = Len(es)
      /\ \A n \in 1..Len(es) : a[n] = PutBy(es[n], kind)
  BY <1>1, PiecesAre DEF Gives
<1>3. /\ Len(new) \in Nat /\ DOMAIN new = 1..Len(new)
      /\ b \in Seq(Seq(T)) /\ Len(b) = Len(new)
      /\ \A n \in 1..Len(new) : b[n] = PutBy(new[n], kind)
  BY <1>1, PiecesAre DEF Gives
<1>4. IsSequence(all) /\ JoinOf(all, es, Len(es), new, Len(new))
  BY <1>1, JoinIs
<1>5. SeqX!FlattenSeq(a) = p /\ SeqX!FlattenSeq(b) = q
  BY DEF Gives, Pieces
<1>. HIDE DEF all, a, b
<1>6. /\ DOMAIN all = 1..(Len(es) + Len(new))
      /\ \A n \in 1..Len(es) : all[n] = es[n]
      /\ \A n \in 1..Len(new) : all[Len(es) + n] = new[n]
      /\ \A k \in 1..(Len(es) + Len(new)) : k \in 1..Len(es) \/ \E m \in 1..Len(new) : k = Len(es) + m
  BY <1>4 DEF JoinOf
<1>7. ASSUME NEW n \in DOMAIN all PROVE PutBy(all[n], kind) = (a \o b)[n] /\ PutBy(all[n], kind) \in Seq(T)
  <2>1. CASE n \in 1..Len(es)
    <3>1. (a \o b)[n] = a[n] /\ a[n] \in Seq(T)
      BY <1>2, <1>3, <2>1
    <3>. QED BY <1>2, <1>6, <2>1, <3>1
  <2>2. ASSUME NEW m \in 1..Len(new), n = Len(es) + m
        PROVE  PutBy(all[n], kind) = (a \o b)[n] /\ PutBy(all[n], kind) \in Seq(T)
    <3>1. (a \o b)[n] = b[m] /\ b[m] \in Seq(T)
      BY <1>2, <1>3, <2>2
    <3>. QED BY <1>3, <1>6, <2>2, <3>1
  <2>. QED BY <1>6, <2>1, <2>2
<1>8. c = a \o b
  <2>1. a \o b = [ n \in 1..(Len(a) + Len(b)) |-> (a \o b)[n] ]
    BY <1>2, <1>3, JoinFunction
  <2>2. a \o b = [ n \in DOMAIN all |-> (a \o b)[n] ]
    BY <1>2, <1>3, <1>6, <2>1
  <2>. QED BY <1>7, <2>2 DEF Pieces
<1>. HIDE DEF c
<1>9. SeqX!FlattenSeq(c) = p \o q
  BY <1>2, <1>3, <1>5, <1>8, FlattenJoin
<1>10. p \o q \in Seq(T)
  BY <1>1
<1>. QED BY <1>4, <1>7, <1>9, <1>10 DEF Gives, Pieces, all, c

\* Events that put nothing there.
LEMMA GivesNothing ==
  ASSUME NEW es, IsSequence(es), NEW kind, NEW T, \A n \in DOMAIN es : PutBy(es[n], kind) = <<>>
  PROVE  Gives(es, kind, T, <<>>)
<1>. DEFINE f == [ n \in 0..Len(es) |-> <<>> ]
            s == Pieces(es, kind)
<1>1. <<>> \in Seq(T) /\ <<>> \o <<>> = <<>> /\ \A n \in DOMAIN es : PutBy(es[n], kind) \in Seq(T)
  BY NothingFirst
<1>2. /\ Len(es) \in Nat /\ DOMAIN es = 1..Len(es)
      /\ s \in Seq(Seq(T)) /\ Len(s) = Len(es)
      /\ \A n \in 1..Len(es) : s[n] = PutBy(es[n], kind)
  BY <1>1, PiecesAre
<1>3. f[0] = <<>> /\ f[Len(s)] = <<>> /\ \A n \in 1..Len(s) : f[n] = <<>> /\ f[n - 1] = <<>>
  <2>. HIDE DEF s
  <2>. QED BY <1>2
<1>4. \A n \in 1..Len(s) : s[n] \in Seq(T) /\ f[n] = f[n - 1] \o s[n]
  <2>. HIDE DEF s, f
  <2>. QED BY <1>1, <1>2, <1>3
<1>. HIDE DEF s, f
<1>5. SeqX!FlattenSeq(s) = f[Len(s)]
  BY <1>2, <1>3, <1>4, FlattenIs
<1>. QED BY <1>1, <1>3, <1>5 DEF Gives, Pieces, s

LEMMA GivesOne ==
  ASSUME NEW e, NEW kind, NEW T, NEW x \in Seq(T), PutBy(e, kind) = x
  PROVE  Gives(<<e>>, kind, T, x)
<1>. DEFINE es == <<e>>
            f == [ n \in 0..1 |-> IF n = 0 THEN <<>> ELSE x ]
            s == Pieces(es, kind)
<1>1. es \in Seq({e}) /\ Len(es) = 1 /\ DOMAIN es = {1} /\ es[1] = e
  OBVIOUS
<1>2. IsSequence(es)
  BY <1>1 DEF IsSequence
<1>. HIDE DEF es
<1>3. \A n \in DOMAIN es : PutBy(es[n], kind) \in Seq(T)
  BY <1>1
<1>4. s \in Seq(Seq(T)) /\ Len(s) = 1 /\ s[1] = x
  BY <1>1, <1>2, <1>3, PiecesAre
<1>5. f[0] = <<>> /\ f[1] = x /\ <<>> \o x = x
  OBVIOUS
<1>6. \A n \in 1..1 : s[n] \in Seq(T) /\ f[n] = f[n - 1] \o s[n]
  <2>1. \A n \in 1..1 : n = 1 /\ n - 1 = 0
    OBVIOUS
  <2>. HIDE DEF f, s
  <2>. QED BY <1>4, <1>5, <2>1
<1>. HIDE DEF s, f
<1>7. SeqX!FlattenSeq(s) = x
  <2>1. Len(s) \in Nat /\ \A n \in 1..Len(s) : s[n] \in Seq(T) /\ f[n] = f[n - 1] \o s[n]
    BY <1>4, <1>6
  <2>2. SeqX!FlattenSeq(s) = f[Len(s)]
    BY <1>4, <1>5, <2>1, FlattenIs
  <2>. QED BY <1>4, <1>5, <2>2
<1>. QED BY <1>2, <1>3, <1>7 DEF Gives, Pieces, s, es

\* A piece goes into its own kind of block and into no other.
LEMMA PieceGives ==
  ASSUME NEW begun \in BOOLEAN, NEW kind \in {"thinking", "text"}, NEW index, NEW n \in Nat,
         NEW es, es = Piece(begun, kind, index, <<n>>)
  PROVE  /\ Gives(es, kind, Nat, <<n>>)
         /\ \A other \in {"thinking", "text", "tool_use"} \ {kind} : \A T : Gives(es, other, T, <<>>)
<1>. DEFINE s == Event("start", kind, index, <<>>)
            d == Event("delta", kind, index, <<n>>)
<1>1. /\ PutBy(s, kind) = <<>> /\ PutBy(d, kind) = <<n>>
      /\ \A other \in {"thinking", "text", "tool_use"} \ {kind} : PutBy(s, other) = <<>> /\ PutBy(d, other) = <<>>
  BY DEF PutBy, Event
<1>2. es = Begin(begun, kind, index) \o <<d>>
  BY DEF Piece
<1>3. Begin(begun, kind, index) = IF begun THEN <<>> ELSE <<s>>
  BY DEF Begin
<1>. HIDE DEF s, d
<1>4. IsSequence(<<>>)
  BY NothingFirst DEF IsSequence
<1>5. ASSUME NEW other \in {"thinking", "text", "tool_use"}, NEW T
      PROVE  Gives(Begin(begun, kind, index), other, T, <<>>)
  <2>1. PutBy(s, other) = <<>>
    BY <1>1
  <2>2. Gives(<<>>, other, T, <<>>)
    BY <1>4, GivesNothing
  <2>3. Gives(<<s>>, other, T, <<>>)
    BY <2>1, NothingFirst, GivesOne
  <2>4. CASE begun = TRUE
    BY <1>3, <2>2, <2>4
  <2>5. CASE begun = FALSE
    BY <1>3, <2>3, <2>5
  <2>. QED BY <2>4, <2>5
<1>6. Gives(es, kind, Nat, <<n>>)
  <2>1. <<n>> \in Seq(Nat) /\ <<>> \o <<n>> = <<n>>
    BY NothingFirst
  <2>2. Gives(<<d>>, kind, Nat, <<n>>)
    BY <1>1, <2>1, GivesOne
  <2>3. Gives(Begin(begun, kind, index), kind, Nat, <<>>)
    BY <1>5
  <2>4. Gives(es, kind, Nat, <<>> \o <<n>>)
    BY <1>2, <2>2, <2>3, GivesJoin
  <2>. QED BY <2>1, <2>4
<1>7. ASSUME NEW other \in {"thinking", "text", "tool_use"} \ {kind}, NEW T
      PROVE  Gives(es, other, T, <<>>)
  <2>1. <<>> \in Seq(T) /\ <<>> \o <<>> = <<>>
    BY NothingFirst
  <2>2. Gives(<<d>>, other, T, <<>>)
    BY <1>1, <2>1, GivesOne
  <2>3. Gives(Begin(begun, kind, index), other, T, <<>>)
    BY <1>5
  <2>4. Gives(es, other, T, <<>> \o <<>>)
    BY <1>2, <2>2, <2>3, GivesJoin
  <2>. QED BY <2>1, <2>4
<1>. QED BY <1>6, <1>7

\* What may be written of a chunk.
LEMMA MaybeGives ==
  ASSUME NEW comes \in BOOLEAN, NEW begun \in BOOLEAN, NEW kind \in {"thinking", "text"},
         NEW index, NEW n \in Nat,
         NEW es, es = IF comes THEN Piece(begun, kind, index, <<n>>) ELSE <<>>
  PROVE  /\ Gives(es, kind, Nat, IF comes THEN <<n>> ELSE <<>>)
         /\ \A other \in {"thinking", "text", "tool_use"} \ {kind} : \A T : Gives(es, other, T, <<>>)
<1>1. CASE comes = TRUE
  <2>1. es = Piece(begun, kind, index, <<n>>)
    BY <1>1
  <2>. QED BY <1>1, <2>1, PieceGives
<1>2. CASE comes = FALSE
  <2>1. es = <<>> /\ IsSequence(es) /\ DOMAIN es = {}
    BY <1>2, NothingFirst DEF IsSequence
  <2>2. \A other, T : Gives(es, other, T, <<>>)
    BY <2>1, GivesNothing
  <2>. QED BY <1>2, <2>2
<1>. QED BY <1>1, <1>2

\* Each call is put once, by the event that starts its block.
LEMMA ToolBlocksGive ==
  ASSUME NEW T, NEW calls \in Seq(T), NEW es, es = ToolBlocks(calls)
  PROVE  /\ Gives(es, "tool_use", T, calls)
         /\ \A kind \in {"thinking", "text"} : \A U : Gives(es, kind, U, <<>>)
<1>. DEFINE K == Len(calls)
            put(n) == IF n % 2 = 1 THEN <<calls[(n + 1) \div 2]>> ELSE <<>>
            f == [ n \in 0..(2 * K) |-> [ i \in 1..((n + 1) \div 2) |-> calls[i] ] ]
            s == Pieces(es, "tool_use")
            e(n) == LET index == NextIndex + (n - 1) \div 2
                    IN  IF n % 2 = 1 THEN Event("start", "tool_use", index, calls[(n + 1) \div 2])
                                     ELSE Event("stop", "tool_use", index, <<>>)
<1>1. K \in Nat /\ 2 * K \in Nat
  OBVIOUS
<1>2. es = [ n \in 1..(2 * K) |-> e(n) ]
  BY DEF ToolBlocks
<1>3. DOMAIN es = 1..(2 * K) /\ \A n \in 1..(2 * K) : es[n] = e(n)
  <2>. HIDE DEF e
  <2>. QED BY <1>2
<1>4. IsSequence(es) /\ Len(es) = 2 * K
  <2>. DEFINE S == { e(n) : n \in 1..(2 * K) }
  <2>1. \A n \in 1..(2 * K) : e(n) \in S
    OBVIOUS
  <2>. HIDE DEF e, S, K
  <2>2. es \in [1..(2 * K) -> S]
    BY <1>2, <2>1
  <2>3. es \in Seq(S)
    BY <1>1, <2>2
  <2>. QED BY <1>1, <1>3, <2>3 DEF IsSequence
<1>5. \A n \in 1..(2 * K) : /\ PutBy(es[n], "tool_use") = put(n)
                            /\ \A kind \in {"thinking", "text"} : PutBy(es[n], kind) = <<>>
  <2>. TAKE n \in 1..(2 * K)
  <2>1. CASE n % 2 = 1
    <3>1. /\ es[n].what = "start" /\ es[n].kind = "tool_use" /\ es[n].puts = calls[(n + 1) \div 2]
      BY <1>3, <2>1 DEF Event
    <3>. QED BY <2>1, <3>1 DEF PutBy
  <2>2. CASE n % 2 # 1
    <3>1. es[n].what = "stop" /\ es[n].kind = "tool_use"
      BY <1>3, <2>2 DEF Event
    <3>. QED BY <2>2, <3>1 DEF PutBy
  <2>. QED BY <2>1, <2>2
<1>. HIDE DEF e
<1>6. \A kind \in {"thinking", "text"} : \A U : Gives(es, kind, U, <<>>)
  BY <1>3, <1>4, <1>5, GivesNothing
<1>7. \A n \in 1..(2 * K) : put(n) \in Seq(T)
  <2>. TAKE n \in 1..(2 * K)
  <2>1. CASE n % 2 = 1
    <3>1. (n + 1) \div 2 \in 1..K
      BY <1>1, <2>1
    <3>. QED BY <2>1, <3>1
  <2>2. CASE n % 2 # 1
    BY <2>2
  <2>. QED BY <2>1, <2>2
<1>8. /\ s \in Seq(Seq(T)) /\ Len(s) = 2 * K
      /\ \A n \in 1..(2 * K) : s[n] = put(n)
  <2>. HIDE DEF K, put, s
  <2>1. \A n \in DOMAIN es : PutBy(es[n], "tool_use") \in Seq(T)
    BY <1>3, <1>5, <1>7
  <2>. QED BY <1>3, <1>4, <1>5, <2>1, PiecesAre DEF s
<1>9. ASSUME NEW n \in 1..(2 * K) PROVE f[n] = f[n - 1] \o put(n)
  <2>1. n - 1 \in 0..(2 * K) /\ n \in 0..(2 * K) /\ (n - 1) + 1 = n
    BY <1>1
  <2>2. /\ f[n] = [ i \in 1..((n + 1) \div 2) |-> calls[i] ]
        /\ f[n - 1] = [ i \in 1..(n \div 2) |-> calls[i] ]
    BY <2>1
  <2>. HIDE DEF f
  <2>3. CASE n % 2 = 1
    <3>. DEFINE m == n \div 2
    <3>1. m \in Nat /\ (n + 1) \div 2 = m + 1 /\ m + 1 \in 1..K
      BY <1>1, <2>3
    <3>. HIDE DEF m
    <3>2. /\ f[n] = [ i \in 1..(m + 1) |-> calls[i] ] /\ f[n - 1] = [ i \in 1..m |-> calls[i] ]
          /\ put(n) = <<calls[m + 1]>>
      BY <2>2, <2>3, <3>1 DEF m
    <3>3. \A i \in 1..m : calls[i] \in T
      BY <3>1
    <3>4. [ i \in 1..m |-> calls[i] ] \in Seq(T) /\ calls[m + 1] \in T
      BY <3>1, <3>3
    <3>5. [ i \in 1..(m + 1) |-> calls[i] ] = [ i \in 1..m |-> calls[i] ] \o <<calls[m + 1]>>
      BY <3>1, <3>4
    <3>. QED BY <3>2, <3>5
  <2>4. CASE n % 2 # 1
    <3>1. (n + 1) \div 2 = n \div 2 /\ n \div 2 \in 0..K
      BY <1>1, <2>4
    <3>2. f[n] = f[n - 1] /\ put(n) = <<>>
      BY <2>2, <2>4, <3>1
    <3>3. f[n - 1] \in Seq(T)
      <4>1. \A i \in 1..(n \div 2) : calls[i] \in T
        BY <1>1, <3>1
      <4>. QED BY <2>2, <3>1, <4>1
    <3>. QED BY <3>2, <3>3, NothingFirst
  <2>. QED BY <2>3, <2>4
<1>10. f[0] = <<>> /\ f[2 * K] = calls
  <2>1. (0 + 1) \div 2 = 0 /\ (2 * K + 1) \div 2 = K /\ 0 \in 0..(2 * K) /\ 2 * K \in 0..(2 * K)
    BY <1>1
  <2>2. f[0] = [ i \in 1..0 |-> calls[i] ] /\ f[2 * K] = [ i \in 1..K |-> calls[i] ]
    BY <2>1
  <2>3. [ i \in 1..0 |-> calls[i] ] = <<>> /\ [ i \in 1..K |-> calls[i] ] = calls
    OBVIOUS
  <2>. QED BY <2>2, <2>3
<1>. HIDE DEF f, s, put, K
<1>11. \A n \in 1..Len(s) : s[n] \in Seq(T) /\ f[n] = f[n - 1] \o s[n]
  BY <1>7, <1>8, <1>9
<1>12. SeqX!FlattenSeq(s) = f[Len(s)]
  BY <1>1, <1>8, <1>10, <1>11, FlattenIs
<1>13. \A n \in DOMAIN es : PutBy(es[n], "tool_use") \in Seq(T)
  BY <1>3, <1>5, <1>7
<1>14. Gives(es, "tool_use", T, calls)
  BY <1>4, <1>8, <1>10, <1>12, <1>13 DEF Gives, Pieces, s
<1>. QED BY <1>6, <1>14

-----------------------------------------------------------------------------
(* The calls put together.                                                 *)

\* The calls are those of the chunks, each with its fragments in order.
CallsGathered ==
  /\ CallIndexes \subseteq Nat
  /\ local.toolCalls = [ i \in CallIndexes |-> [id |-> i, arguments |-> InOrder(CallAt(i))] ]

Numbers(S) == IsFiniteSet(S) /\ S \subseteq Nat

LEMMA PlacesAreNumbers ==
  ASSUME chunks \in Seq(Chunks)
  PROVE  Numbers(ReasoningAt) /\ Numbers(ContentAt) /\ \A i : Numbers(CallAt(i))
<1>1. DOMAIN chunks = 1..Len(chunks) /\ Len(chunks) \in Nat
  OBVIOUS
<1>2. IsFiniteSet(DOMAIN chunks) /\ DOMAIN chunks \subseteq Nat
  BY <1>1, FS_Interval
<1>3. ASSUME NEW S, S \subseteq DOMAIN chunks PROVE Numbers(S)
  BY <1>2, <1>3, FS_Subset DEF Numbers
<1>4. /\ ReasoningAt \subseteq DOMAIN chunks /\ ContentAt \subseteq DOMAIN chunks
      /\ \A i : CallAt(i) \subseteq DOMAIN chunks
  BY DEF ReasoningAt, ContentAt, CallAt
<1>. QED BY <1>3, <1>4

\* Chunk n comes after the places of before.
LEMMA PlaceComes ==
  ASSUME NEW S, Numbers(S), NEW n \in Nat, \A m \in S : m < n, NEW comes \in BOOLEAN, NEW r,
         \A m : m \in r <=> m \in S \/ (m = n /\ comes = TRUE)
  PROVE  InOrder(r) = InOrder(S) \o (IF comes THEN <<n>> ELSE <<>>) /\ InOrder(S) \in Seq(Nat)
<1>1. InOrder(S) \in Seq(S)
  BY InOrderFacts DEF Numbers
<1>2. InOrder(S) \in Seq(Nat)
  <2>1. InOrder(S) \in [1..Len(InOrder(S)) -> S] /\ Len(InOrder(S)) \in Nat /\ S \subseteq Nat
    BY <1>1 DEF Numbers
  <2>2. InOrder(S) \in [1..Len(InOrder(S)) -> Nat]
    BY <2>1
  <2>. QED BY <2>1, <2>2
<1>3. CASE comes = TRUE
  <2>1. r = S \cup {n}
    BY <1>3
  <2>2. InOrder(r) = Append(InOrder(S), n)
    BY <2>1, InOrderAppend DEF Numbers
  <2>. HIDE DEF InOrder
  <2>3. Append(InOrder(S), n) = InOrder(S) \o <<n>>
    BY <1>2
  <2>. QED BY <1>2, <1>3, <2>2, <2>3
<1>4. CASE comes = FALSE
  <2>1. r = S
    BY <1>4
  <2>2. InOrder(S) \o <<>> = InOrder(S)
    BY <1>2, NothingFirst
  <2>. QED BY <1>2, <1>4, <2>1, <2>2
<1>. QED BY <1>3, <1>4

LEMMA CallAtGrows ==
  ASSUME NEW chunk, NEW n, Comes(chunk, n), NEW i
  PROVE  \A m : m \in CallAt(i)' <=> m \in CallAt(i) \/ (m = n /\ (i \in chunk.calls) = TRUE)
<1>1. \A m : m \in DOMAIN chunks' <=> m \in DOMAIN chunks \/ m = n
  BY DEF Comes
<1>2. /\ chunks'[n] = chunk /\ \A m \in DOMAIN chunks : chunks'[m] = chunks[m] /\ m # n
  BY DEF Comes
<1>. QED BY <1>1, <1>2 DEF CallAt

\* The fragments of the calls of a chunk.
LEMMA CallsCome ==
  ASSUME CallsGathered, chunks \in Seq(Chunks), NEW chunk \in Chunks, NEW n, Comes(chunk, n),
         local'.toolCalls = MergeCalls(local.toolCalls, chunk.calls, n)
  PROVE  CallsGathered'
<1>1. chunk.calls \subseteq Nat
  BY ChunksAssumption DEF Chunk
<1>2. CallIndexes' = CallIndexes \cup chunk.calls
  BY PlacesGrow
<1>3. CallIndexes' \subseteq Nat
  BY <1>1, <1>2 DEF CallsGathered
<1>4. DOMAIN local.toolCalls = CallIndexes
  BY DEF CallsGathered
<1>5. ASSUME NEW i \in CallIndexes'
      PROVE  (IF i \in chunk.calls
                THEN MergeStreamToolCall(IF i \in CallIndexes THEN local.toolCalls[i] ELSE NoCall, i, n)
                ELSE IF i \in CallIndexes THEN local.toolCalls[i] ELSE NoCall)
             = [id |-> i, arguments |-> InOrder(CallAt(i)')]
  <2>1. Numbers(CallAt(i)) /\ n \in Nat /\ \A m \in CallAt(i) : m < n
    BY PlacesAreNumbers DEF Comes, CallAt
  <2>2. i \in CallIndexes => local.toolCalls[i] = [id |-> i, arguments |-> InOrder(CallAt(i))]
    BY DEF CallsGathered
  <2>3. i \notin CallIndexes => CallAt(i) = {}
    BY DEF CallIndexes, CallAt
  <2>4. /\ InOrder(CallAt(i)') = InOrder(CallAt(i)) \o (IF i \in chunk.calls THEN <<n>> ELSE <<>>)
        /\ InOrder(CallAt(i)) \in Seq(Nat)
    <3>1. PICK comes \in BOOLEAN : comes = TRUE <=> i \in chunk.calls
      OBVIOUS
    <3>2. \A m : m \in CallAt(i)' <=> m \in CallAt(i) \/ (m = n /\ comes = TRUE)
      BY <3>1, CallAtGrows
    <3>. DEFINE r == CallAt(i)'
                S == CallAt(i)
    <3>. HIDE DEF r, S
    <3>3. InOrder(r) = InOrder(S) \o (IF comes THEN <<n>> ELSE <<>>) /\ InOrder(S) \in Seq(Nat)
      BY <2>1, <3>2, PlaceComes DEF r, S
    <3>4. (IF comes THEN <<n>> ELSE <<>>) = (IF i \in chunk.calls THEN <<n>> ELSE <<>>)
      BY <3>1
    <3>. QED BY <3>3, <3>4 DEF r, S
  <2>5. CASE i \in chunk.calls
    <3>1. InOrder(CallAt(i)') = Append(InOrder(CallAt(i)), n)
      BY <2>1, <2>4, <2>5
    <3>2. i \notin CallIndexes => InOrder(CallAt(i)) = <<>>
      BY <2>3, InOrderEmpty
    <3>3. CASE i \in CallIndexes
      <4>1. local.toolCalls[i].arguments = InOrder(CallAt(i))
        BY <2>2, <3>3
      <4>. QED BY <2>5, <3>1, <3>3, <4>1 DEF MergeStreamToolCall
    <3>4. CASE i \notin CallIndexes
      BY <2>5, <3>1, <3>2, <3>4 DEF MergeStreamToolCall, NoCall
    <3>. QED BY <3>3, <3>4
  <2>6. CASE i \notin chunk.calls
    <3>1. i \in CallIndexes
      BY <1>2, <2>6
    <3>2. InOrder(CallAt(i)') = InOrder(CallAt(i))
      BY <2>4, <2>6, NothingFirst
    <3>. QED BY <2>2, <2>6, <3>1, <3>2
  <2>. QED BY <2>5, <2>6
<1>6. local'.toolCalls = [ i \in CallIndexes' |-> [id |-> i, arguments |-> InOrder(CallAt(i)')] ]
  BY <1>2, <1>4, <1>5 DEF MergeCalls
<1>. QED BY <1>3, <1>6 DEF CallsGathered, InOrder

CallType == [id : Nat, arguments : Seq(Nat)]

\* The loop over the map reaches every call if they are numbered.
LEMMA ReachedAreTheAnswers ==
  ASSUME CallsGathered, Gathered
  PROVE  /\ Reached(local.toolCalls) \in Seq(CallType)
         /\ Numbered => Reached(local.toolCalls) = Answer.calls
<1>. DEFINE S == { i \in DOMAIN local.toolCalls : i < Cardinality(DOMAIN local.toolCalls) }
            order == InOrder(S)
            calls == Reached(local.toolCalls)
            call(i) == [id |-> i, arguments |-> InOrder(CallAt(i))]
<1>1. DOMAIN local.toolCalls = CallIndexes /\ IsFiniteSet(CallIndexes) /\ CallIndexes \subseteq Nat
  BY DEF CallsGathered, Gathered
<1>2. S \subseteq CallIndexes /\ IsFiniteSet(S) /\ S \subseteq Nat
  BY <1>1, FS_Subset
<1>3. calls = [ n \in DOMAIN order |-> local.toolCalls[order[n]] ]
  BY DEF Reached
<1>. HIDE DEF S
<1>4. /\ Cardinality(S) \in Nat /\ DOMAIN order = 1..Cardinality(S)
      /\ \A n \in 1..Cardinality(S) : order[n] \in S
  BY <1>2, InOrderFacts
<1>. HIDE DEF order, calls
<1>5. calls = [ n \in DOMAIN order |-> call(order[n]) ]
  <2>1. \A i \in CallIndexes : local.toolCalls[i] = call(i)
    BY DEF CallsGathered
  <2>. QED BY <1>2, <1>3, <1>4, <2>1
<1>6. ASSUME NEW i \in CallIndexes PROVE call(i) \in CallType
  <2>1. Numbers(CallAt(i))
    BY PlacesAreNumbers DEF Gathered
  <2>2. InOrder(CallAt(i)) \in Seq(CallAt(i)) /\ CallAt(i) \subseteq Nat
    BY <2>1, InOrderFacts DEF Numbers
  <2>. DEFINE a == InOrder(CallAt(i))
  <2>. HIDE DEF a
  <2>3. a \in [1..Len(a) -> CallAt(i)] /\ Len(a) \in Nat
    BY <2>2 DEF a
  <2>4. a \in [1..Len(a) -> Nat]
    BY <2>2, <2>3
  <2>5. a \in Seq(Nat)
    BY <2>3, <2>4
  <2>6. i \in Nat
    BY <1>1
  <2>. QED BY <2>5, <2>6 DEF a, CallType
<1>7. calls \in Seq(CallType)
  <2>. HIDE DEF call
  <2>1. \A n \in DOMAIN order : call(order[n]) \in CallType
    BY <1>2, <1>4, <1>6
  <2>2. calls \in [1..Cardinality(S) -> CallType]
    BY <1>4, <1>5, <2>1
  <2>. QED BY <1>4, <2>2
<1>8. ASSUME Numbered PROVE calls = Answer.calls
  <2>1. Cardinality(CallIndexes) \in Nat
    BY <1>1, FS_CardinalityType
  <2>2. \A i \in CallIndexes : i < Cardinality(CallIndexes)
    BY <1>8, <2>1 DEF Numbered
  <2>3. S = CallIndexes
    BY <1>1, <2>2 DEF S
  <2>4. order = InOrder(CallIndexes)
    BY <2>3 DEF order
  <2>. QED BY <1>5, <2>4 DEF Answer
<1>. QED BY <1>7, <1>8 DEF calls

-----------------------------------------------------------------------------
(* What the client puts together.                                          *)

\* While it listens, the client has of each kind what the chunks have brought.
Collected ==
  /\ Gives(events, "thinking", Nat, InOrder(ReasoningAt))
  /\ Gives(events, "text", Nat, InOrder(ContentAt))
  /\ Gives(events, "tool_use", CallType, <<>>)

AnswerInv ==
  /\ CallsGathered
  /\ pc = "stream" /\ connected = TRUE => Collected
  /\ BlocksAreTheAnswer

LEMMA HandleCollects ==
  ASSUME Gathered, Collected, NEW chunk \in Chunks, Handle(chunk), connected = TRUE
  PROVE  Collected'
<1>. DEFINE n == Len(chunks) + 1
            index == TextIndex(chunk)
            R == IF chunk.reasoning THEN Piece(local.thinkingStarted, "thinking", 0, <<n>>) ELSE <<>>
            C == IF chunk.content THEN Piece(local.textStarted, "text", index, <<n>>) ELSE <<>>
            r == IF chunk.reasoning THEN <<n>> ELSE <<>>
            c == IF chunk.content THEN <<n>> ELSE <<>>
<1>1. events' = events \o (R \o C)
  BY DEF Handle, Write, Piece
<1>2. /\ local.thinkingStarted \in BOOLEAN /\ local.textStarted \in BOOLEAN
      /\ chunk.reasoning \in BOOLEAN /\ chunk.content \in BOOLEAN
  BY ChunkFields DEF Gathered
<1>3. Comes(chunk, n)
  BY HandleReads
<1>4. n \in Nat /\ \A m \in DOMAIN chunks : m < n
  BY <1>3 DEF Comes
<1>. HIDE DEF n, index
<1>5. /\ Gives(R, "thinking", Nat, r)
      /\ \A other \in {"thinking", "text", "tool_use"} \ {"thinking"} : \A T : Gives(R, other, T, <<>>)
  BY <1>2, <1>4, MaybeGives
<1>6. /\ Gives(C, "text", Nat, c)
      /\ \A other \in {"thinking", "text", "tool_use"} \ {"text"} : \A T : Gives(C, other, T, <<>>)
  BY <1>2, <1>4, MaybeGives
<1>7. /\ Gives(R, "text", Nat, <<>>) /\ Gives(R, "tool_use", CallType, <<>>)
      /\ Gives(C, "thinking", Nat, <<>>) /\ Gives(C, "tool_use", CallType, <<>>)
  BY <1>5, <1>6
<1>8. r \in Seq(Nat) /\ c \in Seq(Nat)
  BY <1>5, <1>6 DEF Gives
<1>9. InOrder(ReasoningAt)' = InOrder(ReasoningAt) \o r
  <2>1. \A m : m \in ReasoningAt' <=> m \in ReasoningAt \/ (m = n /\ chunk.reasoning = TRUE)
    BY <1>3, PlacesGrow
  <2>2. Numbers(ReasoningAt) /\ \A m \in ReasoningAt : m < n
    BY <1>4, PlacesAreNumbers DEF Gathered, ReasoningAt
  <2>. DEFINE S == ReasoningAt'
  <2>. HIDE DEF S
  <2>3. InOrder(S) = InOrder(ReasoningAt) \o r
    BY <1>2, <1>4, <2>1, <2>2, PlaceComes DEF S
  <2>. QED BY <2>3 DEF S, InOrder
<1>10. InOrder(ContentAt)' = InOrder(ContentAt) \o c
  <2>1. \A m : m \in ContentAt' <=> m \in ContentAt \/ (m = n /\ chunk.content = TRUE)
    BY <1>3, PlacesGrow
  <2>2. Numbers(ContentAt) /\ \A m \in ContentAt : m < n
    BY <1>4, PlacesAreNumbers DEF Gathered, ContentAt
  <2>. DEFINE S == ContentAt'
  <2>. HIDE DEF S
  <2>3. InOrder(S) = InOrder(ContentAt) \o c
    BY <1>2, <1>4, <2>1, <2>2, PlaceComes DEF S
  <2>. QED BY <2>3 DEF S, InOrder
<1>. HIDE DEF R, C, r, c
<1>11. r \o <<>> = r /\ <<>> \o c = c /\ <<>> \o <<>> = <<>>
  BY <1>8, NothingFirst
<1>12. Gives(R \o C, "thinking", Nat, r)
  BY <1>5, <1>7, <1>11, GivesJoin
<1>13. Gives(R \o C, "text", Nat, c)
  <2>1. Gives(R \o C, "text", Nat, <<>> \o c)
    BY <1>6, <1>7, GivesJoin
  <2>. QED BY <1>11, <2>1
<1>14. Gives(R \o C, "tool_use", CallType, <<>>)
  <2>1. Gives(R \o C, "tool_use", CallType, <<>> \o <<>>)
    BY <1>7, GivesJoin
  <2>. QED BY <1>11, <2>1
<1>. DEFINE new == R \o C
<1>. HIDE DEF new
<1>15. Gives(events', "thinking", Nat, InOrder(ReasoningAt)')
  <2>1. Gives(events \o new, "thinking", Nat, InOrder(ReasoningAt) \o r)
    BY <1>12, GivesJoin DEF Collected, new
  <2>. QED BY <1>1, <1>9, <2>1 DEF new
<1>16. Gives(events', "text", Nat, InOrder(ContentAt)')
  <2>1. Gives(events \o new, "text", Nat, InOrder(ContentAt) \o c)
    BY <1>13, GivesJoin DEF Collected, new
  <2>. QED BY <1>1, <1>10, <2>1 DEF new
<1>17. Gives(events', "tool_use", CallType, <<>>)
  <2>1. Gives(events \o new, "tool_use", CallType, <<>> \o <<>>)
    BY <1>14, GivesJoin DEF Collected, new
  <2>. QED BY <1>1, <1>11, <2>1 DEF new
<1>. QED BY <1>15, <1>16, <1>17 DEF Collected, Gives, CallType, PutBy

LEMMA UnendedIncomplete ==
  ASSUME Unended(events)
  PROVE  BlocksAreTheAnswer
BY DEF Unended, BlocksAreTheAnswer, IsComplete

\* The client that reads on to the end has what the handler has.
LEMMA FinishGives ==
  ASSUME Gathered, CallsGathered, Collected, NEW all, all = events \o (Rest \o Ending)
  PROVE  /\ Gives(all, "thinking", Nat, InOrder(ReasoningAt))
         /\ Gives(all, "text", Nat, InOrder(ContentAt))
         /\ Gives(all, "tool_use", CallType, Reached(local.toolCalls))
<1>. DEFINE calls == Reached(local.toolCalls)
            new == ToolBlocks(calls)
<1>1. calls \in Seq(CallType)
  BY ReachedAreTheAnswers
<1>2. ASSUME NEW kind \in {"thinking", "text", "tool_use"}, NEW T PROVE Gives(Stops, kind, T, <<>>)
  <2>. DEFINE a == Event("stop", "thinking", 0, <<>>)
              b == Event("stop", "text", local.textIndex, <<>>)
              R == IF local.thinkingStarted THEN <<a>> ELSE <<>>
              C == IF local.textStarted THEN <<b>> ELSE <<>>
  <2>1. local.thinkingStarted \in BOOLEAN /\ local.textStarted \in BOOLEAN
    BY DEF Gathered
  <2>2. PutBy(a, kind) = <<>> /\ PutBy(b, kind) = <<>>
    BY DEF PutBy, Event
  <2>3. Stops = R \o C
    BY DEF Stops
  <2>. HIDE DEF a, b
  <2>4. <<>> \in Seq(T) /\ <<>> \o <<>> = <<>> /\ IsSequence(<<>>)
    BY NothingFirst DEF IsSequence
  <2>5. Gives(<<>>, kind, T, <<>>) /\ Gives(<<a>>, kind, T, <<>>) /\ Gives(<<b>>, kind, T, <<>>)
    <3>1. Gives(<<>>, kind, T, <<>>)
      BY <2>4, GivesNothing
    <3>2. Gives(<<a>>, kind, T, <<>>)
      BY <2>2, <2>4, GivesOne
    <3>3. Gives(<<b>>, kind, T, <<>>)
      BY <2>2, <2>4, GivesOne
    <3>. QED BY <3>1, <3>2, <3>3
  <2>6. Gives(R, kind, T, <<>>)
    BY <2>1, <2>5, Zenon
  <2>7. Gives(C, kind, T, <<>>)
    BY <2>1, <2>5, Zenon
  <2>. HIDE DEF R, C
  <2>8. Gives(R \o C, kind, T, <<>> \o <<>>)
    BY <2>6, <2>7, GivesJoin
  <2>. QED BY <2>3, <2>4, <2>8
<1>3. ASSUME NEW kind \in {"thinking", "text", "tool_use"}, NEW T PROVE Gives(Ending, kind, T, <<>>)
  <2>. DEFINE a == Plain("message_delta", local.stopReason)
              b == Plain("message_stop", <<>>)
  <2>1. PutBy(a, kind) = <<>> /\ PutBy(b, kind) = <<>>
    BY DEF PutBy, Plain, Event
  <2>2. Ending = <<a>> \o <<b>>
    BY DEF Ending
  <2>. HIDE DEF a, b
  <2>3. <<>> \in Seq(T) /\ <<>> \o <<>> = <<>>
    BY NothingFirst
  <2>4. Gives(<<a>>, kind, T, <<>>) /\ Gives(<<b>>, kind, T, <<>>)
    BY <2>1, <2>3, GivesOne
  <2>5. Gives(<<a>> \o <<b>>, kind, T, <<>> \o <<>>)
    BY <2>4, GivesJoin
  <2>. QED BY <2>2, <2>3, <2>5
<1>. HIDE DEF calls
<1>4. /\ Gives(new, "tool_use", CallType, calls)
      /\ \A kind \in {"thinking", "text"} : \A U : Gives(new, kind, U, <<>>)
  BY <1>1, ToolBlocksGive
<1>. HIDE DEF new
<1>5. Rest = Stops \o new
  BY DEF Rest, new, calls
<1>6. ASSUME NEW kind \in {"thinking", "text", "tool_use"}, NEW T, NEW p, NEW q,
             Gives(events, kind, T, p), Gives(new, kind, T, q)
      PROVE  Gives(all, kind, T, p \o q)
  <2>1. p \in Seq(T) /\ q \in Seq(T)
    BY <1>6 DEF Gives
  <2>2. <<>> \o q = q /\ q \o <<>> = q
    BY <2>1, NothingFirst
  <2>3. Gives(Rest, kind, T, <<>> \o q)
    BY <1>2, <1>5, <1>6, GivesJoin
  <2>4. Gives(Rest, kind, T, q)
    BY <2>2, <2>3
  <2>5. Gives(Rest \o Ending, kind, T, q \o <<>>)
    BY <1>3, <2>4, GivesJoin
  <2>6. Gives(Rest \o Ending, kind, T, q)
    BY <2>2, <2>5
  <2>. QED BY <1>6, <2>6, GivesJoin
<1>7. /\ Gives(all, "thinking", Nat, InOrder(ReasoningAt) \o <<>>)
      /\ Gives(all, "text", Nat, InOrder(ContentAt) \o <<>>)
  BY <1>4, <1>6 DEF Collected
<1>8. Gives(all, "tool_use", CallType, <<>> \o calls)
  BY <1>4, <1>6 DEF Collected
<1>9. InOrder(ReasoningAt) \in Seq(Nat) /\ InOrder(ContentAt) \in Seq(Nat)
  BY DEF Collected, Gives
<1>10. /\ InOrder(ReasoningAt) \o <<>> = InOrder(ReasoningAt)
       /\ InOrder(ContentAt) \o <<>> = InOrder(ContentAt)
       /\ <<>> \o calls = calls
  BY <1>1, <1>9, NothingFirst
<1>. QED BY <1>7, <1>8, <1>10 DEF calls

LEMMA AnswersStay ==
  ASSUME UNCHANGED <<chunks, local>>
  PROVE  /\ CallsGathered => CallsGathered'
         /\ Answer' = Answer /\ (Numbered' <=> Numbered)
<1>1. chunks' = chunks /\ local' = local
  OBVIOUS
<1>2. CallsGathered => CallsGathered'
  BY <1>1 DEF CallsGathered, CallIndexes, CallAt
<1>3. Answer' = Answer
  BY <1>1 DEF Answer, ReasoningAt, ContentAt, CallIndexes, CallAt
<1>4. Numbered' <=> Numbered
  BY <1>1 DEF Numbered, CallIndexes
<1>. QED BY <1>2, <1>3, <1>4

LEMMA AnswerInvStays ==
  ASSUME AnswerInv, UNCHANGED <<chunks, events, local>>, pc' = "stream" => pc = "stream",
         connected' = TRUE => connected = TRUE
  PROVE  AnswerInv'
<1>1. /\ CallIndexes' = CallIndexes /\ ReasoningAt' = ReasoningAt /\ ContentAt' = ContentAt
      /\ \A i : CallAt(i)' = CallAt(i)
  BY DEF CallIndexes, ReasoningAt, ContentAt, CallAt
<1>2. CallsGathered'
  BY AnswersStay DEF AnswerInv
<1>3. pc' = "stream" /\ connected' = TRUE => Collected'
  BY <1>1 DEF AnswerInv, Collected, Gives, PutBy, InOrder, CallType
<1>4. Answer' = Answer /\ (Numbered' <=> Numbered)
  BY AnswersStay
<1>5. (IsComplete' <=> IsComplete) /\ \A kind : PutInto(kind)' = PutInto(kind)
  BY DEF IsComplete, PutInto
<1>6. BlocksAreTheAnswer'
  BY <1>4, <1>5 DEF AnswerInv, BlocksAreTheAnswer
<1>. QED BY <1>2, <1>3, <1>6 DEF AnswerInv

LEMMA InitAnswer == Init => AnswerInv
<1>. SUFFICES ASSUME Init PROVE AnswerInv
  OBVIOUS
<1>1. chunks = <<>> /\ events = <<>> /\ pc = "start" /\ local.toolCalls = [i \in {} |-> NoCall]
  BY DEF Init, StreamInit
<1>2. CallIndexes = {}
  BY <1>1 DEF CallIndexes
<1>3. CallsGathered
  BY <1>1, <1>2 DEF CallsGathered
<1>4. BlocksAreTheAnswer
  BY <1>1, NothingTold, UnendedIncomplete
<1>. QED BY <1>1, <1>3, <1>4 DEF AnswerInv

LEMMA StartCollects ==
  ASSUME IInv, AnswerInv, Start
  PROVE  AnswerInv'
<1>. DEFINE e == Plain("message_start", <<>>)
<1>1. /\ pc = "start" /\ UNCHANGED <<chunks, connected, local>> /\ connected \in BOOLEAN
      /\ events' = (IF connected THEN events \o <<e>> ELSE events)
      /\ pc' = (IF connected THEN "stream" ELSE "closed")
  BY DEF Start, Write, streamVars, IInv, Typed
<1>2. CASE connected = FALSE
  BY <1>1, <1>2, AnswerInvStays
<1>3. CASE connected = TRUE
  <2>1. /\ events = <<>> /\ ReasoningAt = {} /\ ContentAt = {}
        /\ local.thinkingStarted = FALSE
    BY <1>1 DEF IInv, Heard, Gathered
  <2>2. /\ CallIndexes' = CallIndexes /\ ReasoningAt' = ReasoningAt /\ ContentAt' = ContentAt
        /\ \A i : CallAt(i)' = CallAt(i)
    BY <1>1 DEF CallIndexes, ReasoningAt, ContentAt, CallAt
  <2>3. CallsGathered'
    BY <1>1, AnswersStay DEF AnswerInv
  <2>4. pc' = "stream" /\ connected' = TRUE /\ events' = events \o <<e>>
    BY <1>1, <1>3
  <2>5. \A kind \in {"thinking", "text", "tool_use"} : PutBy(e, kind) = <<>>
    BY DEF PutBy, Plain, Event
  <2>6. IsSequence(events) /\ events \o <<e>> = <<e>>
    BY <2>1, NothingTold, NothingJoined
  <2>. HIDE DEF e
  <2>7. ASSUME NEW kind \in {"thinking", "text", "tool_use"}, NEW T
        PROVE  Gives(events \o <<e>>, kind, T, <<>>)
    BY <2>5, <2>6, NothingFirst, GivesOne
  <2>8. InOrder(ReasoningAt)' = <<>> /\ InOrder(ContentAt)' = <<>>
    BY <2>1, <2>2, InOrderEmpty DEF InOrder
  <2>9. Collected'
    BY <2>4, <2>7, <2>8 DEF Collected, Gives, PutBy, CallType
  <2>10. IInv'
    BY NextInvariant DEF Next
  <2>11. BlocksAreTheAnswer'
    BY <2>4, <2>10 DEF IInv, Heard, Unended, BlocksAreTheAnswer, IsComplete
  <2>. QED BY <2>3, <2>9, <2>11 DEF AnswerInv
<1>. QED BY <1>1, <1>2, <1>3

LEMMA ChunkCollects ==
  ASSUME IInv, AnswerInv, NEW chunk \in Chunks, Handle(chunk)
  PROVE  AnswerInv'
<1>1. pc = "stream" /\ pc' = pc /\ connected' = connected /\ Gathered
  BY DEF Handle, IInv
<1>2. /\ Comes(chunk, Len(chunks) + 1)
      /\ local'.toolCalls = MergeCalls(local.toolCalls, chunk.calls, Len(chunks) + 1)
  BY <1>1, HandleReads
<1>3. CallsGathered'
  BY <1>1, <1>2, CallsCome DEF AnswerInv, Gathered
<1>4. connected' = TRUE => Collected'
  BY <1>1, HandleCollects DEF AnswerInv
<1>5. IInv'
  BY NextInvariant DEF Next, Chunked
<1>6. BlocksAreTheAnswer'
  BY <1>1, <1>5 DEF IInv, Heard, Unended, BlocksAreTheAnswer, IsComplete
<1>. QED BY <1>3, <1>4, <1>6 DEF AnswerInv

LEMMA FailCollects ==
  ASSUME IInv, AnswerInv, Fail
  PROVE  AnswerInv'
<1>. DEFINE e == Plain("error", <<>>)
            all == events \o <<e>>
<1>1. /\ pc = "stream" /\ UNCHANGED <<chunks, connected, local>> /\ pc' = "closed"
      /\ events' = (IF connected THEN all ELSE events) /\ connected \in BOOLEAN
  BY DEF Fail, Write, streamVars, IInv, Typed
<1>2. Unended(events) /\ Unended(<<e>>)
  BY <1>1, UnendedEvents DEF IInv, Heard, Plain
<1>3. Unended(all)
  BY <1>2, UnendedJoin
<1>. HIDE DEF all
<1>4. Unended(events')
  BY <1>1, <1>2, <1>3, Zenon
<1>5. BlocksAreTheAnswer'
  BY <1>4 DEF Unended, BlocksAreTheAnswer, IsComplete
<1>6. CallsGathered'
  BY <1>1, AnswersStay DEF AnswerInv
<1>. QED BY <1>1, <1>5, <1>6 DEF AnswerInv

LEMMA FinishCollects ==
  ASSUME IInv, AnswerInv, Finish
  PROVE  AnswerInv'
<1>. DEFINE all == events \o (Rest \o Ending)
            calls == Reached(local.toolCalls)
<1>1. /\ pc = "stream" /\ UNCHANGED <<chunks, connected, local>> /\ pc' = "closed"
      /\ events' = (IF connected THEN all ELSE events) /\ connected \in BOOLEAN
  BY DEF Finish, Write, streamVars, Rest, Ending, IInv, Typed
<1>2. CASE connected = FALSE
  BY <1>1, <1>2, AnswerInvStays
<1>3. CASE connected = TRUE
  <2>1. Gathered /\ CallsGathered /\ Collected
    BY <1>1, <1>3 DEF IInv, AnswerInv
  <2>2. /\ Gives(all, "thinking", Nat, InOrder(ReasoningAt))
        /\ Gives(all, "text", Nat, InOrder(ContentAt))
        /\ Gives(all, "tool_use", CallType, calls)
    BY <2>1, FinishGives
  <2>3. Numbered => calls = Answer.calls
    BY <2>1, ReachedAreTheAnswers
  <2>4. events' = all
    BY <1>1, <1>3
  <2>. HIDE DEF all, calls
  <2>5. \A kind : PutInto(kind)' = SeqX!FlattenSeq([ n \in DOMAIN all |-> PutBy(all[n], kind) ])
    BY <2>4 DEF PutInto, PutBy
  <2>6. /\ PutInto("thinking")' = InOrder(ReasoningAt)
        /\ PutInto("text")' = InOrder(ContentAt)
        /\ PutInto("tool_use")' = calls
    BY <2>2, <2>5 DEF Gives
  <2>8. Answer' = Answer /\ (Numbered' <=> Numbered)
    BY <1>1, AnswersStay
  <2>9. Answer.reasoning = InOrder(ReasoningAt) /\ Answer.content = InOrder(ContentAt)
    BY DEF Answer
  <2>10. BlocksAreTheAnswer'
    BY <2>3, <2>6, <2>8, <2>9 DEF BlocksAreTheAnswer
  <2>11. CallsGathered'
    BY <1>1, <2>1, AnswersStay
  <2>. QED BY <1>1, <2>10, <2>11 DEF AnswerInv
<1>. QED BY <1>1, <1>2, <1>3

LEMMA NextAnswer == IInv /\ AnswerInv /\ [Next]_vars => AnswerInv'
<1>. SUFFICES ASSUME IInv, AnswerInv, [Next]_vars PROVE AnswerInv'
  OBVIOUS
<1>1. CASE Start
  BY <1>1, StartCollects
<1>2. CASE Chunked
  BY <1>2, ChunkCollects DEF Chunked
<1>3. CASE UpstreamEnds
  BY <1>3, AnswerInvStays DEF UpstreamEnds, EndOfStream, StreamBreaks
<1>4. CASE Fail
  BY <1>4, FailCollects
<1>5. CASE Finish
  BY <1>5, FinishCollects
<1>6. CASE ClientLeaves
  BY <1>6, AnswerInvStays DEF ClientLeaves, streamVars
<1>7. CASE UNCHANGED vars
  BY <1>7, AnswerInvStays DEF vars, streamVars
<1>. QED BY <1>1, <1>2, <1>3, <1>4, <1>5, <1>6, <1>7 DEF Next

\* Whatever the upstream sends in whatever pieces: a client of POST /v1/messages that
\* reads to message_stop has put together the thinking, the text and the calls that
\* the same call would have answered without streaming, if the calls are numbered
\* without a gap.
THEOREM BlocksMakeTheAnswer == Spec => []BlocksAreTheAnswer
<1>1. Init => AnswerInv
  BY InitAnswer
<1>2. IInv /\ AnswerInv /\ [Next]_vars => AnswerInv'
  BY NextAnswer
<1>3. AnswerInv => BlocksAreTheAnswer
  BY DEF AnswerInv
<1>. QED BY <1>1, <1>2, <1>3, MessageInvariant, PTL DEF Spec
=============================================================================
