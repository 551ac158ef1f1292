---------------------------- MODULE AdapterProofs ----------------------------
(***************************************************************************)
(* Proofs about what the adapters translate, for any values of the         *)
(* constants: the upstream names of tools (ToolNames) and, after them, the *)
(* items of the Responses adapter that become chat messages again          *)
(* (ConversationReplay).  The two parts do not use each other.             *)
(*                                                                         *)
(* IInv ties the two maps of names to the tools that were named so far: an *)
(* upstream name in use belongs to the raw name of a tool, and toolNameMap *)
(* holds such a tool.  A candidate is free for each tool because there are *)
(* more candidates than names in use.                                      *)
(*                                                                         *)
(* ReplayInv says that the stored items are those of the steps put end to  *)
(* end, that the turns in them are numbers of steps, and that the items    *)
(* say the conversation.  A step keeps it because reading splits where it  *)
(* begins: no item of an earlier step takes a call of the new one with it  *)
(* (ReadingSplits), and the items of one answer say that answer            *)
(* (TurnSays), with each call as it may be repeated (CallComesBack).        *)
(***************************************************************************)
EXTENDS ToolNames, ConversationReplay, FiniteSetTheorems, SequenceTheorems, WellFoundedInduction,
        TLAPS

-----------------------------------------------------------------------------
(* The upstream names of tools.                                              *)

\* A set of natural numbers up to n that is not empty has a least member: the
\* shortest of the intervals that end in a member.
LEMMA LeastMember ==
  ASSUME NEW n \in Nat, NEW T \in SUBSET (0..n), T # {}
  PROVE  \E x \in T : \A y \in T : x <= y
<1>. DEFINE Ends == { 0..x : x \in T }
<1>1. IsFiniteSet(0..n)
  BY FS_Interval, 0 \in Int, n \in Int
<1>2. IsWellFoundedOn(StrictSubsetOrdering(0..n), SUBSET (0..n))
  BY <1>1, FS_StrictSubsetOrderingWellFounded, FS_FiniteSubsetsOfFinite
<1>3. Ends \subseteq SUBSET (0..n) /\ Ends # {}
  <2>1. \A x \in T : 0..x \subseteq 0..n
    OBVIOUS
  <2>. QED BY <2>1
<1>4. \E I \in Ends : \A J \in Ends : ~ (<<J, I>> \in StrictSubsetOrdering(0..n))
  BY <1>2, <1>3, WFMin
<1>5. PICK x \in T : \A J \in Ends : ~ (<<J, 0..x>> \in StrictSubsetOrdering(0..n))
  BY <1>4
<1>6. ASSUME NEW y \in T PROVE x <= y
  <2>1. SUFFICES ASSUME y < x PROVE FALSE
    OBVIOUS
  <2>2. 0..y \subseteq 0..x /\ 0..y # 0..x
    <3>1. x \in 0..x /\ x \notin 0..y
      BY <2>1
    <3>2. 0..y \subseteq 0..x
      BY <2>1
    <3>. QED BY <3>1, <3>2
  <2>3. 0..y \in SUBSET (0..n) /\ 0..x \in SUBSET (0..n)
    OBVIOUS
  <2>4. <<0..y, 0..x>> \in StrictSubsetOrdering(0..n)
    BY <2>2, <2>3 DEF StrictSubsetOrdering
  <2>. QED BY <1>5, <2>4
<1>. QED BY <1>6

\* More numbers than there are places for them: two share one.
LEMMA TwoShareOne ==
  ASSUME NEW n \in Nat, NEW N \in Nat, n < N, NEW g \in [1..N -> 1..n]
  PROVE  \E x, y \in 1..N : x # y /\ g[x] = g[y]
<1>1. 1 \in Int /\ N \in Int /\ n \in Int
  OBVIOUS
<1>2. IsFiniteSet(1..N) /\ Cardinality(1..N) = IF 1 > N THEN 0 ELSE N - 1 + 1
  BY <1>1, FS_Interval
<1>3. IsFiniteSet(1..n) /\ Cardinality(1..n) = IF 1 > n THEN 0 ELSE n - 1 + 1
  BY <1>1, FS_Interval
<1>4. Cardinality(1..n) < Cardinality(1..N)
  BY <1>2, <1>3
<1>. QED BY <1>2, <1>3, <1>4, FS_PigeonHole

\* Among the candidates after the first, one is not among the names in use, of
\* which there are at most MaxTools.
LEMMA SomeCandidateUnused ==
  ASSUME NEW tool \in Tools, IsNamed(tool), NEW n \in Nat, n <= MaxTools, NEW f
  PROVE  \E k \in 1..(MaxTools + 1) : \A i \in 1..n : f[i] # Candidate(Raw(tool), k)
<1>. DEFINE N == MaxTools + 1
            raw == Raw(tool)
<1>. SUFFICES ASSUME \A k \in 1..N : \E i \in 1..n : f[i] = Candidate(raw, k) PROVE FALSE
  OBVIOUS
<1>. DEFINE g == [k \in 1..N |-> CHOOSE i \in 1..n : f[i] = Candidate(raw, k)]
<1>1. g \in [1..N -> 1..n] /\ \A k \in 1..N : f[g[k]] = Candidate(raw, k)
  OBVIOUS
<1>2. N \in Nat /\ n < N
  BY CandidatesAssumption
<1>3. \E x, y \in 1..N : x # y /\ g[x] = g[y]
  BY <1>1, <1>2, TwoShareOne
<1>4. \A j, k \in 1..N : j # k => Candidate(raw, j) # Candidate(raw, k)
  BY CandidatesAssumption
<1>. QED BY <1>1, <1>3, <1>4

\* What the search returns: a candidate, the first one that is free.
LEMMA UniqueIsFirstFree ==
  ASSUME NEW tool \in Tools, IsNamed(tool), NEW taken,
         NEW n \in Nat, n <= MaxTools, NEW f, DOMAIN taken \subseteq { f[i] : i \in 1..n }
  PROVE  \E k \in 0..(MaxTools + 1) :
           /\ UniqueUpstreamToolName(Raw(tool), taken) = Candidate(Raw(tool), k)
           /\ Free(Raw(tool), k, taken)
           /\ \A j \in 0..(k - 1) : ~Free(Raw(tool), j, taken)
<1>. DEFINE raw == Raw(tool)
            T == { k \in 0..(MaxTools + 1) : Free(raw, k, taken) }
<1>1. T # {}
  <2>1. PICK k \in 1..(MaxTools + 1) : \A i \in 1..n : f[i] # Candidate(raw, k)
    BY SomeCandidateUnused
  <2>2. Free(raw, k, taken)
    BY <2>1 DEF Free
  <2>. QED BY <2>1, <2>2, CandidatesAssumption
<1>2. PICK k \in T : \A j \in T : k <= j
  <2>1. MaxTools + 1 \in Nat /\ T \in SUBSET (0..(MaxTools + 1))
    BY CandidatesAssumption
  <2>. HIDE DEF T
  <2>. QED BY <1>1, <2>1, LeastMember
<1>3. \A j \in 0..(k - 1) : ~Free(raw, j, taken)
  BY <1>2, CandidatesAssumption
<1>. QED BY <1>2, <1>3 DEF UniqueUpstreamToolName

-----------------------------------------------------------------------------
(* The invariant.                                                          *)

\* A named tool has a name that is in use for its raw name.
NamesAreUsed ==
  \A n \in DOMAIN names : IsNamed(tools[n]) =>
    /\ names[n] \in DOMAIN used
    /\ used[names[n]] = Raw(tools[n])

\* A name that is in use is that of a named tool, which toolNameMap has.
UsedAreNames ==
  \A u \in DOMAIN used :
    \E n \in DOMAIN names : IsNamed(tools[n]) /\ names[n] = u /\ toolNameMap[u] = tools[n]

Maps == adapter = "responses" => NamesAreUsed /\ UsedAreNames

SafeNames ==
  adapter # "responses" =>
    \A n \in DOMAIN names : IsNamed(tools[n]) => names[n] = Candidate(Raw(tools[n]), 0)

CallsAreToldOf ==
  \A answer \in call :
    /\ pc = "answered"
    /\ answer.place \in DOMAIN tools /\ IsNamed(tools[answer.place])
    /\ answer.item = Told(names[answer.place])

IInv == TypeOK /\ Maps /\ SafeNames /\ CallsAreToldOf

\* A list of tools has a length of at most MaxTools.
LEMMA ToolListsType ==
  ASSUME NEW declared \in ToolLists
  PROVE  declared \in Seq(Tools) /\ Len(declared) <= MaxTools
BY DEF ToolLists

LEMMA InitIInv == Init => IInv
<1>. SUFFICES ASSUME Init PROVE IInv
  OBVIOUS
<1>. USE DEF Init, EmptyMap
<1>1. TypeOK
  BY CandidatesAssumption DEF TypeOK
<1>2. Maps /\ SafeNames /\ CallsAreToldOf
  BY DEF Maps, NamesAreUsed, UsedAreNames, SafeNames, CallsAreToldOf
<1>. QED BY <1>1, <1>2 DEF IInv

\* A request starts with nothing named.
LEMMA DeclareIInv ==
  ASSUME NEW declared \in ToolLists, NEW wanted, Declare(declared, wanted)
  PROVE  IInv'
<1>. USE DEF Declare, EmptyMap
<1>1. TypeOK'
  BY ToolListsType DEF TypeOK
<1>2. Maps' /\ SafeNames' /\ CallsAreToldOf'
  BY DEF Maps, NamesAreUsed, UsedAreNames, SafeNames, CallsAreToldOf
<1>. QED BY <1>1, <1>2 DEF IInv

\* A Responses tool is given a name that is not in use for another raw name.
LEMMA NewNameIsFree ==
  ASSUME NEW tool \in Tools, IsNamed(tool), TypeOK, Maps, adapter = "responses"
  PROVE  \E k \in 0..(MaxTools + 1) :
           /\ UpstreamName(tool) = Candidate(Raw(tool), k)
           /\ Free(Raw(tool), k, used)
<1>1. Len(names) \in Nat /\ Len(names) <= MaxTools
  BY CandidatesAssumption DEF TypeOK
<1>2. DOMAIN used \subseteq { names[i] : i \in 1..Len(names) }
  BY DEF Maps, UsedAreNames, TypeOK
<1>. QED BY <1>1, <1>2, UniqueIsFirstFree DEF UpstreamName

LEMMA UpstreamNameType ==
  ASSUME NEW tool \in Tools, IsNamed(tool), TypeOK, Maps
  PROVE  UpstreamName(tool) \in UpstreamNames
<1>1. CASE adapter = "responses"
  BY <1>1, NewNameIsFree DEF UpstreamNames
<1>2. CASE adapter # "responses"
  BY <1>2, CandidatesAssumption DEF UpstreamName, UpstreamNames
<1>. QED BY <1>1, <1>2

\* Naming the next tool.
LEMMA NormalizeToolIInv == IInv /\ NormalizeTool => IInv'
<1>. SUFFICES ASSUME IInv, NormalizeTool PROVE IInv'
  OBVIOUS
<1>. DEFINE here == Len(names) + 1
            tool == tools[here]
            name == UpstreamName(tool)
<1>1. /\ pc = "naming" /\ Len(names) < Len(tools)
      /\ UNCHANGED <<adapter, pc, tools, choice, sent, toolChoice, call, past>>
      /\ TypeOK /\ Maps /\ SafeNames /\ CallsAreToldOf
  BY DEF NormalizeTool, IInv
<1>2. here \in 1..Len(tools) /\ tool \in Tools /\ Len(names) \in Nat /\ Len(tools) \in Nat
  BY <1>1 DEF TypeOK
<1>3. CallsAreToldOf'
  BY <1>1 DEF CallsAreToldOf
<1>4. CASE ~IsNamed(tool)
  <2>1. names' = Append(names, Unnamed) /\ UNCHANGED <<used, toolNameMap>>
    BY <1>4 DEF NormalizeTool
  <2>2. /\ names' \in Seq(UpstreamNames) /\ Len(names') = here /\ DOMAIN names' = 1..here
        /\ DOMAIN names = 1..Len(names)
        /\ \A n \in DOMAIN names : names'[n] = names[n]
    BY <1>1, <2>1 DEF TypeOK, UpstreamNames
  <2>3. TypeOK'
    BY <1>1, <1>2, <2>1, <2>2 DEF TypeOK
  <2>4. Maps'
    BY <1>1, <1>2, <1>4, <2>1, <2>2 DEF Maps, NamesAreUsed, UsedAreNames
  <2>5. SafeNames'
    BY <1>1, <1>2, <1>4, <2>1, <2>2 DEF SafeNames
  <2>. QED BY <1>3, <2>3, <2>4, <2>5 DEF IInv
<1>5. CASE IsNamed(tool)
  <2>1. /\ names' = Append(names, name)
        /\ used' = Put(used, name, Raw(tool))
        /\ toolNameMap' = Put(toolNameMap, name, tool)
    BY <1>5 DEF NormalizeTool
  <2>2. name \in UpstreamNames
    BY <1>1, <1>2, <1>5, UpstreamNameType
  <2>3. /\ names' \in Seq(UpstreamNames) /\ Len(names') = here /\ DOMAIN names' = 1..here
        /\ DOMAIN names = 1..Len(names)
        /\ \A n \in DOMAIN names : names'[n] = names[n]
        /\ names'[here] = name
    <3>. HIDE DEF name
    <3>. QED BY <1>1, <2>1, <2>2 DEF TypeOK
  <2>4. /\ DOMAIN used' = DOMAIN used \cup {name}
        /\ DOMAIN toolNameMap' = DOMAIN toolNameMap \cup {name}
        /\ used'[name] = Raw(tool) /\ toolNameMap'[name] = tool
        /\ \A u \in DOMAIN used : u # name => used'[u] = used[u]
        /\ \A u \in DOMAIN toolNameMap : u # name => toolNameMap'[u] = toolNameMap[u]
    <3>. HIDE DEF name, tool
    <3>. QED BY <2>1 DEF Put
  <2>5. TypeOK'
    BY <1>1, <1>2, <2>3, <2>4 DEF TypeOK
  <2>6. ASSUME adapter = "responses" PROVE NamesAreUsed' /\ UsedAreNames'
    <3>1. \E k \in 0..(MaxTools + 1) : name = Candidate(Raw(tool), k) /\ Free(Raw(tool), k, used)
      BY <1>1, <1>2, <1>5, <2>6, NewNameIsFree
    <3>2. name \in DOMAIN used => used[name] = Raw(tool)
      BY <3>1 DEF Free
    <3>3. NamesAreUsed'
      <4>. SUFFICES ASSUME NEW n \in DOMAIN names', IsNamed(tools[n])
                    PROVE  names'[n] \in DOMAIN used' /\ used'[names'[n]] = Raw(tools[n])
        BY <1>1 DEF NamesAreUsed
      <4>1. CASE n = here
        BY <4>1, <2>3, <2>4
      <4>2. CASE n \in DOMAIN names
        <5>1. names[n] \in DOMAIN used /\ used[names[n]] = Raw(tools[n]) /\ names'[n] = names[n]
          BY <1>1, <2>3, <2>6, <4>2 DEF Maps, NamesAreUsed
        <5>. HIDE DEF name, tool
        <5>. QED BY <5>1, <3>2, <2>4
      <4>. QED BY <4>1, <4>2, <1>2, <2>3
    <3>4. UsedAreNames'
      <4>. SUFFICES ASSUME NEW u \in DOMAIN used'
                    PROVE  \E n \in DOMAIN names' :
                             IsNamed(tools[n]) /\ names'[n] = u /\ toolNameMap'[u] = tools[n]
        BY <1>1 DEF UsedAreNames
      <4>1. CASE u = name
        BY <4>1, <1>2, <1>5, <2>3, <2>4
      <4>2. CASE u # name
        <5>1. u \in DOMAIN used
          BY <4>2, <2>4
        <5>2. PICK n \in DOMAIN names : IsNamed(tools[n]) /\ names[n] = u /\ toolNameMap[u] = tools[n]
          BY <1>1, <2>6, <5>1 DEF Maps, UsedAreNames
        <5>3. n \in DOMAIN names' /\ names'[n] = u
          BY <5>2, <1>2, <2>3
        <5>4. toolNameMap'[u] = tools[n]
          BY <1>1, <5>1, <5>2, <4>2, <2>4 DEF TypeOK
        <5>. QED BY <5>2, <5>3, <5>4
      <4>. QED BY <4>1, <4>2
    <3>. QED BY <3>3, <3>4
  <2>7. Maps'
    BY <1>1, <2>6 DEF Maps
  <2>8. SafeNames'
    <3>. SUFFICES ASSUME adapter # "responses", NEW n \in DOMAIN names', IsNamed(tools[n])
                  PROVE  names'[n] = Candidate(Raw(tools[n]), 0)
      BY <1>1 DEF SafeNames
    <3>1. CASE n = here
      BY <3>1, <2>3 DEF UpstreamName
    <3>2. CASE n \in DOMAIN names
      BY <1>1, <2>3, <3>2 DEF SafeNames
    <3>. QED BY <3>1, <3>2, <1>2, <2>3
  <2>. QED BY <1>3, <2>5, <2>7, <2>8 DEF IInv
<1>. QED BY <1>4, <1>5

LEMMA BuildIInv == IInv /\ Build => IInv'
<1>. SUFFICES ASSUME IInv, Build PROVE IInv'
  OBVIOUS
<1>. USE DEF IInv, Build
<1>1. TypeOK'
  BY DEF TypeOK, Allowed, nameVars
<1>2. Maps' /\ SafeNames'
  BY DEF Maps, NamesAreUsed, UsedAreNames, SafeNames, nameVars
<1>3. CallsAreToldOf'
  BY DEF CallsAreToldOf
<1>. QED BY <1>1, <1>2, <1>3

LEMMA UpstreamCallsIInv == IInv /\ UpstreamCalls => IInv'
<1>. SUFFICES ASSUME IInv, UpstreamCalls PROVE IInv'
  OBVIOUS
<1>. USE DEF IInv, UpstreamCalls, nameVars
<1>1. TypeOK'
  BY DEF TypeOK
<1>2. Maps' /\ SafeNames'
  BY DEF Maps, NamesAreUsed, UsedAreNames, SafeNames
<1>3. CallsAreToldOf'
  BY DEF CallsAreToldOf, Told, Restored, TypeOK
<1>. QED BY <1>1, <1>2, <1>3

LEMMA NextIInv == IInv /\ [Next]_vars => IInv'
<1>. SUFFICES ASSUME IInv, [Next]_vars PROVE IInv'
  OBVIOUS
<1>1. CASE FirstRequest
  BY <1>1, DeclareIInv DEF FirstRequest
<1>2. CASE SecondRequest
  BY <1>2, DeclareIInv DEF SecondRequest
<1>3. CASE NormalizeTool
  BY <1>3, NormalizeToolIInv
<1>4. CASE Build
  BY <1>4, BuildIInv
<1>5. CASE UpstreamCalls
  BY <1>5, UpstreamCallsIInv
<1>6. CASE UNCHANGED vars
  BY <1>6 DEF vars, nameVars, IInv, TypeOK, Maps, NamesAreUsed, UsedAreNames, SafeNames,
              CallsAreToldOf, Told, Restored
<1>. QED BY <1>1, <1>2, <1>3, <1>4, <1>5, <1>6 DEF Next

\* The invariant holds in every state of every behaviour.
THEOREM NamesInvariant == Spec => []IInv
BY InitIInv, NextIInv, PTL DEF Spec

-----------------------------------------------------------------------------

\* The names are candidates, one for each tool when the request is sent.
THEOREM NamesTyped == Spec => []TypeOK
BY NamesInvariant, PTL DEF IInv

\* Two tools of a Responses request with different full names never share an
\* upstream name, however many there are and whatever their safe names and
\* digests collide in (UniqueUpstreamToolName).
THEOREM NamesStayDistinct == Spec => []NamesAreDistinct
<1>1. IInv => NamesAreDistinct
  BY DEF IInv, Maps, NamesAreUsed, NamesAreDistinct
<1>. QED BY <1>1, NamesInvariant, PTL

\* The client is told of the tool that was called, as it declared it
\* (UpstreamToolCallToResponseItem).
THEOREM CallsComeBack == Spec => []CallComesBackAsItsTool
<1>1. IInv => CallComesBackAsItsTool
  <2>. SUFFICES ASSUME IInv, NEW answer \in call
                PROVE  LET called == tools[answer.place] IN
                         IF adapter = "responses"
                           THEN (\A n \in Declared : Raw(tools[n]) = Raw(called) => tools[n] = called)
                                  => answer.item.tool = called
                           ELSE Candidate(Raw(called), 0) = called.name
                                  => answer.item.tool.name = called.name
    BY DEF CallComesBackAsItsTool
  <2>. DEFINE n == answer.place
              called == tools[n]
  <2>1. /\ n \in DOMAIN tools /\ n \in DOMAIN names /\ IsNamed(called)
        /\ answer.item = Told(names[n])
        /\ DOMAIN names = DOMAIN tools
    BY DEF IInv, CallsAreToldOf, TypeOK
  <2>2. CASE adapter = "responses"
    <3>1. answer.item.tool = toolNameMap[names[n]]
      BY <2>1, <2>2 DEF Told, Restored
    <3>2. names[n] \in DOMAIN used /\ used[names[n]] = Raw(called)
      BY <2>1, <2>2 DEF IInv, Maps, NamesAreUsed
    <3>3. PICK m \in DOMAIN names :
            IsNamed(tools[m]) /\ names[m] = names[n] /\ toolNameMap[names[n]] = tools[m]
      BY <2>2, <3>2 DEF IInv, Maps, UsedAreNames
    <3>4. Raw(tools[m]) = Raw(called) /\ m \in Declared
      BY <2>1, <2>2, <3>2, <3>3 DEF IInv, Maps, NamesAreUsed, Declared
    <3>. QED BY <2>2, <3>1, <3>3, <3>4
  <2>3. CASE adapter # "responses"
    BY <2>1, <2>3 DEF IInv, SafeNames, Told
  <2>. QED BY <2>2, <2>3
<1>. QED BY <1>1, NamesInvariant, PTL

-----------------------------------------------------------------------------
(* A second request.  The names of a list of tools follow from the list: each *)
(* is the first candidate that is free given those before it.  So two requests *)
(* that declare the same tools first give them the same names.                *)

\* Candidate k of the n-th of the tools t is not the name of an earlier tool with
\* another raw name; m are the names of the earlier ones.
FreeAfter(t, m, n, k) ==
  \A i \in 1..(n - 1) :
    IsNamed(t[i]) /\ m[i] = Candidate(Raw(t[n]), k) => Raw(t[i]) = Raw(t[n])

IsNameOf(t, m, n) ==
  IF IsNamed(t[n])
    THEN \E k \in 0..(MaxTools + 1) :
           /\ m[n] = Candidate(Raw(t[n]), k) /\ FreeAfter(t, m, n, k)
           /\ \A j \in 0..(k - 1) : ~FreeAfter(t, m, n, j)
    ELSE m[n] = Unnamed

NamesFollow == adapter = "responses" => \A n \in DOMAIN names : IsNameOf(tools, names, n)

\* What is kept of the first request.
PastFollows ==
  \A before \in past :
    LET place == before.call.place IN
      /\ adapter = "responses"
      /\ before.tools \in Seq(Tools)
      /\ \A n \in DOMAIN before.tools : IsNameOf(before.tools, before.names, n)
      /\ place \in DOMAIN before.tools /\ IsNamed(before.tools[place])
      /\ before.call.item.upstream = before.names[place]
      /\ Raw(before.call.item.tool) = Raw(before.tools[place])

\* As far as the two lists of tools are the same, so are the names.
AgreesSoFar ==
  \A before \in past : \A n \in DOMAIN names :
    n \in DOMAIN before.tools /\ (\A i \in 1..n : tools[i] = before.tools[i])
      => names[n] = before.names[n]

PInv == IInv /\ NamesFollow /\ PastFollows /\ AgreesSoFar

\* The same tools with the same names before them have the same name.
LEMMA NameIsDetermined ==
  ASSUME NEW t, NEW m, NEW b, NEW c, NEW n \in Nat \ {0},
         \A i \in 1..n : t[i] = b[i], \A i \in 1..(n - 1) : m[i] = c[i],
         IsNameOf(t, m, n), IsNameOf(b, c, n)
  PROVE  m[n] = c[n]
<1>1. t[n] = b[n]
  OBVIOUS
<1>2. CASE ~IsNamed(t[n])
  BY <1>1, <1>2 DEF IsNameOf
<1>3. CASE IsNamed(t[n])
  <2>1. PICK k \in 0..(MaxTools + 1) :
          /\ m[n] = Candidate(Raw(t[n]), k) /\ FreeAfter(t, m, n, k)
          /\ \A j \in 0..(k - 1) : ~FreeAfter(t, m, n, j)
    BY <1>3 DEF IsNameOf
  <2>2. PICK l \in 0..(MaxTools + 1) :
          /\ c[n] = Candidate(Raw(b[n]), l) /\ FreeAfter(b, c, n, l)
          /\ \A j \in 0..(l - 1) : ~FreeAfter(b, c, n, j)
    BY <1>1, <1>3 DEF IsNameOf
  <2>3. ASSUME NEW j PROVE FreeAfter(t, m, n, j) <=> FreeAfter(b, c, n, j)
    BY <1>1 DEF FreeAfter
  <2>4. k = l
    BY <2>1, <2>2, <2>3, CandidatesAssumption
  <2>. QED BY <1>1, <2>1, <2>2, <2>4
<1>. QED BY <1>2, <1>3

\* The map of UniqueUpstreamToolName says of a candidate what the names so far say.
LEMMA FreeIsFreeAfter ==
  ASSUME TypeOK, Maps, adapter = "responses", NEW k, Len(names) < Len(tools)
  PROVE  Free(Raw(tools[Len(names) + 1]), k, used) <=> FreeAfter(tools, names, Len(names) + 1, k)
<1>1. DOMAIN names = 1..Len(names) /\ Len(names) + 1 - 1 = Len(names)
  BY DEF TypeOK
<1>. QED BY <1>1 DEF Maps, NamesAreUsed, UsedAreNames, Free, FreeAfter

\* The tool that is named next gets the name that follows from the list.
LEMMA NextNameFollows ==
  ASSUME IInv, NormalizeTool, adapter = "responses"
  PROVE  IsNameOf(tools, names', Len(names) + 1)
<1>. DEFINE here == Len(names) + 1
            tool == tools[here]
<1>1. /\ Len(names) \in Nat /\ Len(names) < Len(tools) /\ Len(names) <= MaxTools
      /\ tool \in Tools /\ TypeOK /\ Maps /\ names \in Seq(UpstreamNames)
  BY CandidatesAssumption DEF IInv, TypeOK, NormalizeTool
<1>2. CASE ~IsNamed(tool)
  BY <1>1, <1>2 DEF NormalizeTool, IsNameOf
<1>3. CASE IsNamed(tool)
  <2>1. DOMAIN used \subseteq { names[i] : i \in 1..Len(names) }
    BY <1>1 DEF Maps, UsedAreNames
  <2>2. PICK k \in 0..(MaxTools + 1) :
          /\ UniqueUpstreamToolName(Raw(tool), used) = Candidate(Raw(tool), k)
          /\ Free(Raw(tool), k, used)
          /\ \A j \in 0..(k - 1) : ~Free(Raw(tool), j, used)
    BY <1>1, <1>3, <2>1, UniqueIsFirstFree
  <2>3. names' = Append(names, Candidate(Raw(tool), k))
    BY <1>3, <2>2 DEF NormalizeTool, UpstreamName
  <2>4. names'[here] = Candidate(Raw(tool), k) /\ \A i \in 1..(here - 1) : names'[i] = names[i]
    BY <1>1, <2>3
  <2>5. ASSUME NEW j PROVE Free(Raw(tool), j, used) <=> FreeAfter(tools, names', here, j)
    BY <1>1, <2>4, FreeIsFreeAfter DEF FreeAfter
  <2>. QED BY <1>3, <2>2, <2>4, <2>5 DEF IsNameOf
<1>. QED BY <1>2, <1>3

\* An earlier name does not depend on what is appended.
LEMMA NameKept ==
  ASSUME NEW t, NEW m, NEW p, NEW n \in Nat, \A i \in 1..n : p[i] = m[i], n # 0,
         IsNameOf(t, m, n)
  PROVE  IsNameOf(t, p, n)
<1>1. p[n] = m[n] /\ \A k : FreeAfter(t, p, n, k) <=> FreeAfter(t, m, n, k)
  BY DEF FreeAfter
<1>. QED BY <1>1 DEF IsNameOf

LEMMA NormalizeToolPInv == PInv /\ NormalizeTool => PInv'
<1>. SUFFICES ASSUME PInv, NormalizeTool PROVE PInv'
  OBVIOUS
<1>. DEFINE here == Len(names) + 1
<1>1. IInv' /\ IInv
  BY NormalizeToolIInv DEF PInv
<1>2. UNCHANGED <<adapter, tools, past>>
  BY DEF NormalizeTool
<1>3. /\ Len(names) \in Nat /\ DOMAIN names = 1..Len(names) /\ DOMAIN names' = 1..here
      /\ \A i \in 1..Len(names) : names'[i] = names[i]
  <2>1. names \in Seq(UpstreamNames) /\ names' \in Seq(UpstreamNames)
    BY <1>1 DEF IInv, TypeOK
  <2>2. \E name : names' = Append(names, name)
    BY DEF NormalizeTool
  <2>3. PICK name : names' = Append(names, name)
    BY <2>2
  <2>. QED BY <2>1, <2>3
<1>4. ASSUME adapter = "responses", NEW n \in DOMAIN names' PROVE IsNameOf(tools, names', n)
  <2>1. CASE n = here
    BY <1>1, <1>4, <2>1, NextNameFollows
  <2>2. CASE n \in DOMAIN names
    <3>1. IsNameOf(tools, names, n)
      BY <1>4, <2>2 DEF PInv, NamesFollow
    <3>2. n \in Nat /\ n # 0 /\ \A i \in 1..n : names'[i] = names[i]
      BY <1>3, <2>2
    <3>. QED BY <3>1, <3>2, NameKept
  <2>. QED BY <2>1, <2>2, <1>3
<1>5. NamesFollow'
  BY <1>2, <1>4 DEF NamesFollow
<1>6. PastFollows'
  BY <1>2 DEF PInv, PastFollows
<1>7. AgreesSoFar'
  <2>. SUFFICES ASSUME NEW before \in past, NEW n \in DOMAIN names', n \in DOMAIN before.tools,
                       \A i \in 1..n : tools[i] = before.tools[i]
                PROVE  names'[n] = before.names[n]
    BY <1>2 DEF AgreesSoFar
  <2>1. n \in Nat \ {0}
    BY <1>3
  <2>2. \A i \in 1..n : i \in DOMAIN before.tools
    BY <2>1 DEF PInv, PastFollows
  <2>3. ASSUME NEW i \in 1..(n - 1) PROVE names'[i] = before.names[i]
    <3>1. i \in DOMAIN names /\ names'[i] = names[i] /\ i \in DOMAIN before.tools
      BY <1>3, <2>1, <2>2
    <3>2. \A j \in 1..i : tools[j] = before.tools[j]
      BY <2>1
    <3>. QED BY <3>1, <3>2 DEF PInv, AgreesSoFar
  <2>4. IsNameOf(tools, names', n) /\ IsNameOf(before.tools, before.names, n)
    BY <1>4 DEF PInv, PastFollows
  <2>. QED BY <2>1, <2>3, <2>4, NameIsDetermined
<1>. QED BY <1>1, <1>5, <1>6, <1>7 DEF PInv

\* What the client of a Responses request is told of stands for the called tool.
LEMMA AnswerStandsForTheTool ==
  ASSUME IInv, adapter = "responses", NEW answer \in call
  PROVE  /\ answer.place \in DOMAIN tools /\ IsNamed(tools[answer.place])
         /\ DOMAIN names = DOMAIN tools
         /\ answer.item.upstream = names[answer.place]
         /\ Raw(answer.item.tool) = Raw(tools[answer.place])
<1>. DEFINE n == answer.place
<1>1. /\ n \in DOMAIN tools /\ DOMAIN names = DOMAIN tools /\ IsNamed(tools[n])
      /\ answer.item = Restored(names[n])
  BY DEF IInv, CallsAreToldOf, TypeOK, Told
<1>2. names[n] \in DOMAIN used /\ used[names[n]] = Raw(tools[n])
  BY <1>1 DEF IInv, Maps, NamesAreUsed
<1>3. PICK m \in DOMAIN names :
        IsNamed(tools[m]) /\ names[m] = names[n] /\ toolNameMap[names[n]] = tools[m]
  BY <1>2 DEF IInv, Maps, UsedAreNames
<1>4. Raw(tools[m]) = Raw(tools[n])
  BY <1>2, <1>3 DEF IInv, Maps, NamesAreUsed
<1>. QED BY <1>1, <1>3, <1>4 DEF Restored

LEMMA SecondRequestPInv == PInv /\ SecondRequest => PInv'
<1>. SUFFICES ASSUME PInv, SecondRequest PROVE PInv'
  OBVIOUS
<1>1. IInv' /\ names' = <<>> /\ adapter' = adapter /\ adapter = "responses"
  BY DeclareIInv DEF SecondRequest, Declare
<1>2. PastFollows'
  <2>. SUFFICES ASSUME NEW answer \in call
                PROVE  /\ tools \in Seq(Tools)
                       /\ \A n \in DOMAIN tools : IsNameOf(tools, names, n)
                       /\ answer.place \in DOMAIN tools /\ IsNamed(tools[answer.place])
                       /\ answer.item.upstream = names[answer.place]
                       /\ Raw(answer.item.tool) = Raw(tools[answer.place])
    BY <1>1 DEF SecondRequest, PastFollows
  <2>1. /\ answer.place \in DOMAIN tools /\ IsNamed(tools[answer.place])
        /\ DOMAIN names = DOMAIN tools
        /\ answer.item.upstream = names[answer.place]
        /\ Raw(answer.item.tool) = Raw(tools[answer.place])
    BY <1>1, AnswerStandsForTheTool DEF PInv
  <2>2. \A n \in DOMAIN tools : IsNameOf(tools, names, n)
    BY <1>1, <2>1 DEF PInv, NamesFollow
  <2>. QED BY <2>1, <2>2 DEF PInv, IInv, TypeOK
<1>3. NamesFollow' /\ AgreesSoFar'
  BY <1>1 DEF NamesFollow, AgreesSoFar
<1>. QED BY <1>1, <1>2, <1>3 DEF PInv

LEMMA NextPInv == PInv /\ [Next]_vars => PInv'
<1>. SUFFICES ASSUME PInv, [Next]_vars PROVE PInv'
  OBVIOUS
<1>1. IInv'
  BY NextIInv DEF PInv
<1>2. CASE FirstRequest
  BY <1>1, <1>2 DEF FirstRequest, Declare, PInv, NamesFollow, PastFollows, AgreesSoFar
<1>3. CASE SecondRequest
  BY <1>3, SecondRequestPInv
<1>4. CASE NormalizeTool
  BY <1>4, NormalizeToolPInv
<1>5. CASE Build
  BY <1>1, <1>5 DEF Build, nameVars, PInv, NamesFollow, PastFollows, AgreesSoFar
<1>6. CASE UpstreamCalls
  BY <1>1, <1>6 DEF UpstreamCalls, nameVars, PInv, NamesFollow, PastFollows, AgreesSoFar
<1>7. CASE UNCHANGED vars
  BY <1>1, <1>7 DEF vars, nameVars, PInv, NamesFollow, PastFollows, AgreesSoFar
<1>. QED BY <1>2, <1>3, <1>4, <1>5, <1>6, <1>7 DEF Next

\* A call in the history of a second request still names the tool it was a call of
\* (UpstreamToolNameForResponseItem and the private name in the item).
THEOREM ReplaysNameTheTool == Spec => []ReplayNamesTheTool
<1>1. Init => PInv
  BY InitIInv DEF Init, PInv, NamesFollow, PastFollows, AgreesSoFar
<1>2. PInv => ReplayNamesTheTool
  <2>. SUFFICES ASSUME PInv, pc = "sent", NEW before \in past
                PROVE
                  LET item == before.call.item
                      Stands(name) == name \in DOMAIN used /\ used[name] = Raw(item.tool)
                  IN  /\ IsPrefixOf(before.tools, tools) =>
                           Stands(UpstreamToolNameForResponseItem(item, TRUE))
                      /\ /\ \E n \in Declared : tools[n] = item.tool
                         /\ \A n \in Declared : Raw(tools[n]) # Raw(item.tool) =>
                              names[n] # Candidate(Raw(item.tool), 0)
                         => Stands(UpstreamToolNameForResponseItem(item, FALSE))
    BY DEF ReplayNamesTheTool
  <2>. DEFINE item == before.call.item
              place == before.call.place
  <2>1. /\ adapter = "responses" /\ DOMAIN names = DOMAIN tools /\ tools \in Seq(Tools)
        /\ before.tools \in Seq(Tools) /\ place \in DOMAIN before.tools
        /\ IsNamed(before.tools[place]) /\ item.upstream = before.names[place] /\ Raw(item.tool) = Raw(before.tools[place])
    BY DEF PInv, IInv, TypeOK, PastFollows
  <2>2. \A n \in DOMAIN tools : IsNamed(tools[n]) =>
          names[n] \in DOMAIN used /\ used[names[n]] = Raw(tools[n])
    BY <2>1 DEF PInv, IInv, Maps, NamesAreUsed
  <2>3. ASSUME IsPrefixOf(before.tools, tools)
        PROVE  item.upstream \in DOMAIN used /\ used[item.upstream] = Raw(item.tool)
    <3>1. \A i \in DOMAIN before.tools : i \in DOMAIN tools /\ tools[i] = before.tools[i]
      BY <2>1, <2>3 DEF IsPrefixOf
    <3>2. place \in Nat /\ \A i \in 1..place : i \in DOMAIN before.tools
      BY <2>1
    <3>3. names[place] = before.names[place]
      BY <2>1, <3>1, <3>2 DEF PInv, AgreesSoFar
    <3>4. IsNamed(tools[place])
      BY <2>1, <3>1
    <3>. QED BY <2>1, <2>2, <3>1, <3>3, <3>4
  <2>4. ASSUME NEW n \in Declared, tools[n] = item.tool,
               \A m \in Declared : Raw(tools[m]) # Raw(item.tool) =>
                 names[m] # Candidate(Raw(item.tool), 0)
        PROVE  LET name == Candidate(Raw(item.tool), 0) IN
                 name \in DOMAIN used /\ used[name] = Raw(item.tool)
    <3>1. n \in DOMAIN tools /\ IsNamed(tools[n]) /\ IsNameOf(tools, names, n)
      BY <2>1 DEF Declared, PInv, NamesFollow
    <3>2. FreeAfter(tools, names, n, 0)
      BY <2>1, <2>4, <3>1 DEF FreeAfter, Declared
    <3>3. names[n] = Candidate(Raw(tools[n]), 0)
      BY <3>1, <3>2, CandidatesAssumption DEF IsNameOf
    <3>. QED BY <2>2, <2>4, <3>1, <3>3
  <2>. QED BY <2>3, <2>4 DEF UpstreamToolNameForResponseItem
<1>. QED BY <1>1, <1>2, NextPInv, PTL DEF Spec

-----------------------------------------------------------------------------
(* tool_choice.                                                            *)

\* What the client asks for is what its endpoint lets it ask for, and what is
\* sent was computed from the names that the tools still have.
Asked ==
  /\ choice \in Choices \cup {NoChoice}
  /\ Askable(choice)
  /\ \A n \in DOMAIN tools : Offered(tools[n])

SentAsMapped == pc = "sent" => sent = Allowed /\ toolChoice \in ToolChoices

CInv == IInv /\ Asked /\ SentAsMapped

LEMMA NextCInv == CInv /\ [Next]_vars => CInv'
<1>. SUFFICES ASSUME CInv, [Next]_vars PROVE CInv'
  OBVIOUS
<1>1. IInv'
  BY NextIInv DEF CInv
<1>2. CASE FirstRequest
  <2>1. Asked'
    BY <1>2 DEF FirstRequest, Declare, Asked, Askable, Offered
  <2>2. SentAsMapped'
    BY <1>2 DEF FirstRequest, Declare, SentAsMapped
  <2>. QED BY <1>1, <2>1, <2>2 DEF CInv
<1>3. CASE SecondRequest
  <2>1. Asked'
    BY <1>3 DEF SecondRequest, Declare, Asked, Askable, Offered, NoChoice
  <2>2. SentAsMapped'
    BY <1>3 DEF SecondRequest, Declare, SentAsMapped
  <2>. QED BY <1>1, <2>1, <2>2 DEF CInv
<1>4. CASE NormalizeTool
  <2>1. Asked'
    BY <1>4 DEF NormalizeTool, CInv, Asked, Askable, Offered
  <2>2. SentAsMapped'
    BY <1>4 DEF NormalizeTool, SentAsMapped
  <2>. QED BY <1>1, <2>1, <2>2 DEF CInv
<1>5. CASE Build
  <2>1. Asked'
    BY <1>5 DEF Build, CInv, Asked, Askable, Offered
  <2>2. SentAsMapped'
    BY <1>5 DEF Build, nameVars, SentAsMapped, Allowed, AllowedNames, ToolChoices, MappedNames,
                Matches, SoleName
  <2>. QED BY <1>1, <2>1, <2>2 DEF CInv
<1>6. CASE UpstreamCalls
  <2>1. Asked'
    BY <1>6 DEF UpstreamCalls, CInv, Asked, Askable, Offered
  <2>2. SentAsMapped'
    BY <1>6 DEF UpstreamCalls, SentAsMapped
  <2>. QED BY <1>1, <2>1, <2>2 DEF CInv
<1>7. CASE UNCHANGED vars
  <2>1. Asked'
    BY <1>7 DEF vars, CInv, Asked, Askable, Offered
  <2>2. SentAsMapped'
    BY <1>7 DEF vars, nameVars, CInv, SentAsMapped, Allowed, AllowedNames, ToolChoices,
                MappedNames, Matches, SoleName
  <2>. QED BY <1>1, <2>1, <2>2 DEF CInv
<1>. QED BY <1>2, <1>3, <1>4, <1>5, <1>6, <1>7 DEF Next

LEMMA ChoicesInvariant == Spec => []CInv
<1>1. Init => CInv
  BY InitIInv DEF Init, CInv, Asked, Askable, NoChoice, SentAsMapped
<1>. QED BY <1>1, NextCInv, PTL DEF Spec

\* Every named tool of a Responses request is in the map under its name, or a
\* tool of the same name stands there.
LEMMA MapHolds ==
  ASSUME IInv, pc = "sent", adapter = "responses"
  PROVE  /\ \A n \in Declared : names[n] \in DOMAIN toolNameMap
         /\ \A u \in DOMAIN toolNameMap :
              \E m \in Declared : names[m] = u /\ toolNameMap[u] = tools[m]
<1>1. DOMAIN names = DOMAIN tools /\ DOMAIN used = DOMAIN toolNameMap
  BY DEF IInv, TypeOK
<1>. QED BY <1>1 DEF IInv, Maps, NamesAreUsed, UsedAreNames, Declared

\* On the other endpoints the name is the safe form of the tool's own.
LEMMA SafeName ==
  ASSUME CInv, pc = "sent", adapter # "responses", NEW n \in Declared
  PROVE  /\ names[n] = Candidate(tools[n].name, 0)
         /\ tools[n].namespace = <<>> /\ <<>> \o tools[n].name = tools[n].name
<1>1. /\ DOMAIN names = DOMAIN tools /\ n \in DOMAIN tools /\ IsNamed(tools[n])
      /\ tools[n] \in Tools
  BY DEF CInv, IInv, TypeOK, Declared
<1>2. tools[n].name \in Seq(Words) /\ tools[n].namespace = <<>>
  BY <1>1, ChoicesAssumption DEF CInv, Asked, Offered, Tool
<1>3. <<>> \o tools[n].name = tools[n].name
  BY <1>2
<1>. QED BY <1>1, <1>2, <1>3 DEF CInv, IInv, SafeNames, Raw

\* A tool_choice that names a declared tool, and no other, reaches GLM as the name
\* of a tool the client can have meant (mappedToolNameForChoice).
THEOREM ChoicesAreMeant == Spec => []ChoiceIsMeant
<1>1. CInv => ChoiceIsMeant
  <2>. DEFINE meant == Meant(choice.type, choice.name, choice.namespace)
              shadowed == Shadowed(meant, choice.name, choice.namespace)
  <2>. SUFFICES ASSUME CInv, pc = "sent", choice.kind = "named", meant # {}, ~shadowed
                PROVE  \E n \in meant : toolChoice = {names[n]}
    BY DEF ChoiceIsMeant
  <2>1. /\ choice \in Choices /\ choice.type \in {"function", "custom"} /\ choice.name # <<>>
    <3>1. NoChoice.kind = "none"
      BY DEF NoChoice
    <3>2. choice \in Choices
      BY <3>1 DEF CInv, Asked
    <3>. QED BY <3>2, ChoicesAssumption
  <2>2. PICK u \in MappedNames : toolChoice = {u}
    BY DEF CInv, SentAsMapped, ToolChoices
  <2>3. \A n : n \in meant <=> /\ n \in Declared /\ choice.type = tools[n].type
                               /\ choice.name = tools[n].name
                               /\ choice.namespace \in {<<>>, tools[n].namespace}
    BY <2>1 DEF Meant
  <2>4. \A m \in Declared \ meant :
          /\ ~(names[m] = choice.name /\ choice.namespace \in {<<>>, tools[m].namespace})
          /\ \A n \in meant : names[m] # names[n]
    BY DEF Shadowed
  <2>. HIDE DEF meant, shadowed
  <2>5. CASE adapter = "responses"
    <3>1. PICK n \in meant : TRUE
      OBVIOUS
    <3>2. PICK m \in Declared : names[m] = names[n] /\ toolNameMap[names[n]] = tools[m]
      BY <2>3, <2>5, MapHolds DEF CInv
    <3>3. names[n] \in DOMAIN toolNameMap /\ Matches(names[n])
      BY <2>3, <2>4, <2>5, <3>2, MapHolds DEF CInv, Matches
    <3>4. u \in DOMAIN toolNameMap /\ Matches(u)
      BY <2>2, <2>5, <3>3 DEF MappedNames
    <3>5. PICK k \in Declared : names[k] = u /\ toolNameMap[u] = tools[k]
      BY <2>5, <3>4, MapHolds DEF CInv
    <3>6. k \in meant
      BY <2>3, <2>4, <3>4, <3>5 DEF Matches
    <3>. QED BY <2>2, <3>5, <3>6
  <2>6. CASE adapter # "responses"
    <3>1. u = Candidate(choice.namespace \o choice.name, 0) /\ choice.namespace = <<>>
      BY <2>2, <2>6 DEF MappedNames, CInv, Asked, Askable
    <3>2. PICK n \in meant : TRUE
      OBVIOUS
    <3>3. names[n] = u
      BY <2>3, <2>6, <3>1, SafeName
    <3>. QED BY <2>2, <3>3
  <2>. QED BY <2>5, <2>6
<1>. QED BY <1>1, ChoicesInvariant, PTL

\* With a list of allowed tools, GLM is sent exactly these, whatever names the
\* tools were given (FilterToolsForAllowedChoice and its three likes).
THEOREM AllowedAreSent == Spec => []OnlyAllowedAreSent
<1>1. CInv => OnlyAllowedAreSent
  <2>. DEFINE meant == UNION { MeantBy(entry) : entry \in choice.entries }
              Space(entry) == IF entry.form = "text" THEN <<>> ELSE entry.namespace
  <2>. SUFFICES ASSUME CInv, pc = "sent", choice.kind = "allowed", meant # {},
                       \A entry \in choice.entries : ~Shadowed(meant, entry.name, Space(entry))
                PROVE  sent = meant
    BY DEF OnlyAllowedAreSent
  <2>1. /\ \A entry \in choice.entries :
              entry.form = "text" \/ entry.type = "search" \/ <<>> # entry.name \o entry.namespace
        /\ adapter # "responses" => \A entry \in choice.entries : entry.name # <<>>
    <3>1. NoChoice.kind = "none"
      BY DEF NoChoice
    <3>2. choice \in Choices
      BY <3>1 DEF CInv, Asked
    <3>3. \A entry \in choice.entries :
            entry.form = "text" \/ entry.type = "search" \/ <<>> # entry.name \o entry.namespace
      BY <3>2, ChoicesAssumption
    <3>4. adapter # "responses" => \A entry \in choice.entries : entry.name # <<>>
      BY DEF CInv, Asked, Askable
    <3>. QED BY <3>3, <3>4
  <2>2. /\ \A n \in Declared : tools[n].type # "search"
        /\ \A n : n \in Declared <=> n \in DOMAIN tools /\ IsNamed(tools[n])
    BY DEF Declared, IsNamed
  <2>3. \A n \in meant : n \in Declared /\ \E entry \in choice.entries : n \in MeantBy(entry)
    BY DEF MeantBy, Meant
  <2>4. \A entry \in choice.entries : MeantBy(entry) \subseteq meant
    OBVIOUS
  <2>5. \A entry \in choice.entries, m \in Declared \ meant :
          /\ ~(names[m] = entry.name /\ Space(entry) \in {<<>>, tools[m].namespace})
          /\ \A n \in meant : names[m] # names[n]
          /\ ~(adapter # "responses" /\ names[m] = Candidate(entry.name, 0))
    BY DEF Shadowed
  <2>. HIDE DEF meant
  <2>6. ASSUME NEW n \in meant PROVE names[n] \in AllowedNames
    <3>1. PICK entry \in choice.entries : n \in MeantBy(entry)
      BY <2>3
    <3>2. CASE adapter = "responses"
      <4>1. PICK m \in Declared : names[m] = names[n] /\ toolNameMap[names[n]] = tools[m]
        BY <2>3, <3>2, MapHolds DEF CInv
      <4>2. PICK e \in choice.entries : m \in MeantBy(e)
        BY <2>3, <2>5, <3>1, <4>1
      <4>3. AllowedEntryMatches(e, tools[m], names[n])
        BY <2>1, <2>2, <4>2 DEF MeantBy, Meant, AllowedEntryMatches
      <4>4. names[n] \in DOMAIN toolNameMap
        BY <2>3, <3>2, MapHolds DEF CInv
      <4>. QED BY <3>2, <4>1, <4>3, <4>4 DEF AllowedNames
    <3>3. CASE adapter # "responses"
      <4>1. n \in Declared /\ entry.name # <<>>
        BY <2>1, <2>3, <3>1, <3>3
      <4>2. names[n] = Candidate(tools[n].name, 0) /\ Raw(tools[n]) = tools[n].name
        BY <3>3, <4>1, SafeName DEF Raw
      <4>3. entry.name = tools[n].name
        BY <3>1, <4>1, <4>2 DEF MeantBy, Meant
      <4>. QED BY <3>3, <4>2, <4>3 DEF AllowedNames
    <3>. QED BY <3>2, <3>3
  <2>7. ASSUME NEW n \in Declared, names[n] \in AllowedNames PROVE n \in meant
    <3>1. CASE adapter = "responses"
      <4>1. PICK entry \in choice.entries :
              AllowedEntryMatches(entry, toolNameMap[names[n]], names[n])
        BY <2>7, <3>1 DEF AllowedNames
      <4>2. PICK m \in Declared : names[m] = names[n] /\ toolNameMap[names[n]] = tools[m]
        BY <3>1, MapHolds DEF CInv
      <4>3. \/ m \in MeantBy(entry)
            \/ names[m] = entry.name /\ Space(entry) \in {<<>>, tools[m].namespace}
        BY <4>1, <4>2 DEF AllowedEntryMatches, MeantBy, Meant
      <4>4. m \in meant
        BY <2>4, <2>5, <4>3
      <4>. QED BY <2>5, <4>1, <4>2, <4>4
    <3>2. CASE adapter # "responses"
      <4>1. PICK entry \in choice.entries : names[n] = Candidate(entry.name, 0)
        BY <2>7, <3>2 DEF AllowedNames
      <4>. QED BY <2>5, <3>2, <4>1
    <3>. QED BY <3>1, <3>2
  <2>8. AllowedNames # {}
    BY <2>6
  <2>9. sent = { n \in DOMAIN tools : IsNamed(tools[n]) /\ names[n] \in AllowedNames }
    BY <2>8 DEF CInv, SentAsMapped, Allowed
  <2>. QED BY <2>2, <2>3, <2>6, <2>7, <2>9
<1>. QED BY <1>1, ChoicesInvariant, PTL

-----------------------------------------------------------------------------
(* What a list of items says.                                                *)

\* A set of natural numbers that is not empty has a least element.
LEMMA SmallestOf ==
  ASSUME NEW S, S \subseteq Nat, S # {}
  PROVE  \E n \in S : \A m \in S : n <= m
<1>1. \E R : IsWellFoundedOn(R, Nat) /\ \A m \in Nat, n \in Nat : m < n => <<m, n>> \in R
  <2>1. IsWellFoundedOn(OpToRel(<, Nat), Nat)
    BY NatLessThanWellFounded
  <2>2. \A m \in Nat, n \in Nat : m < n => <<m, n>> \in OpToRel(<, Nat)
    BY DEF OpToRel
  <2>. QED BY <2>1, <2>2, Zenon
<1>2. PICK R : IsWellFoundedOn(R, Nat) /\ \A m \in Nat, n \in Nat : m < n => <<m, n>> \in R
  BY <1>1
<1>3. IsWellFoundedOn(R, Nat)
  BY <1>2
<1>4. \E n \in S : \A m \in S : ~ (<<m, n>> \in R)
  BY <1>3, WFMin, Zenon
<1>5. PICK n \in S : \A m \in S : ~ (<<m, n>> \in R)
  BY <1>4
<1>6. \A m \in S : m \in Nat /\ n \in Nat /\ ~(m < n)
  BY <1>2, <1>5
<1>. QED BY <1>6

-----------------------------------------------------------------------------
(* Reading a list of items.                                                *)

\* The places after items[i] that are not taken by calls that join it.
Ends(list, i) ==
  { j \in (i + 1)..(Len(list) + 1) : j = Len(list) + 1 \/ ~Joins(list[i], list[j]) }

\* AfterCalls is the first such place.
LEMMA AfterCallsIsLeast ==
  ASSUME NEW list, Len(list) \in Nat, NEW i \in 1..Len(list)
  PROVE  /\ AfterCalls(list, i) \in Ends(list, i)
         /\ \A j \in Ends(list, i) : AfterCalls(list, i) <= j
<1>. DEFINE S == Ends(list, i)
<1>1. S \subseteq Nat /\ Len(list) + 1 \in S
  BY DEF Ends
<1>2. AfterCalls(list, i) = CHOOSE j \in S : \A k \in S : j <= k
  BY DEF AfterCalls, Ends
<1>. HIDE DEF S
<1>3. \E j \in S : \A k \in S : j <= k
  BY <1>1, SmallestOf
<1>. QED BY <1>2, <1>3 DEF S

\* The reading goes on.
LEMMA AfterRange ==
  ASSUME NEW list, Len(list) \in Nat, NEW i \in 1..Len(list)
  PROVE  After(list, i) \in (i + 1)..(Len(list) + 1)
<1>1. AfterCalls(list, i) \in (i + 1)..(Len(list) + 1)
  BY AfterCallsIsLeast DEF Ends
<1>2. i + 1 \in (i + 1)..(Len(list) + 1)
  OBVIOUS
<1>. QED BY <1>1, <1>2 DEF After

\* f is what InputItemsToChatMessages makes of items from place n on.
ReadsFrom(f, list, n) ==
  f = [ i \in n..(Len(list) + 1) |->
          IF i > Len(list) THEN <<>> ELSE MessageAt(list, i) \o f[After(list, i)] ]

\* What is read from a place on is its message and what is read after it.
LEMMA ReadsAt ==
  ASSUME NEW f, NEW list, Len(list) \in Nat, NEW n \in 1..(Len(list) + 1), ReadsFrom(f, list, n),
         NEW i \in n..(Len(list) + 1)
  PROVE  f[i] = IF i > Len(list) THEN <<>> ELSE MessageAt(list, i) \o f[After(list, i)]
BY DEF ReadsFrom

\* Who can read from a place on can read from the one before it.
LEMMA ReadsExtend ==
  ASSUME NEW list, Len(list) \in Nat, NEW n \in 1..Len(list), NEW f, ReadsFrom(f, list, n + 1)
  PROVE  \E g : ReadsFrom(g, list, n)
<1>. DEFINE L == Len(list)
            e(i) == IF i > L THEN <<>> ELSE MessageAt(list, i) \o f[After(list, i)]
            g == [ i \in n..(L + 1) |-> e(i) ]
<1>1. \A i \in (n + 1)..(L + 1) : g[i] = f[i]
  <2>1. \A i \in (n + 1)..(L + 1) : f[i] = e(i)
    BY ReadsAt
  <2>2. \A i \in (n + 1)..(L + 1) : i \in n..(L + 1)
    OBVIOUS
  <2>. HIDE DEF e
  <2>. QED BY <2>1, <2>2
<1>2. \A i \in n..L : g[After(list, i)] = f[After(list, i)]
  <2>1. ASSUME NEW i \in n..L PROVE After(list, i) \in (n + 1)..(L + 1)
    <3>1. i \in 1..L
      OBVIOUS
    <3>2. After(list, i) \in (i + 1)..(L + 1)
      BY <3>1, AfterRange
    <3>3. \A k \in (i + 1)..(L + 1) : k \in (n + 1)..(L + 1)
      OBVIOUS
    <3>. QED BY <3>2, <3>3
  <2>. HIDE DEF g
  <2>. QED BY <1>1, <2>1
<1>3. \A i \in n..(L + 1) :
        e(i) = IF i > L THEN <<>> ELSE MessageAt(list, i) \o g[After(list, i)]
  <2>1. \A i \in n..(L + 1) : i > L \/ i \in n..L
    OBVIOUS
  <2>. HIDE DEF g
  <2>. QED BY <1>2, <2>1
<1>4. g = [ i \in n..(L + 1) |-> IF i > L THEN <<>> ELSE MessageAt(list, i) \o g[After(list, i)] ]
  BY <1>3
<1>. QED BY <1>4 DEF ReadsFrom

\* So a list can be read from any place, or there were a least number of items
\* with which it cannot.
LEMMA ReadsExist ==
  ASSUME NEW list, Len(list) \in Nat, NEW k \in 0..Len(list)
  PROVE  \E f : ReadsFrom(f, list, Len(list) + 1 - k)
<1>. DEFINE L == Len(list)
            Bad == { d \in 0..L : ~ \E f : ReadsFrom(f, list, L + 1 - d) }
<1>. SUFFICES ASSUME Bad # {} PROVE FALSE
  OBVIOUS
<1>1. Bad \subseteq Nat
  OBVIOUS
<1>2. PICK d \in Bad : \A j \in Bad : d <= j
  BY <1>1, SmallestOf
<1>3. d \in 0..L /\ ~ \E f : ReadsFrom(f, list, L + 1 - d)
  BY <1>2
<1>4. CASE d = 0
  <2>. DEFINE f == [ i \in (L + 1)..(L + 1) |-> <<>> ]
  <2>1. f = [ i \in (L + 1)..(L + 1) |->
                IF i > L THEN <<>> ELSE MessageAt(list, i) \o f[After(list, i)] ]
    <3>1. \A i \in (L + 1)..(L + 1) : i > L
      OBVIOUS
    <3>. QED BY <3>1
  <2>2. L + 1 - d = L + 1
    BY <1>4
  <2>. QED BY <1>3, <2>1, <2>2 DEF ReadsFrom
<1>5. CASE d # 0
  <2>1. d - 1 \in 0..L /\ ~(d <= d - 1) /\ L + 1 - d \in 1..L /\ (L + 1 - d) + 1 = L + 1 - (d - 1)
    BY <1>3, <1>5
  <2>2. d - 1 \notin Bad
    BY <1>2, <2>1
  <2>3. PICK f : ReadsFrom(f, list, L + 1 - (d - 1))
    BY <2>1, <2>2
  <2>4. \E g : ReadsFrom(g, list, L + 1 - d)
    BY <2>1, <2>3, ReadsExtend
  <2>. QED BY <1>3, <2>4
<1>. QED BY <1>4, <1>5

\* InputItemsToChatMessages reads from the first place.
LEMMA ReadFromTheStart ==
  ASSUME NEW list, Len(list) \in Nat
  PROVE  \E f : ReadsFrom(f, list, 1) /\ InputItemsToChatMessages(list) = f[1]
<1>. DEFINE L == Len(list)
            F == CHOOSE f : f = [ i \in 1..(L + 1) |->
                   IF i > L THEN <<>> ELSE MessageAt(list, i) \o f[After(list, i)] ]
<1>1. \E f : ReadsFrom(f, list, 1)
  <2>1. L \in 0..L /\ L + 1 - L = 1
    OBVIOUS
  <2>. QED BY <2>1, ReadsExist
<1>2. F = [ i \in 1..(L + 1) |->
              IF i > L THEN <<>> ELSE MessageAt(list, i) \o F[After(list, i)] ]
  BY <1>1 DEF ReadsFrom
<1>3. InputItemsToChatMessages(list) = F[1]
  BY DEF InputItemsToChatMessages
<1>. QED BY <1>2, <1>3 DEF ReadsFrom

\* The e items from place i of x on are those from place j of y on.
Alike(x, i, y, j, e) == \A k \in 0..(e - 1) : x[i + k] = y[j + k]

\* What an item becomes is told by the items it takes.
LEMMA MessageOfSame ==
  ASSUME NEW S, NEW x \in Seq(S), NEW y \in Seq(S), NEW i \in 1..Len(x), NEW j \in 1..Len(y),
         NEW e \in Nat, After(x, i) = i + e, After(y, j) = j + e, i + e <= Len(x) + 1, j + e <= Len(y) + 1,
         Alike(x, i, y, j, e), e # 0
  PROVE  MessageAt(x, i) = MessageAt(y, j)
<1>1. x[i] = y[j]
  <2>1. 0 \in 0..(e - 1) /\ i + 0 = i /\ j + 0 = j
    OBVIOUS
  <2>. QED BY <2>1 DEF Alike
<1>2. SubSeq(x, i + 1, (i + e) - 1) = SubSeq(y, j + 1, (j + e) - 1)
  <2>1. /\ SubSeq(x, i + 1, (i + e) - 1) = [ k \in 1..(e - 1) |-> x[i + k] ]
        /\ SubSeq(y, j + 1, (j + e) - 1) = [ k \in 1..(e - 1) |-> y[j + k] ]
    <3>1. ASSUME NEW s \in Seq(S), NEW p \in 1..Len(s), p + e <= Len(s) + 1
          PROVE  SubSeq(s, p + 1, (p + e) - 1) = [ k \in 1..(e - 1) |-> s[p + k] ]
      OBVIOUS
    <3>. QED BY <3>1
  <2>2. \A k \in 1..(e - 1) : x[i + k] = y[j + k]
    BY DEF Alike
  <2>. QED BY <2>1, <2>2
<1>. QED BY <1>1, <1>2, Zenon DEF MessageAt

\* Reading goes on e places after items[i].
GoesOn(list, i, e) == After(list, i) = i + e

\* The items of y from place j on that an item may take end with the e-th.
StopsAt(y, j, e) ==
  \/ j + e = Len(y) + 1
  \/ ~Joins(y[j], y[j + e])
  \/ ~(IsToolCallItem(y[j]) \/ IsAssistant(y[j]))

\* How far the calls that join an item go is told by the item, the calls and what
\* comes after them.
LEMMA AfterSame ==
  ASSUME NEW x, Len(x) \in Nat, NEW y, Len(y) \in Nat, NEW i \in 1..Len(x), NEW j \in 1..Len(y),
         NEW e \in Nat, GoesOn(x, i, e), j + e <= Len(y) + 1, Alike(x, i, y, j, e), StopsAt(y, j, e)
  PROVE  GoesOn(y, j, e)
<1>. SUFFICES After(y, j) = j + e
  BY DEF GoesOn
<1>. After(x, i) = i + e
  BY DEF GoesOn
<1>1. e # 0 /\ i + e \in (i + 1)..(Len(x) + 1)
  BY AfterRange
<1>2. x[i] = y[j]
  <2>1. 0 \in 0..(e - 1) /\ i + 0 = i /\ j + 0 = j
    BY <1>1
  <2>. QED BY <2>1 DEF Alike
<1>3. CASE ~(IsToolCallItem(y[j]) \/ IsAssistant(y[j]))
  <2>1. After(x, i) = i + 1 /\ After(y, j) = j + 1
    BY <1>2, <1>3 DEF After
  <2>2. e = 1
    BY <2>1
  <2>. QED BY <2>1, <2>2
<1>4. CASE IsToolCallItem(y[j]) \/ IsAssistant(y[j])
  <2>1. After(x, i) = AfterCalls(x, i) /\ After(y, j) = AfterCalls(y, j)
    BY <1>2, <1>4 DEF After
  <2>2. \A k \in Ends(x, i) : i + e <= k
    BY <2>1, AfterCallsIsLeast
  <2>3. j + e \in Ends(y, j)
    <3>1. j + e \in (j + 1)..(Len(y) + 1)
      BY <1>1
    <3>. QED BY <1>4, <3>1 DEF Ends, StopsAt
  <2>4. ASSUME NEW w \in Ends(y, j), w < j + e PROVE FALSE
    <3>1. w \in (j + 1)..(Len(y) + 1) /\ (w = Len(y) + 1 \/ ~Joins(y[j], y[w]))
      BY DEF Ends
    <3>. DEFINE k == w - j
    <3>2. k \in 0..(e - 1) /\ w = j + k /\ i + k \in (i + 1)..(Len(x) + 1) /\ i + k < i + e /\ i + k \in Int
      BY <1>1, <2>4, <3>1
    <3>3. w # Len(y) + 1
      BY <2>4, <3>1
    <3>4. ~Joins(x[i], x[i + k])
      <4>1. x[i + k] = y[j + k]
        BY <3>2 DEF Alike
      <4>. QED BY <1>2, <3>1, <3>2, <3>3, <4>1
    <3>5. i + k \in Ends(x, i)
      BY <3>2, <3>4 DEF Ends
    <3>6. i + e <= i + k
      BY <2>2, <3>5
    <3>. QED BY <3>2, <3>6
  <2>5. AfterCalls(y, j) \in Ends(y, j) /\ AfterCalls(y, j) <= j + e
    BY <2>3, AfterCallsIsLeast
  <2>6. AfterCalls(y, j) \in Int
    BY <2>5 DEF Ends
  <2>7. ~(AfterCalls(y, j) < j + e)
    BY <2>4, <2>5
  <2>. QED BY <2>1, <2>5, <2>6, <2>7
<1>. QED BY <1>3, <1>4

\* The message of a call.
LEMMA CallMessage ==
  ASSUME NEW list, NEW i, IsToolCallItem(list[i])
  PROVE  MessageAt(list, i) =
           <<AssistantToolCallMessage(<<list[i]>> \o SubSeq(list, i + 1, After(list, i) - 1), <<>>, <<>>)>>
BY Zenon DEF MessageAt, IsToolCallItem

\* An item becomes one message or none.
MessagesOf(list) == { MessageAt(list, i)[1] : i \in 1..Len(list) }

LEMMA MessageIsOne ==
  ASSUME NEW list, NEW i \in 1..Len(list)
  PROVE  MessageAt(list, i) \in Seq(MessagesOf(list))
<1>1. MessageAt(list, i) = <<>> \/ \E m : MessageAt(list, i) = <<m>>
  <2>1. CASE IsToolCallItem(list[i])
    BY <2>1, CallMessage
  <2>2. CASE ~IsToolCallItem(list[i])
    BY <2>2 DEF MessageAt
  <2>. QED BY <2>1, <2>2
<1>2. MessageAt(list, i)[1] \in MessagesOf(list)
  BY DEF MessagesOf
<1>3. ASSUME NEW T, NEW m \in T PROVE <<m>> \in Seq(T) /\ <<>> \in Seq(T)
  OBVIOUS
<1>4. \A m : <<m>>[1] = m
  OBVIOUS
<1>. QED BY <1>1, <1>2, <1>3, <1>4

\* The item at place i of a takes no item of b with it.
KeepsTo(a, b, i) ==
  ~ /\ b # <<>>
    /\ IsToolCallItem(a[i]) \/ IsAssistant(a[i])
    /\ After(a, i) = Len(a) + 1
    /\ Joins(a[i], b[1])

\* Before the end of the first of two lists, reading goes as in the first.
LEMMA HeadReads ==
  ASSUME NEW S, NEW a \in Seq(S), NEW b \in Seq(S), NEW i \in 1..Len(a), KeepsTo(a, b, i)
  PROVE  After(a \o b, i) = After(a, i) /\ MessageAt(a \o b, i) = MessageAt(a, i)
<1>. DEFINE c == a \o b
            e == After(a, i) - i
<1>1. c \in Seq(S) /\ Len(c) = Len(a) + Len(b) /\ Len(a) \in Nat /\ Len(b) \in Nat
  OBVIOUS
<1>2. \A k \in 1..Len(a) : c[k] = a[k]
  OBVIOUS
<1>3. b # <<>> => c[Len(a) + 1] = b[1] /\ Len(b) # 0
  OBVIOUS
<1>4. b = <<>> => Len(b) = 0
  OBVIOUS
<1>. HIDE DEF c
<1>5. After(a, i) \in (i + 1)..(Len(a) + 1)
  BY <1>1, AfterRange
<1>6. e \in Nat /\ e # 0 /\ After(a, i) = i + e /\ i + e <= Len(a) + 1 /\ i + e <= Len(c) + 1 /\ i \in 1..Len(c)
  BY <1>1, <1>5
<1>. HIDE DEF e
<1>7. \A k \in 0..(e - 1) : a[i + k] = c[i + k]
  <2>1. \A k \in 0..(e - 1) : i + k \in 1..Len(a)
    BY <1>1, <1>6
  <2>. QED BY <1>2, <2>1
<1>8. Alike(a, i, c, i, e)
  BY <1>7 DEF Alike
<1>9. c[i] = a[i]
  BY <1>2
<1>10. i + e = Len(c) + 1 \/ ~Joins(c[i], c[i + e]) \/ ~(IsToolCallItem(c[i]) \/ IsAssistant(c[i]))
  <2>. SUFFICES ASSUME IsToolCallItem(c[i]) \/ IsAssistant(c[i]), i + e # Len(c) + 1
                PROVE  ~Joins(c[i], c[i + e])
    OBVIOUS
  <2>1. CASE i + e = Len(a) + 1
    <3>1. b # <<>>
      BY <1>1, <1>4, <2>1
    <3>. QED BY <1>3, <1>6, <1>9, <2>1, <3>1 DEF KeepsTo
  <2>2. CASE i + e # Len(a) + 1
    <3>1. After(a, i) = AfterCalls(a, i)
      BY <1>9 DEF After
    <3>2. i + e \in Ends(a, i)
      BY <1>1, <1>6, <3>1, AfterCallsIsLeast
    <3>3. i + e \in (i + 1)..(Len(a) + 1) /\ ~Joins(a[i], a[i + e])
      BY <2>2, <3>2, Zenon DEF Ends
    <3>4. i + e \in 1..Len(a)
      <4>1. i \in Int /\ e \in Int /\ Len(a) \in Int
        BY <1>1, <1>6
      <4>2. i >= 1 /\ i + e >= i + 1 /\ i + e <= Len(a) + 1
        BY <3>3, <4>1
      <4>. QED BY <2>2, <4>1, <4>2
    <3>5. ~Joins(a[i], a[i + e]) /\ i + e \in 1..Len(a)
      BY <3>3, <3>4
    <3>. QED BY <1>2, <1>9, <3>5
  <2>. QED BY <2>1, <2>2
<1>11. StopsAt(c, i, e)
  BY <1>10 DEF StopsAt
<1>12. After(c, i) = i + e
  <2>1. GoesOn(a, i, e)
    BY <1>6 DEF GoesOn
  <2>2. GoesOn(c, i, e)
    BY <1>1, <1>6, <1>8, <1>11, <2>1, AfterSame
  <2>. QED BY <2>2 DEF GoesOn
<1>13. MessageAt(a, i) = MessageAt(c, i)
  BY <1>1, <1>6, <1>8, <1>12, MessageOfSame
<1>. QED BY <1>6, <1>12, <1>13 DEF c

\* And after it as in the second.
LEMMA TailReads ==
  ASSUME NEW S, NEW a \in Seq(S), NEW b \in Seq(S), NEW j \in 1..Len(b)
  PROVE  /\ After(a \o b, Len(a) + j) = Len(a) + After(b, j)
         /\ MessageAt(a \o b, Len(a) + j) = MessageAt(b, j)
<1>. DEFINE c == a \o b
            n == Len(a)
            e == After(b, j) - j
<1>1. c \in Seq(S) /\ Len(c) = n + Len(b) /\ n \in Nat /\ Len(b) \in Nat
  OBVIOUS
<1>2. \A k \in 1..Len(b) : c[n + k] = b[k]
  OBVIOUS
<1>. HIDE DEF c, n
<1>3. After(b, j) \in (j + 1)..(Len(b) + 1)
  BY <1>1, AfterRange
<1>4. /\ e \in Nat /\ e # 0 /\ After(b, j) = j + e /\ j + e <= Len(b) + 1
      /\ (n + j) + e <= Len(c) + 1 /\ n + j \in 1..Len(c) /\ (n + j) + e = n + (j + e)
  BY <1>1, <1>3
<1>. HIDE DEF e
<1>5. \A k \in 0..(e - 1) : b[j + k] = c[(n + j) + k]
  <2>1. \A k \in 0..(e - 1) : j + k \in 1..Len(b) /\ (n + j) + k = n + (j + k)
    BY <1>1, <1>4
  <2>. QED BY <1>2, <2>1
<1>6. Alike(b, j, c, n + j, e)
  BY <1>5 DEF Alike
<1>7. c[n + j] = b[j]
  BY <1>2
<1>8. \/ (n + j) + e = Len(c) + 1 \/ ~Joins(c[n + j], c[(n + j) + e])
      \/ ~(IsToolCallItem(c[n + j]) \/ IsAssistant(c[n + j]))
  <2>. SUFFICES ASSUME IsToolCallItem(b[j]) \/ IsAssistant(b[j]), j + e # Len(b) + 1
                PROVE  ~Joins(b[j], c[n + (j + e)])
    <3>1. (n + j) + e = n + (j + e)
      BY <1>4
    <3>2. ASSUME j + e = Len(b) + 1 PROVE (n + j) + e = Len(c) + 1
      <4>1. n + (Len(b) + 1) = Len(c) + 1
        BY <1>1
      <4>. QED BY <3>1, <3>2, <4>1
    <3>. QED BY <1>7, <3>1, <3>2
  <2>1. After(b, j) = AfterCalls(b, j)
    BY DEF After
  <2>2. j + e \in Ends(b, j)
    BY <1>1, <1>4, <2>1, AfterCallsIsLeast
  <2>3. ~Joins(b[j], b[j + e]) /\ j + e \in 1..Len(b)
    BY <1>1, <2>2 DEF Ends
  <2>. QED BY <1>2, <2>3
<1>9. StopsAt(c, n + j, e)
  BY <1>8 DEF StopsAt
<1>10. After(c, n + j) = (n + j) + e
  <2>1. GoesOn(b, j, e)
    BY <1>4 DEF GoesOn
  <2>2. Len(c) \in Nat
    BY <1>1
  <2>3. GoesOn(c, n + j, e)
    BY <1>1, <1>4, <1>6, <1>9, <2>1, <2>2, AfterSame
  <2>. QED BY <2>3 DEF GoesOn
<1>11. MessageAt(b, j) = MessageAt(c, n + j)
  BY <1>1, <1>4, <1>6, <1>10, MessageOfSame
<1>. QED BY <1>4, <1>10, <1>11 DEF c, n

\* Sequences put end to end, as a rule to cite.
LEMMA ConcatType ==
  ASSUME NEW T, NEW x \in Seq(T), NEW y \in Seq(T) PROVE x \o y \in Seq(T)
OBVIOUS

LEMMA ConcatAgain ==
  ASSUME NEW T, NEW x \in Seq(T), NEW y \in Seq(T), NEW z \in Seq(T)
  PROVE  (x \o y) \o z = x \o (y \o z)
OBVIOUS

\* The equation as an operator, which the provers cite as one fact.
Regroups(x, y, z) == x \o (y \o z) = (x \o y) \o z

LEMMA ConcatRegroups ==
  ASSUME NEW T, NEW x \in Seq(T), NEW y \in Seq(T), NEW z \in Seq(T)
  PROVE  Regroups(x, y, z)
BY ConcatAgain DEF Regroups

\* What is read from a place on are messages.
LEMMA ReadsMessages ==
  ASSUME NEW list, Len(list) \in Nat, NEW f, ReadsFrom(f, list, 1), NEW i \in 1..(Len(list) + 1)
  PROVE  f[i] \in Seq(MessagesOf(list))
<1>. DEFINE L == Len(list)
            T == MessagesOf(list)
            Bad == { d \in 0..L : f[L + 1 - d] \notin Seq(T) }
<1>1. ASSUME Bad # {} PROVE FALSE
  <2>1. Bad \subseteq Nat
    OBVIOUS
  <2>2. PICK d \in Bad : \A k \in Bad : d <= k
    BY <1>1, <2>1, SmallestOf
  <2>. DEFINE p == L + 1 - d
  <2>3. d \in 0..L /\ f[p] \notin Seq(T) /\ p \in 1..(L + 1)
    BY <2>2
  <2>4. f[p] = IF p > L THEN <<>> ELSE MessageAt(list, p) \o f[After(list, p)]
    BY <2>3, ReadsAt, 1 \in 1..(L + 1)
  <2>5. CASE p > L
    <3>1. <<>> \in Seq(T)
      OBVIOUS
    <3>. QED BY <2>3, <2>4, <2>5, <3>1
  <2>6. CASE ~(p > L)
    <3>. DEFINE q == After(list, p)
    <3>1. p \in 1..L
      BY <2>3, <2>6
    <3>2. q \in (p + 1)..(L + 1)
      BY <3>1, AfterRange
    <3>3. L + 1 - q \in 0..L /\ ~(d <= L + 1 - q) /\ L + 1 - (L + 1 - q) = q
      BY <2>3, <3>1, <3>2
    <3>. HIDE DEF q
    <3>4. L + 1 - q \notin Bad
      BY <2>2, <3>3
    <3>5. f[q] \in Seq(T)
      BY <3>3, <3>4
    <3>6. MessageAt(list, p) \in Seq(T)
      BY <3>1, MessageIsOne
    <3>7. MessageAt(list, p) \o f[q] \in Seq(T)
      <4>. HIDE DEF T, p
      <4>. QED BY <3>5, <3>6, ConcatType
    <3>. QED BY <2>3, <2>4, <2>6, <3>7 DEF q
  <2>. QED BY <2>5, <2>6
<1>2. L + 1 - i \in 0..L /\ L + 1 - (L + 1 - i) = i
  OBVIOUS
<1>3. L + 1 - i \notin Bad
  BY <1>1
<1>. QED BY <1>2, <1>3

\* A list of items becomes messages of its items.
LEMMA SpeaksMessages ==
  ASSUME NEW list, Len(list) \in Nat
  PROVE  InputItemsToChatMessages(list) \in Seq(MessagesOf(list))
<1>1. PICK f : ReadsFrom(f, list, 1) /\ InputItemsToChatMessages(list) = f[1]
  BY ReadFromTheStart
<1>2. f[1] \in Seq(MessagesOf(list))
  BY <1>1, ReadsMessages, 1 \in 1..(Len(list) + 1)
<1>. QED BY <1>1, <1>2

\* Put end to end, two lists make the messages that each makes.
LEMMA MessagesOfHead ==
  ASSUME NEW S, NEW a \in Seq(S), NEW b \in Seq(S), \A i \in 1..Len(a) : KeepsTo(a, b, i)
  PROVE  MessagesOf(a) \subseteq MessagesOf(a \o b) /\ MessagesOf(b) \subseteq MessagesOf(a \o b)
<1>1. Len(a \o b) = Len(a) + Len(b) /\ Len(a) \in Nat /\ Len(b) \in Nat
  OBVIOUS
<1>2. ASSUME NEW i \in 1..Len(a) PROVE MessageAt(a, i)[1] \in MessagesOf(a \o b)
  <2>1. MessageAt(a \o b, i) = MessageAt(a, i)
    BY HeadReads
  <2>2. i \in 1..Len(a \o b)
    BY <1>1
  <2>. QED BY <2>1, <2>2 DEF MessagesOf
<1>3. ASSUME NEW i \in 1..Len(b) PROVE MessageAt(b, i)[1] \in MessagesOf(a \o b)
  <2>1. MessageAt(a \o b, Len(a) + i) = MessageAt(b, i)
    BY TailReads
  <2>2. Len(a) + i \in 1..Len(a \o b)
    BY <1>1
  <2>. QED BY <2>1, <2>2 DEF MessagesOf
<1>. QED BY <1>2, <1>3 DEF MessagesOf

\* A list is read one part after the other, if no item of the first takes a call
\* of the second.
LEMMA ReadingSplits ==
  ASSUME NEW S, NEW a \in Seq(S), NEW b \in Seq(S), \A i \in 1..Len(a) : KeepsTo(a, b, i)
  PROVE  InputItemsToChatMessages(a \o b) =
           InputItemsToChatMessages(a) \o InputItemsToChatMessages(b)
<1>. DEFINE c == a \o b
            n == Len(a)
            m == Len(b)
            T == MessagesOf(c)
<1>1. n \in Nat /\ m \in Nat /\ Len(c) = n + m /\ Len(c) \in Nat
  OBVIOUS
<1>2. MessagesOf(a) \subseteq T /\ MessagesOf(b) \subseteq T
  BY MessagesOfHead
<1>3. \A i \in 1..n : After(c, i) = After(a, i) /\ MessageAt(c, i) = MessageAt(a, i)
  BY HeadReads
<1>4. \A j \in 1..m : After(c, n + j) = n + After(b, j) /\ MessageAt(c, n + j) = MessageAt(b, j)
  BY TailReads
<1>. HIDE DEF c
<1>5. PICK f : ReadsFrom(f, a, 1) /\ InputItemsToChatMessages(a) = f[1]
  BY <1>1, ReadFromTheStart
<1>6. PICK g : ReadsFrom(g, b, 1) /\ InputItemsToChatMessages(b) = g[1]
  BY <1>1, ReadFromTheStart
<1>7. PICK h : ReadsFrom(h, c, 1) /\ InputItemsToChatMessages(c) = h[1]
  BY <1>1, ReadFromTheStart
<1>8. \A i \in 1..n : \A q : q = MessageAt(a, i) => q \in Seq(T)
  <2>1. \A i \in 1..n : MessageAt(c, i) \in Seq(T)
    BY <1>1, MessageIsOne
  <2>. QED BY <1>3, <2>1
<1>9. \A i \in 1..(n + 1) : f[i] \in Seq(T)
  <2>1. ASSUME NEW i \in 1..(n + 1) PROVE f[i] \in Seq(T)
    <3>1. f[i] \in Seq(MessagesOf(a))
      BY <1>1, <1>5, ReadsMessages
    <3>. QED BY <1>2, <3>1, SeqMonotonic
  <2>. QED BY <2>1
<1>10. \A j \in 1..(m + 1) : g[j] \in Seq(T)
  <2>1. ASSUME NEW i \in 1..(m + 1) PROVE g[i] \in Seq(T)
    <3>1. g[i] \in Seq(MessagesOf(b))
      BY <1>1, <1>6, ReadsMessages
    <3>. QED BY <1>2, <3>1, SeqMonotonic
  <2>. QED BY <2>1
<1>11. \A j \in 1..(m + 1) : h[n + j] = g[j]
  <2>. DEFINE Bad == { d \in 0..m : h[n + (m + 1 - d)] # g[m + 1 - d] }
  <2>1. ASSUME Bad # {} PROVE FALSE
    <3>1. Bad \subseteq Nat
      OBVIOUS
    <3>2. PICK d \in Bad : \A k \in Bad : d <= k
      BY <2>1, <3>1, SmallestOf
    <3>. DEFINE p == m + 1 - d
    <3>3. d \in 0..m /\ h[n + p] # g[p] /\ p \in 1..(m + 1) /\ n + p \in 1..(Len(c) + 1)
          /\ (n + p > Len(c) <=> p > m)
      BY <1>1, <3>2
    <3>4. g[p] = IF p > m THEN <<>> ELSE MessageAt(b, p) \o g[After(b, p)]
      BY <1>1, <1>6, <3>3, ReadsAt, 1 \in 1..(m + 1)
    <3>5. h[n + p] = IF n + p > Len(c) THEN <<>> ELSE MessageAt(c, n + p) \o h[After(c, n + p)]
      <4>1. 1 \in 1..(Len(c) + 1)
        BY <1>1
      <4>. QED BY <1>1, <1>7, <3>3, <4>1, ReadsAt
    <3>6. p \in 1..m
      BY <3>3, <3>4, <3>5
    <3>. DEFINE q == After(b, p)
    <3>7. q \in (p + 1)..(m + 1)
      BY <1>1, <3>6, AfterRange
    <3>8. m + 1 - q \in 0..m /\ ~(d <= m + 1 - q) /\ m + 1 - (m + 1 - q) = q
      BY <1>1, <3>3, <3>6, <3>7
    <3>9. After(c, n + p) = n + q /\ MessageAt(c, n + p) = MessageAt(b, p)
      BY <1>4, <3>6
    <3>. HIDE DEF q
    <3>10. m + 1 - q \notin Bad
      BY <3>2, <3>8
    <3>11. h[n + q] = g[q]
      BY <3>8, <3>10
    <3>12. ~(p > m)
      BY <1>1, <3>6
    <3>. HIDE DEF p, Bad
    <3>. QED BY <3>3, <3>4, <3>5, <3>9, <3>11, <3>12 DEF q
  <2>2. ASSUME NEW j \in 1..(m + 1) PROVE h[n + j] = g[j]
    <3>1. m + 1 - j \in 0..m /\ m + 1 - (m + 1 - j) = j
      BY <1>1
    <3>2. m + 1 - j \notin Bad
      BY <2>1
    <3>. QED BY <3>1, <3>2
  <2>. QED BY <2>2
<1>12. ASSUME NEW i \in 1..(n + 1) PROVE h[i] = f[i] \o g[1]
  <2>. DEFINE Same(k) == h[n + 1 - k] = f[n + 1 - k] \o g[1]
              Bad == { d \in 0..n : ~Same(d) }
  <2>1. g[1] \in Seq(T)
    BY <1>1, <1>10, 1 \in 1..(m + 1)
  <2>2. ASSUME Bad # {} PROVE FALSE
    <3>1. Bad \subseteq Nat
      <4>. HIDE DEF Same
      <4>. QED OBVIOUS
    <3>2. PICK d \in Bad : \A k \in Bad : d <= k
      BY <2>2, <3>1, SmallestOf
    <3>. DEFINE p == n + 1 - d
    <3>3. d \in 0..n /\ ~Same(d)
      <4>. HIDE DEF Same
      <4>. QED BY <3>2
    <3>4. p \in 1..(n + 1) /\ p \in 1..(Len(c) + 1)
      BY <1>1, <3>3
    <3>5. d \in 0..n /\ h[p] # f[p] \o g[1] /\ p \in 1..(n + 1) /\ p \in 1..(Len(c) + 1)
      BY <3>3, <3>4
    <3>6. f[p] = IF p > n THEN <<>> ELSE MessageAt(a, p) \o f[After(a, p)]
      BY <1>1, <1>5, <3>5, ReadsAt, 1 \in 1..(n + 1)
    <3>7. CASE p = n + 1
      <4>1. f[p] = <<>>
        BY <1>1, <3>6, <3>7
      <4>2. <<>> \o g[1] = g[1]
        BY <2>1
      <4>3. h[n + 1] = g[1]
        BY <1>1, <1>11, 1 \in 1..(m + 1)
      <4>. QED BY <3>5, <3>7, <4>1, <4>2, <4>3
    <3>8. CASE p # n + 1
      <4>. DEFINE q == After(a, p)
      <4>1. p \in 1..n /\ ~(p > n) /\ ~(p > Len(c))
        BY <1>1, <3>5, <3>8
      <4>2. q \in (p + 1)..(n + 1)
        BY <1>1, <4>1, AfterRange
      <4>3. n + 1 - q \in 0..n /\ ~(d <= n + 1 - q) /\ n + 1 - (n + 1 - q) = q /\ q \in 1..(n + 1)
        BY <1>1, <3>5, <4>1, <4>2
      <4>4. After(c, p) = q /\ MessageAt(c, p) = MessageAt(a, p)
        BY <1>3, <4>1
      <4>5. MessageAt(a, p) \in Seq(T)
        BY <1>8, <4>1
      <4>. HIDE DEF q
      <4>6. Same(n + 1 - q)
        <5>. HIDE DEF Same
        <5>. QED BY <3>2, <4>3
      <4>7. h[q] = f[q] \o g[1]
        BY <4>3, <4>6
      <4>8. h[p] = MessageAt(a, p) \o h[q]
        <5>1. h[p] = IF p > Len(c) THEN <<>> ELSE MessageAt(c, p) \o h[After(c, p)]
          <6>1. 1 \in 1..(Len(c) + 1)
            BY <1>1
          <6>. QED BY <1>1, <1>7, <3>5, <6>1, ReadsAt
        <5>. HIDE DEF p
        <5>. QED BY <4>1, <4>4, <5>1
      <4>9. f[p] = MessageAt(a, p) \o f[q]
        BY <3>6, <4>1 DEF q
      <4>10. f[q] \in Seq(T)
        BY <1>9, <4>3
      <4>. HIDE DEF p, T, Bad
      <4>11. MessageAt(a, p) \o (f[q] \o g[1]) = (MessageAt(a, p) \o f[q]) \o g[1]
        <5>1. Regroups(MessageAt(a, p), f[q], g[1])
          BY <2>1, <4>5, <4>10, ConcatRegroups
        <5>. QED BY <5>1 DEF Regroups
      <4>. QED BY <3>5, <4>7, <4>8, <4>9, <4>11
    <3>. QED BY <3>7, <3>8
  <2>3. n + 1 - i \in 0..n /\ n + 1 - (n + 1 - i) = i
    BY <1>1
  <2>4. Same(n + 1 - i)
    <3>. HIDE DEF Same
    <3>. QED BY <2>2, <2>3
  <2>. QED BY <2>3, <2>4
<1>13. h[1] = f[1] \o g[1]
  BY <1>1, <1>12, 1 \in 1..(n + 1)
<1>. QED BY <1>5, <1>6, <1>7, <1>13 DEF c

-----------------------------------------------------------------------------
(* The items of one answer.                                                *)

\* The items of an answer, with the private fields as they are stored or as a
\* client is shown them.
TurnOf(answer, reasoning, turn, textFirst) ==
  LET thought == OfText(answer.reasoning, Reasoning(answer.reasoning))
      message == OfText(answer.content, Message("assistant", answer.content, reasoning, turn))
  IN  (IF textFirst THEN message \o thought ELSE thought \o message)
        \o CallItems(answer.calls, reasoning, turn)

\* The message they should become.
SpokenWith(answer, reasoning) ==
  IF answer.content = <<>> /\ answer.calls = <<>> THEN <<>>
  ELSE <<Said("assistant", answer.content, reasoning, RepeatedCalls(answer.calls))>>

\* A call has an id and arguments, and nothing else.
IsCall(c) == c = WithArguments(c, c.arguments)
AllCalls(C) == \A c \in C : IsCall(c)

\* The item of a call becomes the call that may be repeated: an item of a custom
\* tool holds the input, which is put back into an object.
LEMMA CallComesBack ==
  ASSUME NEW c, IsCall(c), NEW reasoning, NEW turn
  PROVE  FunctionCallToToolCall(CallItem(c, reasoning, turn)) = Repeated(c)
<1>. DEFINE item == CallItem(c, reasoning, turn)
            input == Input(c.arguments)
<1>1. CASE IsCustom(c)
  <2>1. item.type = "custom_tool_call" /\ item.call = WithArguments(c, input)
    BY <1>1 DEF CallItem
  <2>2. WithArguments(c, input).arguments = input /\ WithArguments(c, input).id = c.id
    BY DEF WithArguments
  <2>3. WithArguments(WithArguments(c, input), AsInput(input)) = WithArguments(c, AsInput(input))
    BY <2>2 DEF WithArguments
  <2>4. FunctionCallToToolCall(item) = WithArguments(c, AsInput(input))
    <3>. HIDE DEF item, input
    <3>. QED BY <2>1, <2>2, <2>3 DEF FunctionCallToToolCall
  <2>5. CASE KeepsToSchema(c)
    <3>1. c.arguments = AsInput(input)
      BY <2>5 DEF KeepsToSchema
    <3>2. WithArguments(c, AsInput(input)) = c
      <4>. HIDE DEF input
      <4>. QED BY <3>1 DEF IsCall
    <3>. QED BY <2>4, <2>5, <3>2 DEF Repeated
  <2>6. CASE ~KeepsToSchema(c)
    BY <1>1, <2>4, <2>6 DEF Repeated
  <2>. QED BY <2>5, <2>6
<1>2. CASE ~IsCustom(c)
  <2>1. item.type = "function_call" /\ item.call = c
    BY <1>2 DEF CallItem
  <2>. QED BY <1>2, <2>1 DEF FunctionCallToToolCall, Repeated
<1>. QED BY <1>1, <1>2

\* The reasoning that rides on the first call is the first that is found.
LEMMA FirstTextOfCalls ==
  ASSUME NEW reasoning, NEW texts, NEW n \in Nat \ {0}, DOMAIN texts = 1..n,
         texts[1] = reasoning, \A k \in 2..n : texts[k] = <<>> \/ texts[k] = reasoning
  PROVE  FirstText(texts) = reasoning
<1>. DEFINE there == { k \in DOMAIN texts : texts[k] # <<>> }
            k == CHOOSE x \in there : \A y \in there : x <= y
<1>1. \A x \in 1..n : texts[x] = <<>> \/ texts[x] = reasoning
  <2>1. \A x \in 1..n : x = 1 \/ x \in 2..n
    OBVIOUS
  <2>. QED BY <2>1
<1>2. CASE there = {}
  <2>1. 1 \in DOMAIN texts
    OBVIOUS
  <2>2. texts[1] = <<>>
    BY <1>2, <2>1
  <2>. QED BY <1>2, <2>2 DEF FirstText
<1>3. CASE there # {}
  <2>1. there \subseteq Nat
    OBVIOUS
  <2>. HIDE DEF there
  <2>2. \E x \in there : \A y \in there : x <= y
    BY <1>3, <2>1, SmallestOf
  <2>3. k \in there
    BY <2>2
  <2>. HIDE DEF k
  <2>4. texts[k] = reasoning
    BY <1>1, <2>3 DEF there
  <2>. QED BY <1>3, <2>4 DEF FirstText, there, k
<1>. QED BY <1>2, <1>3

\* Calls of one turn say their calls, with the reasoning the turn had.
LEMMA CallsSay ==
  ASSUME NEW C, NEW calls \in Seq(C), calls # <<>>, NEW reasoning, NEW turn, NEW content, NEW own,
         own = reasoning \/ own = <<>>, AllCalls(C)
  PROVE  AssistantToolCallMessage(CallItems(calls, reasoning, turn), content, own) =
           Said("assistant", content, reasoning, RepeatedCalls(calls))
<1>. DEFINE list == CallItems(calls, reasoning, turn)
            N == Len(calls)
            carried == [ n \in DOMAIN list |-> list[n].reasoning ]
            texts == <<own>> \o carried
<1>1. N \in Nat /\ N # 0 /\ DOMAIN calls = 1..N /\ calls = [ n \in 1..N |-> calls[n] ]
  OBVIOUS
<1>2. list = [ n \in 1..N |-> CallItem(calls[n], IF n = 1 THEN reasoning ELSE <<>>, turn) ]
  BY <1>1 DEF CallItems
<1>3. DOMAIN list = 1..N
  BY <1>2
<1>4. \A n \in 1..N : /\ FunctionCallToToolCall(list[n]) = Repeated(calls[n])
                      /\ list[n].reasoning = IF n = 1 THEN reasoning ELSE <<>>
  <2>1. \A n \in 1..N : IsCall(calls[n])
    BY DEF AllCalls
  <2>2. \A n \in 1..N : list[n] = CallItem(calls[n], IF n = 1 THEN reasoning ELSE <<>>, turn)
    BY <1>2
  <2>3. \A c, r, t : CallItem(c, r, t).reasoning = r
    BY DEF CallItem
  <2>. HIDE DEF list
  <2>. QED BY <2>1, <2>2, <2>3, CallComesBack
<1>. HIDE DEF list
<1>5. [ n \in DOMAIN list |-> FunctionCallToToolCall(list[n]) ] = RepeatedCalls(calls)
  BY <1>1, <1>3, <1>4 DEF RepeatedCalls
<1>6. carried = [ n \in 1..N |-> IF n = 1 THEN reasoning ELSE <<>> ]
  BY <1>3, <1>4
<1>7. carried \in Seq({reasoning, <<>>}) /\ Len(carried) = N /\ <<own>> \in Seq({reasoning, <<>>})
  <2>1. carried \in [1..N -> {reasoning, <<>>}]
    BY <1>6
  <2>. HIDE DEF carried, N
  <2>. QED BY <1>1, <2>1
<1>8. \A n \in 1..N : carried[n] = IF n = 1 THEN reasoning ELSE <<>>
  BY <1>6
<1>. HIDE DEF carried, N
<1>9. DOMAIN texts = 1..(N + 1) /\ texts[1] = own /\ \A n \in 1..N : texts[n + 1] = carried[n]
  BY <1>1, <1>7
<1>. HIDE DEF texts
<1>10. FirstText(texts) = reasoning
  <2>1. \A x \in 2..(N + 1) : texts[x] = IF x = 2 THEN reasoning ELSE <<>>
    <3>1. \A x \in 2..(N + 1) : x - 1 \in 1..N /\ (x - 1) + 1 = x
      BY <1>1
    <3>. QED BY <1>8, <1>9, <3>1
  <2>2. CASE own = reasoning
    <3>1. N + 1 \in Nat \ {0}
      BY <1>1
    <3>2. \A x \in 2..(N + 1) : texts[x] = <<>> \/ texts[x] = reasoning
      BY <2>1
    <3>. QED BY <1>9, <2>2, <3>1, <3>2, FirstTextOfCalls
  <2>3. CASE own # reasoning
    <3>. DEFINE there == { k \in DOMAIN texts : texts[k] # <<>> }
    <3>1. own = <<>> /\ reasoning # <<>> /\ texts[1] = <<>>
      BY <1>9, <2>3
    <3>2. \A x \in 1..(N + 1) : texts[x] # <<>> <=> x = 2
      <4>1. \A x \in 1..(N + 1) : x = 1 \/ x \in 2..(N + 1)
        BY <1>1
      <4>2. 2 \in 2..(N + 1)
        BY <1>1
      <4>. QED BY <2>1, <3>1, <4>1, <4>2
    <3>3. there = {2}
      <4>1. 2 \in 1..(N + 1)
        BY <1>1
      <4>. QED BY <1>9, <3>2, <4>1
    <3>4. (CHOOSE n \in {2} : \A k \in {2} : n <= k) = 2
      OBVIOUS
    <3>5. texts[2] = reasoning
      <4>1. 2 \in 2..(N + 1)
        BY <1>1
      <4>. QED BY <2>1, <4>1
    <3>. HIDE DEF there
    <3>6. FirstText(texts) = IF there = {} THEN <<>> ELSE texts[CHOOSE n \in there : \A k \in there : n <= k]
      BY DEF FirstText, there
    <3>. QED BY <3>3, <3>4, <3>5, <3>6
  <2>. QED BY <2>2, <2>3
<1>. QED BY <1>5, <1>10 DEF AssistantToolCallMessage, texts, carried, list

\* No items, no messages.
LEMMA NothingSays == InputItemsToChatMessages(<<>>) = <<>>
<1>1. Len(<<>>) = 0 /\ Len(<<>>) \in Nat
  OBVIOUS
<1>2. PICK f : ReadsFrom(f, <<>>, 1) /\ InputItemsToChatMessages(<<>>) = f[1]
  BY <1>1, ReadFromTheStart
<1>3. f[1] = IF 1 > Len(<<>>) THEN <<>> ELSE MessageAt(<<>>, 1) \o f[After(<<>>, 1)]
  <2>1. 1 \in 1..(Len(<<>>) + 1)
    BY <1>1
  <2>. QED BY <1>1, <1>2, <2>1, ReadsAt
<1>. QED BY <1>1, <1>2, <1>3

\* A list whose first item takes the others is one message.
LEMMA FirstSays ==
  ASSUME NEW list, Len(list) \in Nat, Len(list) # 0, After(list, 1) = Len(list) + 1
  PROVE  InputItemsToChatMessages(list) = MessageAt(list, 1)
<1>. DEFINE L == Len(list)
<1>1. PICK f : ReadsFrom(f, list, 1) /\ InputItemsToChatMessages(list) = f[1]
  BY ReadFromTheStart
<1>2. 1 \in 1..(L + 1) /\ L + 1 \in 1..(L + 1) /\ ~(1 > L) /\ L + 1 > L /\ 1 \in 1..L
  OBVIOUS
<1>3. f[1] = MessageAt(list, 1) \o f[L + 1]
  BY <1>1, <1>2, ReadsAt
<1>4. f[L + 1] = <<>>
  BY <1>1, <1>2, ReadsAt
<1>5. MessageAt(list, 1) \in Seq(MessagesOf(list))
  BY <1>2, MessageIsOne
<1>6. ASSUME NEW T, NEW s \in Seq(T) PROVE s \o <<>> = s
  OBVIOUS
<1>. QED BY <1>1, <1>3, <1>4, <1>5, <1>6

\* One item says its message.
LEMMA OneSays ==
  ASSUME NEW item PROVE InputItemsToChatMessages(<<item>>) = MessageAt(<<item>>, 1)
<1>1. Len(<<item>>) = 1 /\ 1 \in 1..1
  OBVIOUS
<1>2. After(<<item>>, 1) \in (1 + 1)..(1 + 1)
  BY <1>1, AfterRange
<1>3. After(<<item>>, 1) = 1 + 1
  BY <1>2
<1>. DEFINE list == <<item>>
<1>4. Len(list) \in Nat /\ Len(list) # 0 /\ After(list, 1) = Len(list) + 1
  BY <1>1, <1>3
<1>. HIDE DEF list
<1>5. InputItemsToChatMessages(list) = MessageAt(list, 1)
  BY <1>4, FirstSays
<1>. QED BY <1>5 DEF list

\* A list whose first item takes all others is one message.
LEMMA AllJoin ==
  ASSUME NEW list, Len(list) \in Nat, Len(list) # 0, IsToolCallItem(list[1]) \/ IsAssistant(list[1]),
         \A k \in 2..Len(list) : Joins(list[1], list[k])
  PROVE  After(list, 1) = Len(list) + 1
<1>1. 1 \in 1..Len(list)
  OBVIOUS
<1>2. AfterCalls(list, 1) \in Ends(list, 1)
  BY <1>1, AfterCallsIsLeast
<1>. DEFINE e == AfterCalls(list, 1)
<1>3. e \in (1 + 1)..(Len(list) + 1) /\ (e = Len(list) + 1 \/ ~Joins(list[1], list[e]))
  BY <1>2 DEF Ends
<1>. HIDE DEF e
<1>4. e = Len(list) + 1 \/ e \in 2..Len(list)
  BY <1>3
<1>. QED BY <1>3, <1>4 DEF After, e

\* Calls of one turn join each other, and the message of their turn.
LEMMA TurnJoins ==
  ASSUME NEW C, NEW calls \in Seq(C), NEW reasoning, NEW turn, NEW content,
         NEW n \in 1..Len(calls)
  PROVE  LET item == CallItems(calls, reasoning, turn)[n] IN
         /\ IsToolCallItem(item)
         /\ Joins(Message("assistant", content, reasoning, turn), item)
         /\ \A k \in 1..Len(calls) : Joins(item, CallItems(calls, reasoning, turn)[k])
<1>. DEFINE list == CallItems(calls, reasoning, turn)
<1>1. \A k \in 1..Len(calls) : IsToolCallItem(list[k]) /\ list[k].turn = turn
  BY DEF CallItems, CallItem, IsToolCallItem
<1>2. Message("assistant", content, reasoning, turn).turn = turn
  BY DEF Message
<1>. HIDE DEF list
<1>. QED BY <1>1, <1>2 DEF IsToolCallItem, Joins, list

\* The items of calls, one by one.
LEMMA CallItemsType ==
  ASSUME NEW C, NEW calls \in Seq(C), NEW reasoning, NEW turn
  PROVE  /\ CallItems(calls, reasoning, turn) \in Seq({ CallItem(c, r, turn) : c \in C, r \in {reasoning, <<>>} })
         /\ Len(CallItems(calls, reasoning, turn)) = Len(calls)
<1>. DEFINE S == { CallItem(c, r, turn) : c \in C, r \in {reasoning, <<>>} }
            e(n) == CallItem(calls[n], IF n = 1 THEN reasoning ELSE <<>>, turn)
<1>1. Len(calls) \in Nat /\ DOMAIN calls = 1..Len(calls)
  OBVIOUS
<1>2. CallItems(calls, reasoning, turn) = [ n \in 1..Len(calls) |-> e(n) ]
  BY <1>1 DEF CallItems
<1>3. \A n \in 1..Len(calls) : e(n) \in S
  <2>1. \A n \in 1..Len(calls) : calls[n] \in C
    OBVIOUS
  <2>. QED BY <2>1
<1>. HIDE DEF S, e
<1>4. [ n \in 1..Len(calls) |-> e(n) ] \in [1..Len(calls) -> S]
  BY <1>3
<1>. QED BY <1>1, <1>2, <1>4 DEF S

\* Calls alone are one message.
LEMMA CallItemsSay ==
  ASSUME NEW C, NEW calls \in Seq(C), calls # <<>>, NEW reasoning, NEW turn,
         AllCalls(C)
  PROVE  InputItemsToChatMessages(CallItems(calls, reasoning, turn)) =
           <<Said("assistant", <<>>, reasoning, RepeatedCalls(calls))>>
<1>. DEFINE list == CallItems(calls, reasoning, turn)
            S == { CallItem(c, r, turn) : c \in C, r \in {reasoning, <<>>} }
            L == Len(list)
<1>1. list \in Seq(S) /\ L = Len(calls)
  BY CallItemsType
<1>2. L \in Nat /\ L # 0 /\ 1 \in 1..L
  <2>1. Len(calls) \in Nat /\ Len(calls) # 0
    OBVIOUS
  <2>. QED BY <1>1, <2>1
<1>3. IsToolCallItem(list[1]) /\ \A k \in 2..L : Joins(list[1], list[k])
  <2>1. \A k \in 2..L : k \in 1..L
    OBVIOUS
  <2>. QED BY <1>1, <1>2, <2>1, TurnJoins
<1>5. AssistantToolCallMessage(list, <<>>, <<>>) =
        Said("assistant", <<>>, reasoning, RepeatedCalls(calls))
  BY CallsSay
<1>. HIDE DEF list, S
<1>6. After(list, 1) = L + 1
  BY <1>2, <1>3, AllJoin
<1>7. <<list[1]>> \o SubSeq(list, 1 + 1, (L + 1) - 1) = list
  BY <1>1, <1>2
<1>. HIDE DEF L
<1>8. MessageAt(list, 1) = <<Said("assistant", <<>>, reasoning, RepeatedCalls(calls))>>
  <2>1. MessageAt(list, 1) =
          <<AssistantToolCallMessage(<<list[1]>> \o SubSeq(list, 1 + 1, (L + 1) - 1), <<>>, <<>>)>>
    BY <1>3, <1>6, CallMessage
  <2>. QED BY <1>7, <2>1, <1>5
<1>. QED BY <1>2, <1>6, <1>8, FirstSays DEF L, list

\* A message with the calls of its turn is one message.
LEMMA MessageAndCallsSay ==
  ASSUME NEW C, NEW calls \in Seq(C), NEW reasoning, NEW turn, NEW content,
         AllCalls(C)
  PROVE  InputItemsToChatMessages(<<Message("assistant", content, reasoning, turn)>>
                                    \o CallItems(calls, reasoning, turn)) =
           <<Said("assistant", content, reasoning, RepeatedCalls(calls))>>
<1>. DEFINE message == Message("assistant", content, reasoning, turn)
            taken == CallItems(calls, reasoning, turn)
            S == { CallItem(c, r, turn) : c \in C, r \in {reasoning, <<>>} }
            U == S \cup {message}
            list == <<message>> \o taken
            L == Len(list)
<1>1. taken \in Seq(S) /\ Len(taken) = Len(calls) /\ Len(calls) \in Nat
  BY CallItemsType
<1>2. message.type = "message" /\ message.role = "assistant" /\ message.content = content
      /\ message.reasoning = reasoning
  BY DEF Message
<1>3. \A k \in 1..Len(calls) : Joins(message, taken[k])
  BY TurnJoins
<1>4. calls # <<>> => AssistantToolCallMessage(taken, content, reasoning) =
                        Said("assistant", content, reasoning, RepeatedCalls(calls))
  BY CallsSay
<1>. HIDE DEF message, S, taken
<1>5. taken \in Seq(U) /\ message \in U
  <2>1. S \subseteq U
    OBVIOUS
  <2>2. taken \in Seq(U)
    <3>. HIDE DEF U
    <3>. QED BY <1>1, <2>1, SeqMonotonic
  <2>. QED BY <2>2
<1>6. /\ list \in Seq(U) /\ L = Len(taken) + 1 /\ list[1] = message
      /\ \A k \in 2..L : list[k] = taken[k - 1]
      /\ SubSeq(list, 1 + 1, (L + 1) - 1) = taken
  <2>. HIDE DEF U
  <2>. QED BY <1>1, <1>5
<1>7. taken = <<>> <=> calls = <<>>
  <2>1. taken = <<>> <=> Len(taken) = 0
    BY <1>1
  <2>. QED BY <1>1, <2>1
<1>. HIDE DEF list
<1>8. L \in Nat /\ L # 0
  BY <1>1, <1>6
<1>9. \A k \in 2..L : Joins(list[1], list[k])
  <2>1. \A k \in 2..L : k - 1 \in 1..Len(calls)
    BY <1>1, <1>6
  <2>. QED BY <1>3, <1>6, <2>1
<1>10. IsAssistant(list[1]) /\ ~IsToolCallItem(list[1])
  BY <1>2, <1>6 DEF IsAssistant, IsToolCallItem
<1>11. After(list, 1) = L + 1
  BY <1>8, <1>9, <1>10, AllJoin
<1>. HIDE DEF L
<1>12. MessageAt(list, 1) = <<Said("assistant", content, reasoning, RepeatedCalls(calls))>>
  <2>1. MessageAt(list, 1) =
          <<IF taken = <<>> THEN Said("assistant", content, reasoning, <<>>)
            ELSE AssistantToolCallMessage(taken, content, reasoning)>>
    BY <1>2, <1>6, <1>10, <1>11 DEF MessageAt
  <2>2. RepeatedCalls(<<>>) = <<>>
    BY DEF RepeatedCalls
  <2>. QED BY <1>4, <1>7, <2>1, <2>2
<1>. QED BY <1>8, <1>11, <1>12, FirstSays DEF L, list, taken, message

\* The items there are in a turn.
TurnItem(answer, C, reasoning, turn) ==
  { CallItem(c, r, turn) : c \in C, r \in {reasoning, <<>>} }
    \cup { Reasoning(answer.reasoning), Message("assistant", answer.content, reasoning, turn) }

\* The items of an answer, one by one.
LEMMA TurnParts ==
  ASSUME NEW C, NEW answer, answer.calls \in Seq(C), NEW reasoning, NEW turn
  PROVE  /\ OfText(answer.reasoning, Reasoning(answer.reasoning)) \in Seq(TurnItem(answer, C, reasoning, turn))
         /\ OfText(answer.content, Message("assistant", answer.content, reasoning, turn))
              \in Seq(TurnItem(answer, C, reasoning, turn))
         /\ CallItems(answer.calls, reasoning, turn) \in Seq(TurnItem(answer, C, reasoning, turn))
<1>. DEFINE S == { CallItem(c, r, turn) : c \in C, r \in {reasoning, <<>>} }
            U == TurnItem(answer, C, reasoning, turn)
<1>1. CallItems(answer.calls, reasoning, turn) \in Seq(S)
  BY CallItemsType
<1>2. S \subseteq U /\ Reasoning(answer.reasoning) \in U
      /\ Message("assistant", answer.content, reasoning, turn) \in U
  BY DEF TurnItem
<1>3. ASSUME NEW A, NEW x \in A, NEW t PROVE OfText(t, x) \in Seq(A)
  BY DEF OfText
<1>. HIDE DEF U, S
<1>4. CallItems(answer.calls, reasoning, turn) \in Seq(U)
  BY <1>1, <1>2, SeqMonotonic
<1>. QED BY <1>2, <1>3, <1>4 DEF U

\* The items of an answer are items.
LEMMA TurnType ==
  ASSUME NEW C, NEW answer, answer.calls \in Seq(C), NEW reasoning, NEW turn, NEW textFirst \in BOOLEAN
  PROVE  TurnOf(answer, reasoning, turn, textFirst) \in Seq(TurnItem(answer, C, reasoning, turn))
BY TurnParts, ConcatType DEF TurnOf

\* What the rest says is said after the reasoning, which says nothing by itself.
LEMMA ThoughtSays ==
  ASSUME NEW S, NEW text, NEW t, OfText(t, Reasoning(text)) \in Seq(S), NEW rest \in Seq(S)
  PROVE  InputItemsToChatMessages(OfText(t, Reasoning(text)) \o rest) = InputItemsToChatMessages(rest)
<1>. DEFINE thought == OfText(t, Reasoning(text))
<1>1. CASE t = <<>>
  <2>1. thought \o rest = rest
    BY <1>1 DEF OfText
  <2>. QED BY <2>1
<1>2. CASE t # <<>>
  <2>1. thought = <<Reasoning(text)>> /\ Len(thought) = 1 /\ thought[1] = Reasoning(text)
    BY <1>2 DEF OfText
  <2>2. Reasoning(text).type = "reasoning"
    BY DEF Reasoning
  <2>. HIDE DEF thought
  <2>3. ~IsToolCallItem(thought[1]) /\ ~IsAssistant(thought[1])
    BY <2>1, <2>2 DEF IsToolCallItem, IsAssistant
  <2>4. \A i \in 1..Len(thought) : KeepsTo(thought, rest, i)
    <3>1. \A i \in 1..1 : i = 1
      OBVIOUS
    <3>. QED BY <2>1, <2>3, <3>1 DEF KeepsTo
  <2>5. InputItemsToChatMessages(thought \o rest) =
          InputItemsToChatMessages(thought) \o InputItemsToChatMessages(rest)
    <3>1. thought \in Seq(S)
      BY DEF thought
    <3>. QED BY <2>4, <3>1, ReadingSplits
  <2>6. InputItemsToChatMessages(thought) = <<>>
    <3>1. InputItemsToChatMessages(<<Reasoning(text)>>) = MessageAt(<<Reasoning(text)>>, 1)
      BY OneSays
    <3>2. <<Reasoning(text)>>[1] = Reasoning(text)
      OBVIOUS
    <3>3. MessageAt(<<Reasoning(text)>>, 1) = <<>>
      BY <2>2, <3>2 DEF MessageAt, IsToolCallItem
    <3>. QED BY <2>1, <3>1, <3>3
  <2>7. InputItemsToChatMessages(rest) \in Seq(MessagesOf(rest))
    <3>1. Len(rest) \in Nat
      OBVIOUS
    <3>. QED BY <3>1, SpeaksMessages
  <2>8. ASSUME NEW T, NEW s \in Seq(T) PROVE <<>> \o s = s
    OBVIOUS
  <2>. QED BY <2>5, <2>6, <2>7, <2>8 DEF thought
<1>. QED BY <1>1, <1>2

\* A text without calls is a message.
LEMMA MessageAlone ==
  ASSUME NEW content, NEW reasoning, NEW turn
  PROVE  InputItemsToChatMessages(<<Message("assistant", content, reasoning, turn)>>) =
           <<Said("assistant", content, reasoning, <<>>)>>
<1>1. <<>> \in Seq({}) /\ AllCalls({})
  BY DEF AllCalls
<1>2. CallItems(<<>>, reasoning, turn) = <<>> /\ RepeatedCalls(<<>>) = <<>>
  BY DEF CallItems, RepeatedCalls
<1>3. \A x : <<x>> \o <<>> = <<x>>
  OBVIOUS
<1>4. InputItemsToChatMessages(<<Message("assistant", content, reasoning, turn)>>
                                    \o CallItems(<<>>, reasoning, turn)) =
        <<Said("assistant", content, reasoning, RepeatedCalls(<<>>))>>
  BY <1>1, MessageAndCallsSay
<1>. QED BY <1>2, <1>3, <1>4

\* A reasoning says nothing.
LEMMA ThoughtAlone ==
  ASSUME NEW S, NEW text, NEW t, OfText(t, Reasoning(text)) \in Seq(S)
  PROVE  InputItemsToChatMessages(OfText(t, Reasoning(text)) \o <<>>) = InputItemsToChatMessages(<<>>)
<1>. DEFINE rest == <<>>
<1>1. rest \in Seq(S)
  OBVIOUS
<1>. HIDE DEF rest
<1>2. InputItemsToChatMessages(OfText(t, Reasoning(text)) \o rest) = InputItemsToChatMessages(rest)
  BY <1>1, ThoughtSays
<1>. QED BY <1>2 DEF rest

\* The items of an answer say that answer, unless its reasoning stands between
\* its text and its calls.
LEMMA TurnSays ==
  ASSUME NEW C, NEW answer, answer.calls \in Seq(C), NEW reasoning, NEW turn, NEW textFirst \in BOOLEAN,
         ~(textFirst /\ answer.calls # <<>>), AllCalls(C)
  PROVE  InputItemsToChatMessages(TurnOf(answer, reasoning, turn, textFirst)) = SpokenWith(answer, reasoning)
<1>. DEFINE message == OfText(answer.content, Message("assistant", answer.content, reasoning, turn))
            thought == OfText(answer.reasoning, Reasoning(answer.reasoning))
            calls == CallItems(answer.calls, reasoning, turn)
            S == TurnItem(answer, C, reasoning, turn)
<1>1. message \in Seq(S) /\ thought \in Seq(S) /\ calls \in Seq(S)
  BY TurnParts
<1>2. InputItemsToChatMessages(message \o calls) = SpokenWith(answer, reasoning)
  <2>1. CASE answer.content = <<>>
    <3>1. message \o calls = calls
      <4>1. message = <<>>
        BY <2>1 DEF OfText
      <4>. HIDE DEF message, calls
      <4>. QED BY <1>1, <4>1
    <3>2. CASE answer.calls = <<>>
      <4>1. calls = <<>>
        BY <3>2 DEF CallItems
      <4>. HIDE DEF message, calls
      <4>. QED BY <2>1, <3>1, <3>2, <4>1, NothingSays DEF SpokenWith
    <3>3. CASE answer.calls # <<>>
      <4>1. InputItemsToChatMessages(calls) = <<Said("assistant", <<>>, reasoning, RepeatedCalls(answer.calls))>>
        BY <3>3, CallItemsSay
      <4>. HIDE DEF message, calls
      <4>. QED BY <2>1, <3>1, <3>3, <4>1 DEF SpokenWith
    <3>. QED BY <3>2, <3>3
  <2>2. CASE answer.content # <<>>
    <3>1. message = <<Message("assistant", answer.content, reasoning, turn)>>
      BY <2>2 DEF OfText
    <3>2. InputItemsToChatMessages(<<Message("assistant", answer.content, reasoning, turn)>> \o calls) =
            <<Said("assistant", answer.content, reasoning, RepeatedCalls(answer.calls))>>
      BY MessageAndCallsSay
    <3>. HIDE DEF message, calls
    <3>. QED BY <2>2, <3>1, <3>2 DEF SpokenWith
  <2>. QED BY <2>1, <2>2
<1>3. CASE ~textFirst
  <2>1. TurnOf(answer, reasoning, turn, textFirst) = (thought \o message) \o calls
    BY <1>3 DEF TurnOf
  <2>2. InputItemsToChatMessages(thought \o (message \o calls)) = InputItemsToChatMessages(message \o calls)
    <3>1. message \o calls \in Seq(S)
      <4>. HIDE DEF message, calls, S
      <4>. QED BY <1>1, ConcatType
    <3>2. OfText(answer.reasoning, Reasoning(answer.reasoning)) \in Seq(S)
      BY <1>1
    <3>. DEFINE rest == message \o calls
    <3>. HIDE DEF rest, S
    <3>3. rest \in Seq(S)
      BY <3>1 DEF rest
    <3>4. InputItemsToChatMessages(OfText(answer.reasoning, Reasoning(answer.reasoning)) \o rest) =
            InputItemsToChatMessages(rest)
      BY <3>2, <3>3, ThoughtSays
    <3>. QED BY <3>4 DEF rest
  <2>. HIDE DEF message, calls, thought, S
  <2>3. (thought \o message) \o calls = thought \o (message \o calls)
    BY <1>1, ConcatAgain
  <2>. QED BY <1>2, <2>1, <2>2, <2>3
<1>4. CASE textFirst
  <2>1. answer.calls = <<>> /\ calls = <<>>
    BY <1>4 DEF CallItems
  <2>2. TurnOf(answer, reasoning, turn, textFirst) = (message \o thought) \o calls
    BY <1>4 DEF TurnOf
  <2>3. InputItemsToChatMessages(message \o thought) = SpokenWith(answer, reasoning)
    <3>1. CASE answer.content = <<>>
      <4>1. message = <<>>
        BY <3>1 DEF OfText
      <4>2. InputItemsToChatMessages(thought \o <<>>) = InputItemsToChatMessages(<<>>)
        <5>1. OfText(answer.reasoning, Reasoning(answer.reasoning)) \in Seq(S)
          BY <1>1
        <5>. HIDE DEF S
        <5>. QED BY <5>1, ThoughtAlone
      <4>3. SpokenWith(answer, reasoning) = <<>>
        BY <2>1, <3>1 DEF SpokenWith
      <4>. HIDE DEF message, thought, S
      <4>4. message \o thought = thought \o <<>>
        BY <1>1, <4>1
      <4>. QED BY <4>2, <4>3, <4>4, NothingSays
    <3>2. CASE answer.content # <<>>
      <4>1. message = <<Message("assistant", answer.content, reasoning, turn)>> /\ Len(message) = 1
        BY <3>2 DEF OfText
      <4>2. thought # <<>> => ~IsToolCallItem(thought[1])
        BY DEF OfText, Reasoning, IsToolCallItem
      <4>3. InputItemsToChatMessages(message) = <<Said("assistant", answer.content, reasoning, <<>>)>>
        BY <4>1, MessageAlone
      <4>4. InputItemsToChatMessages(thought \o <<>>) = InputItemsToChatMessages(<<>>)
        <5>1. OfText(answer.reasoning, Reasoning(answer.reasoning)) \in Seq(S)
          BY <1>1
        <5>. HIDE DEF S
        <5>. QED BY <5>1, ThoughtAlone
      <4>. HIDE DEF message, thought, S
      <4>5. \A i \in 1..Len(message) : KeepsTo(message, thought, i)
        <5>1. \A i \in 1..1 : i = 1
          OBVIOUS
        <5>. QED BY <4>1, <4>2, <5>1 DEF KeepsTo, Joins
      <4>6. InputItemsToChatMessages(message \o thought) =
              InputItemsToChatMessages(message) \o InputItemsToChatMessages(thought)
        BY <1>1, <4>5, ReadingSplits
      <4>7. thought \o <<>> = thought
        BY <1>1
      <4>8. \A x : <<x>> \o <<>> = <<x>>
        OBVIOUS
      <4>9. RepeatedCalls(answer.calls) = <<>>
        BY <2>1 DEF RepeatedCalls
      <4>. QED BY <2>1, <3>2, <4>3, <4>4, <4>6, <4>7, <4>8, <4>9, NothingSays DEF SpokenWith
    <3>. QED BY <3>1, <3>2
  <2>. HIDE DEF message, calls, thought, S
  <2>4. (message \o thought) \o <<>> = message \o thought
    <3>1. message \o thought \in Seq(S)
      BY <1>1, ConcatType
    <3>. QED BY <3>1
  <2>. QED BY <2>1, <2>2, <2>3, <2>4
<1>. QED BY <1>3, <1>4

\* OutputItems in these terms.
LEMMA OutputItemsAreATurn ==
  ASSUME NEW answer, NEW turn, NEW textFirst
  PROVE  OutputItems(answer, turn, textFirst) =
           TurnOf(answer, answer.reasoning, IF answer.calls = <<>> THEN 0 ELSE turn, textFirst)
BY DEF OutputItems, TurnOf

-----------------------------------------------------------------------------
(* What a client is shown of items.                                        *)

\* What a client is shown of each kind of item.
LEMMA PublicIs ==
  /\ \A c, r, t : PublicItem(CallItem(c, r, t)) = CallItem(c, <<>>, 0)
  /\ \A role, c, r, t : PublicItem(Message(role, c, r, t)) = Message(role, c, <<>>, 0)
  /\ \A x : PublicItem(Reasoning(x)) = Reasoning(x)
  /\ \A id, out : PublicItem(CallOutput(id, out)) = CallOutput(id, out)
<1>1. ASSUME NEW c, NEW r, NEW t PROVE PublicItem(CallItem(c, r, t)) = CallItem(c, <<>>, 0)
  BY DEF PublicItem, CallItem
<1>2. ASSUME NEW role, NEW c, NEW r, NEW t
      PROVE  PublicItem(Message(role, c, r, t)) = Message(role, c, <<>>, 0)
  BY DEF PublicItem, Message
<1>3. ASSUME NEW x PROVE PublicItem(Reasoning(x)) = Reasoning(x)
  BY DEF PublicItem, Reasoning
<1>4. ASSUME NEW id, NEW out PROVE PublicItem(CallOutput(id, out)) = CallOutput(id, out)
  BY DEF PublicItem, CallOutput
<1>. QED BY <1>1, <1>2, <1>3, <1>4

\* A list changed element by element is changed part by part.
Mapped(g, s) == [ n \in DOMAIN s |-> g[s[n]] ]

\* z is x and then y.
IsConcat(z, x, y) == z = x \o y

\* z has the elements of x and then those of y.
Follows(z, x, y, P) ==
  /\ z \in Seq(P) /\ Len(z) = Len(x) + Len(y)
  /\ \A n \in 1..(Len(x) + Len(y)) : z[n] = IF n <= Len(x) THEN x[n] ELSE y[n - Len(x)]

LEMMA FollowsConcat ==
  ASSUME NEW P, NEW x \in Seq(P), NEW y \in Seq(P) PROVE Follows(x \o y, x, y, P)
BY DEF Follows

LEMMA MapJoin ==
  ASSUME NEW S, NEW P, NEW g \in [S -> P], NEW a \in Seq(S), NEW b \in Seq(S)
  PROVE  IsConcat(Mapped(g, a \o b), Mapped(g, a), Mapped(g, b))
<1>1. ASSUME NEW s \in Seq(S)
      PROVE  [ n \in DOMAIN s |-> g[s[n]] ] \in Seq(P) /\ Len([ n \in DOMAIN s |-> g[s[n]] ]) = Len(s)
  <2>1. DOMAIN s = 1..Len(s) /\ Len(s) \in Nat /\ \A n \in 1..Len(s) : s[n] \in S
    OBVIOUS
  <2>2. [ n \in 1..Len(s) |-> g[s[n]] ] \in [1..Len(s) -> P]
    BY <2>1
  <2>. QED BY <2>1, <2>2
<1>. DEFINE x == [ n \in DOMAIN a |-> g[a[n]] ]
            y == [ n \in DOMAIN b |-> g[b[n]] ]
            z == [ n \in DOMAIN (a \o b) |-> g[(a \o b)[n]] ]
<1>2. x \in Seq(P) /\ y \in Seq(P) /\ z \in Seq(P) /\ Len(x) = Len(a) /\ Len(y) = Len(b)
      /\ Len(z) = Len(a) + Len(b)
  <2>1. a \o b \in Seq(S) /\ Len(a \o b) = Len(a) + Len(b)
    OBVIOUS
  <2>. QED BY <1>1, <2>1
<1>3. \A n \in 1..(Len(a) + Len(b)) : z[n] = IF n <= Len(a) THEN x[n] ELSE y[n - Len(a)]
  <2>1. \A n \in 1..(Len(a) + Len(b)) :
           /\ n \in DOMAIN (a \o b)
           /\ IF n <= Len(a) THEN n \in DOMAIN a /\ (a \o b)[n] = a[n]
              ELSE n - Len(a) \in DOMAIN b /\ (a \o b)[n] = b[n - Len(a)]
    OBVIOUS
  <2>. QED BY <2>1
<1>. HIDE DEF x, y, z
<1>4. x \o y \in Seq(P) /\ Len(x \o y) = Len(a) + Len(b)
      /\ \A n \in 1..(Len(a) + Len(b)) : (x \o y)[n] = IF n <= Len(a) THEN x[n] ELSE y[n - Len(a)]
  <2>1. Follows(x \o y, x, y, P)
    BY <1>2, FollowsConcat
  <2>. QED BY <1>2, <2>1 DEF Follows
<1>5. Len(z) = Len(x \o y) /\ \A n \in 1..Len(z) : z[n] = (x \o y)[n]
  BY <1>2, <1>3, <1>4
<1>6. z = x \o y
  BY <1>2, <1>4, <1>5, SeqEqual
<1>. QED BY <1>6 DEF x, y, z, Mapped, IsConcat

\* A client is shown each part of the items as it would be alone.
LEMMA PublicJoin ==
  ASSUME NEW S, NEW a \in Seq(S), NEW b \in Seq(S)
  PROVE  PublicItems(a \o b) = PublicItems(a) \o PublicItems(b)
<1>. DEFINE P == { PublicItem(x) : x \in S }
            g == [ x \in S |-> PublicItem(x) ]
<1>1. g \in [S -> P] /\ a \o b \in Seq(S)
  OBVIOUS
<1>2. ASSUME NEW s \in Seq(S) PROVE PublicItems(s) = Mapped(g, s)
  BY DEF PublicItems, Mapped
<1>. HIDE DEF g, P
<1>3. IsConcat(Mapped(g, a \o b), Mapped(g, a), Mapped(g, b))
  BY <1>1, MapJoin
<1>. QED BY <1>1, <1>2, <1>3 DEF IsConcat

\* Reasoning is left out of each part of the messages.
LEMMA WithoutReasoningJoin ==
  ASSUME NEW S, NEW a \in Seq(S), NEW b \in Seq(S)
  PROVE  WithoutReasoning(a \o b) = WithoutReasoning(a) \o WithoutReasoning(b)
<1>. DEFINE f(x) == IF x.role = "assistant" THEN [x EXCEPT !.reasoning = <<>>] ELSE x
            P == { f(x) : x \in S }
            g == [ x \in S |-> f(x) ]
<1>1. g \in [S -> P] /\ a \o b \in Seq(S)
  OBVIOUS
<1>2. ASSUME NEW s \in Seq(S) PROVE WithoutReasoning(s) = Mapped(g, s)
  BY DEF WithoutReasoning, Mapped
<1>. HIDE DEF g, P
<1>3. IsConcat(Mapped(g, a \o b), Mapped(g, a), Mapped(g, b))
  BY <1>1, MapJoin
<1>. QED BY <1>1, <1>2, <1>3 DEF IsConcat

\* What a client is shown of an answer is the answer without private fields.
LEMMA PublicTurn ==
  ASSUME NEW C, NEW answer, answer.calls \in Seq(C), NEW reasoning, NEW turn, NEW textFirst \in BOOLEAN
  PROVE  PublicItems(TurnOf(answer, reasoning, turn, textFirst)) = TurnOf(answer, <<>>, 0, textFirst)
<1>. DEFINE message(r, t) == OfText(answer.content, Message("assistant", answer.content, r, t))
            thought == OfText(answer.reasoning, Reasoning(answer.reasoning))
            calls(r, t) == CallItems(answer.calls, r, t)
            S == TurnItem(answer, C, reasoning, turn)
<1>1. message(reasoning, turn) \in Seq(S) /\ thought \in Seq(S) /\ calls(reasoning, turn) \in Seq(S)
  BY TurnParts
<1>2. ASSUME NEW x, NEW y, NEW t, PublicItem(x) = y
      PROVE  PublicItems(OfText(t, x)) = OfText(t, y)
  <2>1. CASE t = <<>>
    <3>1. PublicItems(<<>>) = <<>>
      BY DEF PublicItems
    <3>. QED BY <2>1, <3>1 DEF OfText
  <2>2. CASE t # <<>>
    <3>1. PublicItems(<<x>>) = [ n \in 1..1 |-> PublicItem(<<x>>[n]) ]
      BY DEF PublicItems
    <3>2. \A n \in 1..1 : <<x>>[n] = x
      OBVIOUS
    <3>3. PublicItems(<<x>>) = [ n \in 1..1 |-> y ]
      BY <1>2, <3>1, <3>2
    <3>4. [ n \in 1..1 |-> y ] = <<y>>
      OBVIOUS
    <3>. QED BY <2>2, <3>3, <3>4 DEF OfText
  <2>. QED BY <2>1, <2>2
<1>3. PublicItems(message(reasoning, turn)) = message(<<>>, 0)
  BY <1>2, PublicIs
<1>4. PublicItems(thought) = thought
  BY <1>2, PublicIs
<1>5. PublicItems(calls(reasoning, turn)) = calls(<<>>, 0)
  <2>1. DOMAIN answer.calls = 1..Len(answer.calls)
    OBVIOUS
  <2>2. calls(reasoning, turn) = [ n \in 1..Len(answer.calls) |->
                                     CallItem(answer.calls[n], IF n = 1 THEN reasoning ELSE <<>>, turn) ]
    BY <2>1 DEF CallItems
  <2>3. calls(<<>>, 0) = [ n \in 1..Len(answer.calls) |-> CallItem(answer.calls[n], <<>>, 0) ]
    BY <2>1 DEF CallItems
  <2>4. PublicItems(calls(reasoning, turn)) =
          [ n \in 1..Len(answer.calls) |->
              PublicItem(CallItem(answer.calls[n], IF n = 1 THEN reasoning ELSE <<>>, turn)) ]
    BY <2>2 DEF PublicItems
  <2>. QED BY <2>3, <2>4, PublicIs
<1>. DEFINE m == message(reasoning, turn)
            k == calls(reasoning, turn)
            head == IF textFirst THEN m \o thought ELSE thought \o m
<1>6. TurnOf(answer, reasoning, turn, textFirst) = head \o k
  BY DEF TurnOf
<1>7. PublicItems(head \o k) = PublicItems(head) \o PublicItems(k)
  <2>. HIDE DEF message, thought, calls, S
  <2>1. head \in Seq(S)
    BY <1>1, ConcatType
  <2>. QED BY <1>1, <2>1, PublicJoin
<1>8. PublicItems(head) = IF textFirst THEN message(<<>>, 0) \o thought ELSE thought \o message(<<>>, 0)
  <2>1. PublicItems(m \o thought) = PublicItems(m) \o PublicItems(thought)
        /\ PublicItems(thought \o m) = PublicItems(thought) \o PublicItems(m)
    <3>. HIDE DEF message, thought, calls, S
    <3>. QED BY <1>1, PublicJoin
  <2>. QED BY <1>3, <1>4, <2>1
<1>. QED BY <1>5, <1>6, <1>7, <1>8 DEF TurnOf

-----------------------------------------------------------------------------
(* Steps of a conversation.                                                *)

\* A step is something of the client, a message of the user or the result of a
\* call, or an answer.
IsStep(entry) ==
  \/ /\ entry.by = "client"
     /\ \/ /\ entry.item.type = "message"
           /\ entry.item = Message("user", entry.item.content, <<>>, 0)
        \/ /\ entry.item.type = "function_call_output"
           /\ entry.item = CallOutput(entry.item.call_id, entry.item.output)
  \/ /\ entry.by = "upstream"
     /\ entry.textFirst \in BOOLEAN
     /\ entry.answer.calls \in Seq({ entry.answer.calls[k] : k \in DOMAIN entry.answer.calls })
     /\ \A k \in DOMAIN entry.answer.calls : IsCall(entry.answer.calls[k])

\* ItemsOf and SpokenAt for a step that is not in the history yet.
ItemsIn(entry, n) ==
  IF entry.by = "client" THEN <<entry.item>> ELSE OutputItems(entry.answer, n, entry.textFirst)

SpokenIn(entry) ==
  IF entry.by = "upstream" THEN Spoken(entry.answer) ELSE InputItemsToChatMessages(<<entry.item>>)

\* What reading relies on in the items of step n: turns are numbers of steps.
TurnsUpTo(list, n) ==
  \A k \in DOMAIN list :
    /\ IsToolCallItem(list[k]) => list[k].turn \in 1..n
    /\ IsAssistant(list[k]) => list[k].turn \in 0..n

\* An item has a type, and a message a role.
IsItem(item) ==
  "type" \in DOMAIN item /\ (item.type = "message" => "role" \in DOMAIN item)

\* A text without a turn, which would take any call, has no call right after it.
NoCallAfterLoneText(list) ==
  \A k \in 1..(Len(list) - 1) :
    IsAssistant(list[k]) /\ list[k].turn = 0 => ~IsToolCallItem(list[k + 1])

\* What can be a call or an answer's text among the items of a step.
LEMMA ItemKinds ==
  /\ \A c, r, t : /\ IsToolCallItem(CallItem(c, r, t)) /\ ~IsAssistant(CallItem(c, r, t))
                  /\ CallItem(c, r, t).turn = t
  /\ \A role, c, r, t : /\ ~IsToolCallItem(Message(role, c, r, t)) /\ Message(role, c, r, t).turn = t
                        /\ IsAssistant(Message(role, c, r, t)) <=> role = "assistant"
  /\ \A x : ~IsToolCallItem(Reasoning(x)) /\ ~IsAssistant(Reasoning(x))
  /\ \A id, out : ~IsToolCallItem(CallOutput(id, out)) /\ ~IsAssistant(CallOutput(id, out))
BY DEF CallItem, Message, Reasoning, CallOutput, IsToolCallItem, IsAssistant

\* The items of a step are items.
LEMMA AreItems ==
  /\ \A c, r, t : IsItem(CallItem(c, r, t))
  /\ \A role, c, r, t : IsItem(Message(role, c, r, t))
  /\ \A x : IsItem(Reasoning(x))
  /\ \A id, out : IsItem(CallOutput(id, out))
BY DEF CallItem, Message, Reasoning, CallOutput, IsItem

\* What a client brings is one item.
LEMMA ClientItem ==
  ASSUME NEW entry, IsStep(entry), entry.by = "client"
  PROVE  /\ ~IsToolCallItem(entry.item) /\ ~IsAssistant(entry.item) /\ IsItem(entry.item)
         /\ PublicItem(entry.item) = entry.item
         /\ WithoutReasoning(SpokenIn(entry)) = SpokenIn(entry)
<1>. DEFINE item == entry.item
<1>1. item = Message("user", item.content, <<>>, 0) \/ item = CallOutput(item.call_id, item.output)
  BY DEF IsStep
<1>2. ~IsToolCallItem(item) /\ ~IsAssistant(item) /\ PublicItem(item) = item /\ IsItem(item)
  <2>. HIDE DEF item
  <2>1. CASE item = Message("user", item.content, <<>>, 0)
    <3>1. ~IsToolCallItem(Message("user", item.content, <<>>, 0))
          /\ ~IsAssistant(Message("user", item.content, <<>>, 0))
          /\ PublicItem(Message("user", item.content, <<>>, 0)) = Message("user", item.content, <<>>, 0)
          /\ IsItem(Message("user", item.content, <<>>, 0))
      BY ItemKinds, PublicIs, AreItems
    <3>. QED BY <2>1, <3>1
  <2>2. CASE item = CallOutput(item.call_id, item.output)
    <3>1. ~IsToolCallItem(CallOutput(item.call_id, item.output))
          /\ ~IsAssistant(CallOutput(item.call_id, item.output))
          /\ PublicItem(CallOutput(item.call_id, item.output)) = CallOutput(item.call_id, item.output)
          /\ IsItem(CallOutput(item.call_id, item.output))
      BY ItemKinds, PublicIs, AreItems
    <3>. QED BY <2>2, <3>1
  <2>. QED BY <1>1, <2>1, <2>2
<1>3. SpokenIn(entry) = MessageAt(<<item>>, 1)
  BY OneSays DEF SpokenIn
<1>4. \E m : MessageAt(<<item>>, 1) = <<m>> /\ m.role # "assistant"
  <2>1. <<item>>[1] = item
    OBVIOUS
  <2>2. After(<<item>>, 1) = 1 + 1
    BY <1>2, <2>1 DEF After
  <2>3. SubSeq(<<item>>, 1 + 1, (1 + 1) - 1) = <<>>
    OBVIOUS
  <2>. HIDE DEF item
  <2>4. CASE item = Message("user", item.content, <<>>, 0)
    <3>1. item.type = "message" /\ item.role = "user"
      BY <2>4 DEF Message
    <3>2. MessageAt(<<item>>, 1) = <<Said(item.role, item.content, item.reasoning, <<>>)>>
      BY <1>2, <2>1, <2>2, <2>3, <3>1 DEF MessageAt
    <3>3. Said(item.role, item.content, item.reasoning, <<>>).role = item.role
      BY DEF Said
    <3>. QED BY <3>1, <3>2, <3>3
  <2>5. CASE item = CallOutput(item.call_id, item.output)
    <3>1. item.type = "function_call_output"
      BY <2>5 DEF CallOutput
    <3>2. MessageAt(<<item>>, 1) = <<Answered(item)>>
      BY <1>2, <2>1, <3>1 DEF MessageAt
    <3>3. Answered(item).role = "tool"
      BY DEF Answered
    <3>. QED BY <3>2, <3>3
  <2>. QED BY <1>1, <2>4, <2>5 DEF item
<1>5. ASSUME NEW m, m.role # "assistant" PROVE WithoutReasoning(<<m>>) = <<m>>
  BY <1>5 DEF WithoutReasoning
<1>. QED BY <1>2, <1>3, <1>4, <1>5

\* The items of a step.
LEMMA StepItems ==
  ASSUME NEW entry, IsStep(entry), NEW n \in Nat \ {0}
  PROVE  LET new == ItemsIn(entry, n) IN
         /\ \E S : new \in Seq(S)
         /\ TurnsUpTo(new, n) /\ NoCallAfterLoneText(new)
         /\ \A k \in DOMAIN new : IsItem(new[k])
         /\ \A k \in DOMAIN new : IsToolCallItem(new[k]) => new[k].turn = n /\ entry.by = "upstream"
<1>. DEFINE new == ItemsIn(entry, n)
<1>1. CASE entry.by = "client"
  <2>1. new = <<entry.item>> /\ new \in Seq({entry.item}) /\ DOMAIN new = {1} /\ Len(new) = 1 /\ new[1] = entry.item
    BY <1>1 DEF ItemsIn
  <2>2. ~IsToolCallItem(entry.item) /\ ~IsAssistant(entry.item) /\ IsItem(entry.item)
    BY <1>1, ClientItem
  <2>. HIDE DEF new
  <2>3. TurnsUpTo(new, n) /\ NoCallAfterLoneText(new)
    BY <2>1, <2>2 DEF TurnsUpTo, NoCallAfterLoneText
  <2>4. /\ \A k \in DOMAIN new : IsItem(new[k])
        /\ \A k \in DOMAIN new : IsToolCallItem(new[k]) => new[k].turn = n /\ entry.by = "upstream"
    BY <2>1, <2>2
  <2>. QED BY <2>1, <2>3, <2>4 DEF new
<1>2. CASE entry.by = "upstream"
  <2>. DEFINE answer == entry.answer
              C == { answer.calls[k] : k \in DOMAIN answer.calls }
              turn == IF answer.calls = <<>> THEN 0 ELSE n
              S == TurnItem(answer, C, answer.reasoning, turn)
  <2>1. entry.textFirst \in BOOLEAN /\ answer.calls \in Seq(C)
    BY <1>2 DEF IsStep
  <2>2. new = TurnOf(answer, answer.reasoning, turn, entry.textFirst)
    BY <1>2, OutputItemsAreATurn DEF ItemsIn
  <2>3. new \in Seq(S)
    BY <2>1, <2>2, TurnType
  <2>4. ASSUME NEW x \in S
        PROVE  /\ IsToolCallItem(x) => x.turn = turn /\ answer.calls # <<>>
               /\ IsAssistant(x) => x.turn = turn
               /\ IsItem(x)
    <3>1. CASE x \in { CallItem(c, r, turn) : c \in C, r \in {answer.reasoning, <<>>} }
      <4>1. PICK c \in C, r \in {answer.reasoning, <<>>} : x = CallItem(c, r, turn)
        BY <3>1
      <4>2. answer.calls # <<>>
        <5>1. c \in C
          BY <4>1
        <5>. QED BY <5>1
      <4>. HIDE DEF turn
      <4>. QED BY <4>2, <4>1, ItemKinds, AreItems
    <3>2. CASE x = Reasoning(answer.reasoning)
      BY <3>2, ItemKinds, AreItems
    <3>3. CASE x = Message("assistant", answer.content, answer.reasoning, turn)
      <4>. HIDE DEF turn
      <4>. QED BY <3>3, ItemKinds, AreItems
    <3>. QED BY <3>1, <3>2, <3>3 DEF TurnItem
  <2>5. \A k \in DOMAIN new : new[k] \in S
    <3>. HIDE DEF new, S
    <3>. QED BY <2>3
  <2>6. answer.calls = <<>> => turn = 0
    OBVIOUS
  <2>7. answer.calls # <<>> => turn = n
    OBVIOUS
  <2>8. \A k \in 1..(Len(new) - 1) : k \in DOMAIN new /\ k + 1 \in DOMAIN new
    <3>. HIDE DEF new, S
    <3>. QED BY <2>3
  <2>. HIDE DEF new, S, turn
  <2>9. TurnsUpTo(new, n)
    <3>1. \A k \in DOMAIN new : IsToolCallItem(new[k]) => new[k].turn = n
      BY <2>4, <2>5, <2>7
    <3>2. \A k \in DOMAIN new : IsAssistant(new[k]) => new[k].turn = 0 \/ new[k].turn = n
      BY <2>4, <2>5, <2>6, <2>7
    <3>3. n \in 1..n /\ n \in 0..n /\ 0 \in 0..n
      OBVIOUS
    <3>. QED BY <3>1, <3>2, <3>3 DEF TurnsUpTo
  <2>10. NoCallAfterLoneText(new)
    <3>1. n # 0
      OBVIOUS
    <3>. QED BY <2>4, <2>5, <2>7, <2>8, <3>1 DEF NoCallAfterLoneText
  <2>11. \A k \in DOMAIN new : IsToolCallItem(new[k]) => new[k].turn = n
    BY <2>4, <2>5, <2>7
  <2>12. \A k \in DOMAIN new : IsItem(new[k])
    BY <2>4, <2>5
  <2>. QED BY <1>2, <2>3, <2>9, <2>10, <2>11, <2>12 DEF new
<1>. QED BY <1>1, <1>2 DEF IsStep

\* The items of a step say it, and what is public of them says it without reasoning.
LEMMA StepSays ==
  ASSUME NEW entry, IsStep(entry), NEW n,
         entry.by = "upstream" => ~(entry.textFirst /\ entry.answer.calls # <<>>)
  PROVE  /\ InputItemsToChatMessages(ItemsIn(entry, n)) = SpokenIn(entry)
         /\ InputItemsToChatMessages(PublicItems(ItemsIn(entry, n))) = WithoutReasoning(SpokenIn(entry))
<1>1. CASE entry.by = "client"
  <2>1. ItemsIn(entry, n) = <<entry.item>>
    BY <1>1 DEF ItemsIn
  <2>2. PublicItems(<<entry.item>>) = <<PublicItem(entry.item)>>
    BY DEF PublicItems
  <2>3. PublicItem(entry.item) = entry.item /\ WithoutReasoning(SpokenIn(entry)) = SpokenIn(entry)
    BY <1>1, ClientItem
  <2>4. SpokenIn(entry) = InputItemsToChatMessages(<<entry.item>>)
    BY <1>1 DEF SpokenIn
  <2>. QED BY <2>1, <2>2, <2>3, <2>4
<1>2. CASE entry.by = "upstream"
  <2>. DEFINE answer == entry.answer
              C == { answer.calls[k] : k \in DOMAIN answer.calls }
              turn == IF answer.calls = <<>> THEN 0 ELSE n
  <2>1. entry.textFirst \in BOOLEAN /\ answer.calls \in Seq(C)
    BY <1>2 DEF IsStep
  <2>2. ItemsIn(entry, n) = TurnOf(answer, answer.reasoning, turn, entry.textFirst)
    BY <1>2, OutputItemsAreATurn DEF ItemsIn
  <2>3. PublicItems(ItemsIn(entry, n)) = TurnOf(answer, <<>>, 0, entry.textFirst)
    <3>. HIDE DEF turn, C
    <3>. QED BY <2>1, <2>2, PublicTurn
  <2>4. /\ InputItemsToChatMessages(ItemsIn(entry, n)) = SpokenWith(answer, answer.reasoning)
        /\ InputItemsToChatMessages(PublicItems(ItemsIn(entry, n))) = SpokenWith(answer, <<>>)
    <3>1. AllCalls(C)
      BY <1>2 DEF IsStep, AllCalls
    <3>. HIDE DEF turn, C
    <3>. QED BY <1>2, <2>1, <2>2, <2>3, <3>1, TurnSays
  <2>5. SpokenIn(entry) = SpokenWith(answer, answer.reasoning)
    BY <1>2 DEF SpokenIn, Spoken, SpokenWith
  <2>6. WithoutReasoning(SpokenWith(answer, answer.reasoning)) = SpokenWith(answer, <<>>)
    <3>1. WithoutReasoning(<<>>) = <<>>
      BY DEF WithoutReasoning
    <3>. DEFINE calls == RepeatedCalls(answer.calls)
    <3>. HIDE DEF calls
    <3>2. WithoutReasoning(<<Said("assistant", answer.content, answer.reasoning, calls)>>) =
            <<Said("assistant", answer.content, <<>>, calls)>>
      BY DEF WithoutReasoning, Said
    <3>. QED BY <3>1, <3>2 DEF SpokenWith, calls
  <2>. QED BY <2>4, <2>5, <2>6
<1>. QED BY <1>1, <1>2 DEF IsStep

-----------------------------------------------------------------------------
(* Sequences put end to end.                                               *)

\* f is the function by which FlattenSeq reads the first n elements of s.
Flattens(f, s, n) == f = [i \in 1..n |-> IF i = 1 THEN s[i] ELSE f[i - 1] \o s[i]]

\* The first n elements of a list end to end, from the first n - 1.
LEMMA FlattensAt ==
  ASSUME NEW f, NEW s, NEW n \in Nat, Flattens(f, s, n), NEW i \in 1..n
  PROVE  f[i] = IF i = 1 THEN s[i] ELSE f[i - 1] \o s[i]
BY DEF Flattens

\* Two sequences agree up to n.
SameUpTo(s, r, n) == \A i \in 1..n : s[i] = r[i]

\* It depends on these n elements only.
LEMMA FlattensAgree ==
  ASSUME NEW s, NEW r, NEW n \in Nat, NEW m \in Nat, n <= m, SameUpTo(s, r, n),
         NEW f, NEW g, Flattens(f, s, n), Flattens(g, r, m)
  PROVE  SameUpTo(f, g, n)
<1>. DEFINE Bad == { i \in 1..n : f[i] # g[i] }
<1>. SUFFICES ASSUME Bad # {} PROVE FALSE
  BY DEF SameUpTo
<1>1. Bad \subseteq Nat
  OBVIOUS
<1>2. PICK i \in Bad : \A j \in Bad : i <= j
  BY <1>1, SmallestOf
<1>3. i \in 1..n /\ i \in 1..m /\ f[i] # g[i]
  BY <1>2
<1>4. /\ f[i] = IF i = 1 THEN s[i] ELSE f[i - 1] \o s[i]
      /\ g[i] = IF i = 1 THEN r[i] ELSE g[i - 1] \o r[i]
  BY <1>3, FlattensAt
<1>. s[i] = r[i]
  BY <1>3 DEF SameUpTo
<1>5. CASE i = 1
  BY <1>3, <1>4, <1>5
<1>6. CASE i # 1
  <2>1. i - 1 \in 1..n /\ i - 1 \notin Bad
    BY <1>2, <1>3, <1>6
  <2>2. f[i - 1] = g[i - 1]
    BY <2>1
  <2>. QED BY <1>3, <1>4, <1>6, <2>2
<1>. QED BY <1>5, <1>6

\* If there is one for n elements, there is one for n + 1.
LEMMA FlattensExtend ==
  ASSUME NEW s, NEW n \in Nat, NEW f, Flattens(f, s, n)
  PROVE  \E g : Flattens(g, s, n + 1)
<1>. DEFINE e(i) == IF i = 1 THEN s[i] ELSE f[i - 1] \o s[i]
            g == [i \in 1..(n + 1) |-> e(i)]
<1>1. \A i \in 1..n : g[i] = f[i]
  BY FlattensAt
<1>2. \A i \in 1..(n + 1) : i # 1 => g[i - 1] = f[i - 1]
  <2>1. \A i \in 1..(n + 1) : i # 1 => i - 1 \in 1..n
    OBVIOUS
  <2>. HIDE DEF g
  <2>. QED BY <1>1, <2>1
<1>3. \A i \in 1..(n + 1) : e(i) = IF i = 1 THEN s[i] ELSE g[i - 1] \o s[i]
  BY <1>2
<1>4. g = [i \in 1..(n + 1) |-> IF i = 1 THEN s[i] ELSE g[i - 1] \o s[i]]
  BY <1>3
<1>. QED BY <1>4 DEF Flattens

\* So there is one for any number of elements.
LEMMA FlattensExists ==
  ASSUME NEW s, NEW n \in Nat PROVE \E f : Flattens(f, s, n)
<1>. DEFINE Bad == { k \in Nat : ~ \E f : Flattens(f, s, k) }
<1>. SUFFICES ASSUME Bad # {} PROVE FALSE
  OBVIOUS
<1>1. PICK k \in Bad : \A j \in Bad : k <= j
  BY SmallestOf
<1>2. CASE k = 0
  <2>1. <<>> = [i \in 1..0 |-> IF i = 1 THEN s[i] ELSE <<>>[i - 1] \o s[i]]
    OBVIOUS
  <2>. QED BY <1>1, <1>2, <2>1 DEF Flattens
<1>3. CASE k # 0
  <2>1. k - 1 \in Nat /\ k - 1 \notin Bad /\ (k - 1) + 1 = k
    BY <1>1, <1>3
  <2>2. PICK f : Flattens(f, s, k - 1)
    BY <2>1
  <2>3. \E g : Flattens(g, s, k)
    BY <2>1, <2>2, FlattensExtend
  <2>. QED BY <1>1, <2>3
<1>. QED BY <1>2, <1>3

\* FlattenSeq is the last value of such a function.
LEMMA FlattenSeqLast ==
  ASSUME NEW s, Len(s) \in Nat, Len(s) # 0
  PROVE  \E f : Flattens(f, s, Len(s)) /\ SeqOps!FlattenSeq(s) = f[Len(s)]
<1>. DEFINE F == CHOOSE f : f = [i \in 1..Len(s) |-> IF i = 1 THEN s[i] ELSE f[i - 1] \o s[i]]
<1>1. \E f : f = [i \in 1..Len(s) |-> IF i = 1 THEN s[i] ELSE f[i - 1] \o s[i]]
  BY FlattensExists DEF Flattens
<1>2. F = [i \in 1..Len(s) |-> IF i = 1 THEN s[i] ELSE F[i - 1] \o s[i]]
  BY <1>1
<1>3. SeqOps!FlattenSeq(s) = F[Len(s)]
  BY DEF SeqOps!FlattenSeq
<1>. QED BY <1>2, <1>3 DEF Flattens

\* One more element goes to the end.
LEMMA FlattenAppend ==
  ASSUME NEW T, NEW s \in Seq(Seq(T)), NEW x \in Seq(T)
  PROVE  SeqOps!FlattenSeq(Append(s, x)) = SeqOps!FlattenSeq(s) \o x
<1>. DEFINE r == Append(s, x)
            n == Len(s)
            m == n + 1
<1>1. n \in Nat /\ m \in Nat /\ Len(r) = n + 1 /\ r[n + 1] = x /\ \A i \in 1..n : s[i] = r[i]
  OBVIOUS
<1>. HIDE DEF r
<1>2. PICK g : Flattens(g, r, n + 1) /\ SeqOps!FlattenSeq(r) = g[n + 1]
  BY <1>1, FlattenSeqLast
<1>3. g[n + 1] = IF n + 1 = 1 THEN r[n + 1] ELSE g[(n + 1) - 1] \o r[n + 1]
  BY <1>1, <1>2, FlattensAt
<1>4. CASE n = 0
  <2>1. s = <<>> /\ SeqOps!FlattenSeq(s) = s
    BY <1>4 DEF SeqOps!FlattenSeq
  <2>2. SeqOps!FlattenSeq(r) = x
    BY <1>1, <1>2, <1>3, <1>4
  <2>. QED BY <2>1, <2>2 DEF r
<1>5. CASE n # 0
  <2>1. PICK f : Flattens(f, s, n) /\ SeqOps!FlattenSeq(s) = f[n]
    BY <1>1, <1>5, FlattenSeqLast
  <2>2. f[n] = g[n]
    <3>1. n <= m /\ n \in 1..n /\ Flattens(f, s, n) /\ Flattens(g, r, m)
      BY <1>1, <1>2, <1>5, <2>1
    <3>. HIDE DEF n, m
    <3>2. n \in Nat /\ m \in Nat /\ SameUpTo(s, r, n)
      BY <1>1 DEF SameUpTo
    <3>3. SameUpTo(f, g, n)
      BY <3>1, <3>2, FlattensAgree
    <3>. QED BY <3>1, <3>3 DEF SameUpTo
  <2>3. (n + 1) - 1 = n /\ n + 1 # 1
    BY <1>1, <1>5
  <2>4. SeqOps!FlattenSeq(r) = g[n] \o x
    BY <1>1, <1>2, <1>3, <2>3
  <2>. QED BY <2>1, <2>2, <2>4 DEF r
<1>. QED BY <1>4, <1>5

\* What is put end to end are elements of the parts.
LEMMA FlattenType ==
  ASSUME NEW T, NEW q \in Seq(Seq(T)) PROVE SeqOps!FlattenSeq(q) \in Seq(T)
<1>. DEFINE flat(s) == SeqOps!FlattenSeq(s)
            pre(n) == [ i \in 1..n |-> q[i] ]
            Bad == { n \in 0..Len(q) : flat(pre(n)) \notin Seq(T) }
<1>1. ASSUME Bad # {} PROVE FALSE
  <2>1. Bad \subseteq Nat
    OBVIOUS
  <2>2. PICK n \in Bad : \A m \in Bad : n <= m
    BY <1>1, <2>1, SmallestOf
  <2>3. n \in 0..Len(q) /\ flat(pre(n)) \notin Seq(T)
    BY <2>2
  <2>4. CASE n = 0
    <3>1. pre(n) = <<>>
      BY <2>4
    <3>. HIDE DEF pre
    <3>2. flat(<<>>) = <<>>
      BY DEF SeqOps!FlattenSeq
    <3>3. <<>> \in Seq(T)
      OBVIOUS
    <3>. QED BY <2>3, <3>1, <3>2, <3>3
  <2>5. CASE n # 0
    <3>1. n - 1 \in 0..Len(q) /\ n - 1 \notin Bad /\ n \in 1..Len(q)
      <4>1. n \in Nat /\ ~(n <= n - 1)
        BY <2>3
      <4>. HIDE DEF Bad
      <4>2. n - 1 \notin Bad
        BY <2>2, <4>1
      <4>. QED BY <2>3, <2>5, <4>2
    <3>2. pre(n - 1) \in Seq(Seq(T)) /\ q[n] \in Seq(T) /\ pre(n) = Append(pre(n - 1), q[n])
      BY <3>1
    <3>. HIDE DEF pre
    <3>3. flat(pre(n - 1)) \in Seq(T)
      BY <3>1
    <3>4. flat(pre(n)) = flat(pre(n - 1)) \o q[n]
      BY <3>2, FlattenAppend
    <3>. HIDE DEF flat
    <3>5. flat(pre(n - 1)) \o q[n] \in Seq(T)
      BY <3>2, <3>3
    <3>. QED BY <2>3, <3>4, <3>5
  <2>. QED BY <2>4, <2>5
<1>2. Len(q) \in 0..Len(q) /\ pre(Len(q)) = q
  OBVIOUS
<1>. HIDE DEF pre, flat
<1>. QED BY <1>1, <1>2 DEF flat

LEMMA WithinSeq ==
  ASSUME NEW S, NEW x \in Seq(S), NEW U, { x[j] : j \in DOMAIN x } \subseteq U
  PROVE  x \in Seq(U)
<1>1. /\ Len(x) \in Nat /\ DOMAIN x = 1..Len(x) /\ x = [ j \in 1..Len(x) |-> x[j] ]
      /\ \A j \in 1..Len(x) : x[j] \in U
  OBVIOUS
<1>2. x \in [1..Len(x) -> U]
  BY <1>1
<1>3. \A n \in Nat : \A f \in [1..n -> U] : f \in Seq(U)
  BY SeqDef
<1>. QED BY <1>1, <1>2, <1>3

\* A sequence of pieces with one more, whatever the pieces are made of.
LEMMA FlattenMore ==
  ASSUME NEW n \in Nat, NEW s, s = [ k \in 1..n |-> s[k] ],
         NEW t, t = [ k \in 1..(n + 1) |-> t[k] ], \A k \in 1..n : t[k] = s[k],
         \A k \in 1..(n + 1) : \E S : t[k] \in Seq(S)
  PROVE  \E T : /\ SeqOps!FlattenSeq(s) \in Seq(T) /\ t[n + 1] \in Seq(T)
                /\ SeqOps!FlattenSeq(t) = SeqOps!FlattenSeq(s) \o t[n + 1]
<1>. DEFINE T == UNION { { t[k][j] : j \in DOMAIN t[k] } : k \in 1..(n + 1) }
<1>1. ASSUME NEW k \in 1..(n + 1) PROVE t[k] \in Seq(T)
  <2>1. PICK S : t[k] \in Seq(S)
    OBVIOUS
  <2>2. { t[k][j] : j \in DOMAIN t[k] } \subseteq T
    OBVIOUS
  <2>. HIDE DEF T
  <2>. QED BY <2>1, <2>2, WithinSeq
<1>. HIDE DEF T
<1>2. s \in [1..n -> Seq(T)]
  <2>1. \A k \in 1..n : k \in 1..(n + 1)
    OBVIOUS
  <2>2. \A k \in 1..n : s[k] \in Seq(T)
    BY <1>1, <2>1
  <2>. QED BY <2>2
<1>3. s \in Seq(Seq(T)) /\ Len(s) = n
  BY <1>2
<1>4. n + 1 \in 1..(n + 1)
  OBVIOUS
<1>5. t = Append(s, t[n + 1])
  <2>. DEFINE r == Append(s, t[n + 1])
  <2>1. t[n + 1] \in Seq(T)
    BY <1>1, <1>4
  <2>2. /\ r \in Seq(Seq(T)) /\ Len(r) = n + 1 /\ r[n + 1] = t[n + 1]
        /\ \A k \in 1..n : r[k] = s[k]
    BY <1>3, <2>1, AppendProperties
  <2>. HIDE DEF r
  <2>3. \A k \in 1..(n + 1) : k = n + 1 \/ k \in 1..n
    OBVIOUS
  <2>4. t \in [1..(n + 1) -> Seq(T)]
    BY <1>1
  <2>5. t \in Seq(Seq(T)) /\ Len(t) = n + 1
    BY <2>4
  <2>6. \A k \in 1..Len(t) : t[k] = r[k]
    BY <2>2, <2>3, <2>5
  <2>7. t = r
    BY <2>2, <2>5, <2>6, SeqEqual
  <2>. QED BY <2>7 DEF r
<1>6. SeqOps!FlattenSeq(Append(s, t[n + 1])) = SeqOps!FlattenSeq(s) \o t[n + 1]
  BY <1>1, <1>3, <1>4, FlattenAppend
<1>7. SeqOps!FlattenSeq(s) \in Seq(T)
  BY <1>3, FlattenType
<1>. QED BY <1>1, <1>5, <1>4, <1>6, <1>7

-----------------------------------------------------------------------------
(* The conversation and the items grow by a step at a time.                *)

\* The items and the messages, by steps.
Pieces == [ k \in DOMAIN history |-> ItemsOf(k) ]

Saids == [ k \in DOMAIN history |-> SpokenAt(k) ]

\* The items are those of the steps.
ItemsAreOfSteps ==
  /\ history \in Seq({ history[k] : k \in DOMAIN history })
  /\ \A k \in DOMAIN history : IsStep(history[k])
  /\ items = SeqOps!FlattenSeq(Pieces)

\* One more step.
Grows(entry) ==
  /\ IsStep(entry)
  /\ history' = Append(history, entry)
  /\ items' = items \o ItemsIn(entry, Len(history) + 1)

\* The history gets longer by the step.
LEMMA GrowsHistory ==
  ASSUME ItemsAreOfSteps, NEW entry, Grows(entry), NEW n, n = Len(history) + 1
  PROVE  /\ n \in Nat \ {0} /\ Len(history) \in Nat /\ DOMAIN history = 1..Len(history)
         /\ Len(history') = n /\ DOMAIN history' = 1..n /\ history'[n] = entry
         /\ \A k \in 1..Len(history) : k \in 1..n /\ k # n /\ history'[k] = history[k]
         /\ \A k \in 1..n : k = n \/ k \in 1..Len(history)
         /\ (history \in Seq({ history[k] : k \in DOMAIN history }))'
<1>. DEFINE E == { history[k] : k \in DOMAIN history } \cup {entry}
<1>1. history \in Seq(E) /\ entry \in E
  <2>1. { history[k] : k \in DOMAIN history } \subseteq E /\ entry \in E
    OBVIOUS
  <2>2. history \in Seq({ history[k] : k \in DOMAIN history })
    BY DEF ItemsAreOfSteps
  <2>. HIDE DEF E
  <2>. QED BY <2>1, <2>2, SeqMonotonic
<1>. HIDE DEF E
<1>2. history' = Append(history, entry)
  BY DEF Grows
<1>3. ASSUME NEW s \in Seq(E), NEW x \in E
      PROVE  /\ Len(s) \in Nat /\ DOMAIN s = 1..Len(s)
             /\ Len(Append(s, x)) = Len(s) + 1 /\ Append(s, x)[Len(s) + 1] = x
             /\ DOMAIN Append(s, x) = 1..(Len(s) + 1)
             /\ \A k \in 1..Len(s) : Append(s, x)[k] = s[k]
             /\ Append(s, x) \in Seq(E)
  OBVIOUS
<1>. DEFINE h == history'
<1>4. ASSUME NEW s \in Seq(E) PROVE s \in Seq({ s[k] : k \in DOMAIN s })
  OBVIOUS
<1>5. h \in Seq(E) /\ h \in Seq({ h[k] : k \in DOMAIN h })
  <2>1. h \in Seq(E)
    BY <1>1, <1>2, <1>3
  <2>. HIDE DEF h
  <2>. QED BY <1>4, <2>1
<1>6. /\ Len(history) \in Nat /\ DOMAIN history = 1..Len(history)
      /\ Len(h) = Len(history) + 1 /\ h[Len(history) + 1] = entry
      /\ DOMAIN h = 1..(Len(history) + 1)
      /\ \A k \in 1..Len(history) : h[k] = history[k]
  BY <1>1, <1>2, <1>3
<1>7. /\ n \in Nat \ {0}
      /\ \A k \in 1..Len(history) : k \in 1..n /\ k # n
      /\ \A k \in 1..n : k = n \/ k \in 1..Len(history)
  BY <1>6
<1>. QED BY <1>5, <1>6, <1>7

\* The earlier steps stay as they were.
LEMMA GrowsParts ==
  ASSUME ItemsAreOfSteps, NEW entry, Grows(entry), NEW n, n = Len(history) + 1
  PROVE  /\ \A k \in 1..Len(history) : ItemsOf(k)' = ItemsOf(k) /\ SpokenAt(k)' = SpokenAt(k)
         /\ ItemsOf(n)' = ItemsIn(entry, n) /\ SpokenAt(n)' = SpokenIn(entry)
         /\ \A k \in 1..n : IsStep(history'[k])
<1>1. /\ history'[n] = entry /\ \A k \in 1..Len(history) : history'[k] = history[k]
      /\ \A k \in 1..n : k = n \/ k \in 1..Len(history)
      /\ DOMAIN history = 1..Len(history)
  BY GrowsHistory
<1>2. ASSUME NEW k \in 1..Len(history) PROVE ItemsOf(k)' = ItemsOf(k) /\ SpokenAt(k)' = SpokenAt(k)
  <2>1. history'[k] = history[k]
    BY <1>1
  <2>. QED BY <2>1 DEF ItemsOf, SpokenAt
<1>3. ItemsOf(n)' = ItemsIn(entry, n)
  BY <1>1 DEF ItemsOf, ItemsIn
<1>4. SpokenAt(n)' = SpokenIn(entry)
  BY <1>1 DEF SpokenAt, SpokenIn
<1>5. IsStep(entry) /\ \A k \in 1..Len(history) : IsStep(history[k])
  BY <1>1 DEF Grows, ItemsAreOfSteps
<1>. QED BY <1>1, <1>2, <1>3, <1>4, <1>5

\* The items of a step are a sequence, and so is what it says.
LEMMA PartsAreSequences ==
  ASSUME NEW entry, IsStep(entry), NEW n \in Nat \ {0}
  PROVE  (\E S : ItemsIn(entry, n) \in Seq(S)) /\ (\E S : SpokenIn(entry) \in Seq(S))
<1>1. \E S : ItemsIn(entry, n) \in Seq(S)
  BY StepItems
<1>2. CASE entry.by = "upstream"
  <2>1. SpokenIn(entry) = <<>> \/ \E m : SpokenIn(entry) = <<m>>
    BY <1>2 DEF SpokenIn, Spoken
  <2>2. <<>> \in Seq({1}) /\ \A m : <<m>> \in Seq({m})
    OBVIOUS
  <2>. QED BY <1>1, <2>1, <2>2
<1>3. CASE entry.by = "client"
  <2>1. SpokenIn(entry) = InputItemsToChatMessages(<<entry.item>>)
    BY <1>3 DEF SpokenIn
  <2>2. Len(<<entry.item>>) \in Nat
    OBVIOUS
  <2>. QED BY <1>1, <2>1, <2>2, SpeaksMessages
<1>. QED BY <1>2, <1>3 DEF IsStep

\* Items and conversation get what the step brings, at their end.
LEMMA GrowsItems ==
  ASSUME ItemsAreOfSteps, NEW entry, Grows(entry), NEW n, n = Len(history) + 1
  PROVE  /\ ItemsAreOfSteps'
         /\ \E T : items \in Seq(T) /\ ItemsIn(entry, n) \in Seq(T)
         /\ \E T : /\ Conversation \in Seq(T) /\ SpokenIn(entry) \in Seq(T)
                   /\ Conversation' = Conversation \o SpokenIn(entry)
<1>. DEFINE L == Len(history)
<1>1. /\ n \in Nat \ {0} /\ L \in Nat /\ n = L + 1 /\ DOMAIN history = 1..L
      /\ DOMAIN history' = 1..n /\ history'[n] = entry
      /\ \A k \in 1..L : k \in 1..n /\ k # n /\ history'[k] = history[k]
      /\ \A k \in 1..n : k = n \/ k \in 1..L
      /\ (history \in Seq({ history[k] : k \in DOMAIN history }))'
  BY GrowsHistory
<1>2. /\ \A k \in 1..L : ItemsOf(k)' = ItemsOf(k) /\ SpokenAt(k)' = SpokenAt(k)
      /\ ItemsOf(n)' = ItemsIn(entry, n) /\ SpokenAt(n)' = SpokenIn(entry)
      /\ \A k \in 1..n : IsStep(history'[k])
  BY GrowsParts
<1>3. IsStep(entry) /\ \A k \in 1..L : IsStep(history[k]) /\ k \in Nat \ {0}
  BY <1>1 DEF Grows, ItemsAreOfSteps
<1>4. \A k \in 1..L : ItemsOf(k) = ItemsIn(history[k], k) /\ SpokenAt(k) = SpokenIn(history[k])
  BY DEF ItemsOf, ItemsIn, SpokenAt, SpokenIn
<1>. DEFINE p == Pieces
            q == Pieces'
            u == Saids
            v == Saids'
<1>5. /\ p = [ k \in 1..L |-> ItemsOf(k) ] /\ q = [ k \in 1..n |-> ItemsOf(k)' ]
      /\ u = [ k \in 1..L |-> SpokenAt(k) ] /\ v = [ k \in 1..n |-> SpokenAt(k)' ]
  BY <1>1 DEF Pieces, Saids
<1>6. /\ p = [ k \in 1..L |-> p[k] ] /\ q = [ k \in 1..(L + 1) |-> q[k] ]
      /\ u = [ k \in 1..L |-> u[k] ] /\ v = [ k \in 1..(L + 1) |-> v[k] ]
      /\ \A k \in 1..L : q[k] = p[k] /\ v[k] = u[k]
      /\ q[n] = ItemsIn(entry, n) /\ v[n] = SpokenIn(entry)
  <2>1. n \in 1..n /\ 1..n = 1..(L + 1)
    BY <1>1
  <2>. HIDE DEF p, q, u, v, L
  <2>2. /\ \A k \in 1..L : p[k] = ItemsOf(k) /\ u[k] = SpokenAt(k)
        /\ \A k \in 1..n : q[k] = ItemsOf(k)' /\ v[k] = SpokenAt(k)'
    BY <1>5
  <2>3. \A k \in 1..L : q[k] = p[k] /\ v[k] = u[k]
    BY <1>1, <1>2, <2>2
  <2>4. p = [ k \in 1..L |-> p[k] ] /\ u = [ k \in 1..L |-> u[k] ]
    BY <1>5
  <2>5. q = [ k \in 1..n |-> q[k] ] /\ v = [ k \in 1..n |-> v[k] ]
    BY <1>5
  <2>6. q[n] = ItemsIn(entry, n) /\ v[n] = SpokenIn(entry)
    BY <1>2, <2>1, <2>2
  <2>. QED BY <2>1, <2>3, <2>4, <2>5, <2>6
<1>7. \A k \in 1..(L + 1) : (\E S : q[k] \in Seq(S)) /\ (\E S : v[k] \in Seq(S))
  <2>1. ASSUME NEW k \in 1..L PROVE (\E S : q[k] \in Seq(S)) /\ (\E S : v[k] \in Seq(S))
    <3>1. q[k] = ItemsIn(history[k], k) /\ v[k] = SpokenIn(history[k])
      <4>1. p[k] = ItemsOf(k) /\ u[k] = SpokenAt(k)
        BY <1>5
      <4>. QED BY <1>4, <1>6, <4>1
    <3>. QED BY <1>3, <3>1, PartsAreSequences
  <2>2. (\E S : q[n] \in Seq(S)) /\ (\E S : v[n] \in Seq(S))
    <3>1. (\E S : ItemsIn(entry, n) \in Seq(S)) /\ (\E S : SpokenIn(entry) \in Seq(S))
      BY <1>1, <1>3, PartsAreSequences
    <3>. HIDE DEF q, v
    <3>. QED BY <1>6, <3>1
  <2>. QED BY <1>1, <2>1, <2>2
<1>. HIDE DEF p, q, u, v, L
<1>8. /\ p = [ k \in 1..L |-> p[k] ] /\ q = [ k \in 1..(L + 1) |-> q[k] ]
      /\ \A k \in 1..L : q[k] = p[k]
      /\ \A k \in 1..(L + 1) : \E S : q[k] \in Seq(S)
  BY <1>6, <1>7
<1>9. /\ u = [ k \in 1..L |-> u[k] ] /\ v = [ k \in 1..(L + 1) |-> v[k] ]
      /\ \A k \in 1..L : v[k] = u[k]
      /\ \A k \in 1..(L + 1) : \E S : v[k] \in Seq(S)
  BY <1>6, <1>7
<1>10. \E T : /\ SeqOps!FlattenSeq(p) \in Seq(T) /\ q[L + 1] \in Seq(T)
              /\ SeqOps!FlattenSeq(q) = SeqOps!FlattenSeq(p) \o q[L + 1]
  BY <1>1, <1>8, FlattenMore
<1>11. \E T : /\ SeqOps!FlattenSeq(u) \in Seq(T) /\ v[L + 1] \in Seq(T)
              /\ SeqOps!FlattenSeq(v) = SeqOps!FlattenSeq(u) \o v[L + 1]
  BY <1>1, <1>9, FlattenMore
<1>12. items = SeqOps!FlattenSeq(p) /\ items' = items \o ItemsIn(entry, n)
  BY <1>1 DEF ItemsAreOfSteps, Grows, p, L
<1>13. items' = SeqOps!FlattenSeq(q)
  BY <1>1, <1>6, <1>10, <1>12
<1>14. ItemsAreOfSteps'
  BY <1>1, <1>2, <1>13 DEF ItemsAreOfSteps, q
<1>15. Conversation = SeqOps!FlattenSeq(u) /\ Conversation' = SeqOps!FlattenSeq(v)
  BY DEF Conversation, Saids, u, v
<1>. QED BY <1>1, <1>6, <1>10, <1>11, <1>12, <1>14, <1>15

\* The items before a step.
Before(n) == [ k \in 1..(n - 1) |-> ItemsOf(k) ]

\* A step comes after the items so far, and nothing changes before the others.
LEMMA BeforeStep ==
  ASSUME ItemsAreOfSteps, NEW entry, Grows(entry), NEW n, n = Len(history) + 1
  PROVE  /\ \A m \in 1..Len(history) : ItemBefore(m)' = ItemBefore(m)
         /\ ItemBefore(n)' = IF items = <<>> THEN <<>> ELSE <<items[Len(items)]>>
<1>. DEFINE L == Len(history)
            last(b) == IF b = <<>> THEN <<>> ELSE <<b[Len(b)]>>
<1>1. L \in Nat /\ DOMAIN history = 1..L
  BY GrowsHistory
<1>2. \A k \in 1..L : ItemsOf(k)' = ItemsOf(k)
  BY GrowsParts
<1>3. ASSUME NEW m \in 1..n PROVE Before(m)' = Before(m)
  <2>1. \A k \in 1..(m - 1) : k \in 1..L
    BY <1>1
  <2>2. \A k \in 1..(m - 1) : ItemsOf(k)' = ItemsOf(k)
    BY <1>2, <2>1
  <2>. QED BY <2>2 DEF Before
<1>4. ASSUME NEW m
      PROVE  /\ ItemBefore(m) = last(SeqOps!FlattenSeq(Before(m)))
             /\ ItemBefore(m)' = last(SeqOps!FlattenSeq(Before(m)'))
  BY DEF ItemBefore, Before
<1>5. \A m \in 1..L : m \in 1..n
  BY <1>1
<1>6. Before(n) = Pieces
  <2>1. n - 1 = L
    BY <1>1
  <2>. QED BY <1>1, <2>1 DEF Before, Pieces
<1>7. ItemBefore(n)' = last(items)
  <2>1. n \in 1..n
    BY <1>1
  <2>2. Before(n)' = Pieces
    BY <1>3, <1>6, <2>1
  <2>3. items = SeqOps!FlattenSeq(Pieces)
    BY DEF ItemsAreOfSteps
  <2>4. ItemBefore(n)' = last(SeqOps!FlattenSeq(Before(n)'))
    BY <1>4
  <2>. HIDE DEF last
  <2>. QED BY <2>2, <2>3, <2>4
<1>8. ASSUME NEW m \in 1..L PROVE ItemBefore(m)' = ItemBefore(m)
  <2>1. Before(m)' = Before(m)
    BY <1>3, <1>5
  <2>. HIDE DEF last
  <2>. QED BY <1>4, <2>1
<1>. QED BY <1>7, <1>8

\* What comes before calls alone does not take them.
LastIsApart(turnsKept) ==
  items # <<>> =>
    \/ ~(IsAssistant(items[Len(items)]) \/ IsToolCallItem(items[Len(items)]))
    \/ turnsKept /\ items[Len(items)].turn # 0

\* If the properties hold a conversation to account, they do so before its last step
\* too, and that step is kept apart.
LEMMA ReplayableBefore ==
  ASSUME ItemsAreOfSteps, NEW entry, Grows(entry), NEW turnsKept \in BOOLEAN, Replayable(turnsKept)',
         NEW n, n = Len(history) + 1, NEW new, new = ItemsIn(entry, n)
  PROVE  /\ Replayable(turnsKept)
         /\ entry.by = "upstream" => ~(entry.textFirst /\ entry.answer.calls # <<>>)
         /\ new # <<>> /\ IsToolCallItem(new[1]) => LastIsApart(turnsKept)
<1>. DEFINE L == Len(history)
<1>1. /\ n \in Nat \ {0} /\ L \in Nat /\ DOMAIN history = 1..L
      /\ DOMAIN history' = 1..n /\ history'[n] = entry
      /\ \A k \in 1..L : k \in 1..n /\ history'[k] = history[k]
  BY GrowsHistory
<1>2. /\ \A k \in 1..L : ItemsOf(k)' = ItemsOf(k)
      /\ ItemsOf(n)' = ItemsIn(entry, n)
  BY GrowsParts
<1>3. /\ \A m \in 1..L : ItemBefore(m)' = ItemBefore(m)
      /\ ItemBefore(n)' = IF items = <<>> THEN <<>> ELSE <<items[Len(items)]>>
  BY BeforeStep
<1>4. \A m \in 1..n : ~Torn(m)' /\ Apart(m, turnsKept)'
  BY <1>1 DEF Replayable
<1>5. ASSUME NEW m \in 1..L PROVE ~Torn(m) /\ Apart(m, turnsKept)
  <2>1. history'[m] = history[m] /\ ItemsOf(m)' = ItemsOf(m) /\ ItemBefore(m)' = ItemBefore(m)
        /\ ~Torn(m)' /\ Apart(m, turnsKept)'
    BY <1>1, <1>2, <1>3, <1>4
  <2>2. ~Torn(m)
    BY <2>1 DEF Torn, IsAnswer
  <2>3. CallsOnly(m)' <=> CallsOnly(m)
    BY <2>1 DEF CallsOnly, IsAnswer
  <2>4. Apart(m, turnsKept)
    BY <2>1, <2>3 DEF Apart
  <2>. QED BY <2>2, <2>4
<1>6. Replayable(turnsKept)
  BY <1>1, <1>5 DEF Replayable
<1>7. n \in 1..n
  BY <1>1
<1>8. ASSUME entry.by = "upstream" PROVE ~(entry.textFirst /\ entry.answer.calls # <<>>)
  <2>1. ~Torn(n)' /\ history'[n] = entry
    BY <1>1, <1>4, <1>7
  <2>. QED BY <1>8, <2>1 DEF Torn, IsAnswer
<1>9. ASSUME new # <<>>, IsToolCallItem(new[1]), items # <<>>
      PROVE  \/ ~(IsAssistant(items[Len(items)]) \/ IsToolCallItem(items[Len(items)]))
             \/ turnsKept /\ items[Len(items)].turn # 0
  <2>1. Apart(n, turnsKept)' /\ history'[n] = entry
    BY <1>1, <1>4, <1>7
  <2>2. entry.by = "upstream"
    <3>1. \A k \in DOMAIN new : IsToolCallItem(new[k]) => entry.by = "upstream"
      BY <1>1, StepItems DEF Grows
    <3>2. 1 \in DOMAIN new
      <4>1. PICK S : new \in Seq(S)
        BY <1>1, StepItems DEF Grows
      <4>. QED BY <1>9, <4>1
    <3>. QED BY <1>9, <3>1, <3>2
  <2>3. CallsOnly(n)'
    <3>1. ItemsOf(n)' = new
      BY <1>2
    <3>. QED BY <1>9, <2>1, <2>2, <3>1 DEF CallsOnly, IsAnswer
  <2>4. ItemBefore(n)' = <<items[Len(items)]>>
    BY <1>3, <1>9
  <2>5. 1 \in DOMAIN <<items[Len(items)]>> /\ <<items[Len(items)]>>[1] = items[Len(items)]
    OBVIOUS
  <2>6. \A k \in DOMAIN ItemBefore(n)' :
          ~(IsAssistant(ItemBefore(n)'[k]) \/ IsToolCallItem(ItemBefore(n)'[k]))
            \/ (turnsKept /\ ItemBefore(n)'[k].turn # 0)
    BY <2>1, <2>3 DEF Apart
  <2>. QED BY <2>4, <2>5, <2>6
<1>. QED BY <1>6, <1>8, <1>9 DEF LastIsApart

\* The items that an item takes with it join it.
LEMMA TakenJoin ==
  ASSUME NEW list, Len(list) \in Nat, NEW i \in 1..Len(list), IsToolCallItem(list[i]) \/ IsAssistant(list[i]),
         NEW k \in (i + 1)..(After(list, i) - 1)
  PROVE  Joins(list[i], list[k])
<1>1. After(list, i) = AfterCalls(list, i) /\ After(list, i) \in (i + 1)..(Len(list) + 1)
  BY AfterRange DEF After
<1>2. k \in (i + 1)..(Len(list) + 1) /\ ~(After(list, i) <= k)
  BY <1>1
<1>3. k \notin Ends(list, i)
  BY <1>1, <1>2, AfterCallsIsLeast
<1>. QED BY <1>2, <1>3 DEF Ends

\* An item that takes all that follow is the last, or the last is a call it takes.
LEMMA LastTaken ==
  ASSUME NEW list, Len(list) \in Nat, NEW i \in 1..Len(list), IsToolCallItem(list[i]) \/ IsAssistant(list[i]),
         After(list, i) = Len(list) + 1
  PROVE  /\ i = Len(list) \/ Joins(list[i], list[i + 1])
         /\ IsToolCallItem(list[Len(list)]) \/ IsAssistant(list[Len(list)])
<1>1. CASE i = Len(list)
  BY <1>1
<1>2. CASE i # Len(list)
  <2>1. i + 1 \in (i + 1)..(After(list, i) - 1) /\ Len(list) \in (i + 1)..(After(list, i) - 1)
    BY <1>2
  <2>2. Joins(list[i], list[i + 1]) /\ Joins(list[i], list[Len(list)])
    BY <2>1, TakenJoin
  <2>. QED BY <2>2 DEF Joins
<1>. QED BY <1>1, <1>2

\* Stored items of one step take none of a later one.
LEMMA StoredKeeps ==
  ASSUME NEW S, NEW list \in Seq(S), NEW new, NEW L \in Nat, TurnsUpTo(list, L), NoCallAfterLoneText(list),
         new # <<>> /\ IsToolCallItem(new[1]) => new[1].turn = L + 1,
         new # <<>> /\ IsToolCallItem(new[1]) /\ list # <<>> =>
            \/ ~(IsAssistant(list[Len(list)]) \/ IsToolCallItem(list[Len(list)]))
            \/ list[Len(list)].turn # 0,
         NEW i \in 1..Len(list)
  PROVE  KeepsTo(list, new, i)
<1>. SUFFICES ASSUME new # <<>>, IsToolCallItem(list[i]) \/ IsAssistant(list[i]),
                     After(list, i) = Len(list) + 1, Joins(list[i], new[1])
              PROVE  FALSE
  BY DEF KeepsTo
<1>1. IsToolCallItem(new[1]) /\ new[1].turn = L + 1
  BY DEF Joins
<1>2. /\ Len(list) \in Nat /\ i \in DOMAIN list /\ list # <<>>
      /\ i # Len(list) => i \in 1..(Len(list) - 1)
  OBVIOUS
<1>3. /\ i = Len(list) \/ Joins(list[i], list[i + 1])
      /\ IsToolCallItem(list[Len(list)]) \/ IsAssistant(list[Len(list)])
  BY <1>2, LastTaken
<1>4. list[i].turn = 0
  <2>1. list[i].turn \in 0..L
    <3>1. \A t \in 1..L : t \in 0..L
      OBVIOUS
    <3>. QED BY <1>2, <3>1 DEF TurnsUpTo
  <2>2. list[i].turn # L + 1 /\ L + 1 # 0
    BY <2>1
  <2>. QED BY <1>1, <2>2 DEF Joins
<1>5. ~IsToolCallItem(list[i])
  <2>1. 0 \notin 1..L
    OBVIOUS
  <2>. QED BY <1>2, <1>4, <2>1 DEF TurnsUpTo
<1>6. i = Len(list)
  <2>1. ASSUME i # Len(list) PROVE FALSE
    <3>1. i \in 1..(Len(list) - 1) /\ IsToolCallItem(list[i + 1])
      BY <1>2, <1>3, <2>1 DEF Joins
    <3>. QED BY <1>4, <1>5, <3>1 DEF NoCallAfterLoneText
  <2>. QED BY <2>1
<1>. QED BY <1>1, <1>2, <1>3, <1>4, <1>6

\* An item shown is of the kind it was.
LEMMA PublicKinds ==
  ASSUME NEW x, IsItem(x)
  PROVE  /\ IsToolCallItem(PublicItem(x)) <=> IsToolCallItem(x)
         /\ IsAssistant(PublicItem(x)) <=> IsAssistant(x)
<1>1. CASE "turn" \in DOMAIN x
  <2>1. PublicItem(x) = [ f \in DOMAIN x |-> IF f \in {"turn", "reasoning"} THEN PublicItem(x)[f] ELSE x[f] ]
    BY <1>1 DEF PublicItem
  <2>2. \A f \in DOMAIN x : f \notin {"turn", "reasoning"} => PublicItem(x)[f] = x[f]
    BY <2>1
  <2>3. PublicItem(x).type = x.type
    BY <2>2 DEF IsItem
  <2>4. x.type = "message" => PublicItem(x).role = x.role
    BY <2>2 DEF IsItem
  <2>. QED BY <2>3, <2>4 DEF IsToolCallItem, IsAssistant
<1>2. CASE "turn" \notin DOMAIN x
  BY <1>2 DEF PublicItem
<1>. QED BY <1>1, <1>2

\* Items that a client was shown take none of a later step, unless they come right
\* before calls alone.
LEMMA PublicKeeps ==
  ASSUME NEW S, NEW list \in Seq(S), NEW new \in Seq(S),
         \A k \in DOMAIN list : IsItem(list[k]), \A k \in DOMAIN new : IsItem(new[k]),
         new # <<>> /\ IsToolCallItem(new[1]) /\ list # <<>> =>
            ~(IsAssistant(list[Len(list)]) \/ IsToolCallItem(list[Len(list)])),
         NEW i \in 1..Len(PublicItems(list))
  PROVE  KeepsTo(PublicItems(list), PublicItems(new), i)
<1>. DEFINE p == PublicItems(list)
            q == PublicItems(new)
<1>1. ASSUME NEW s \in Seq(S)
      PROVE  Len(PublicItems(s)) = Len(s) /\ Len(s) \in Nat /\ \A k \in DOMAIN s : PublicItems(s)[k] = PublicItem(s[k])
  BY DEF PublicItems
<1>. SUFFICES ASSUME q # <<>>, IsToolCallItem(p[i]) \/ IsAssistant(p[i]),
                     After(p, i) = Len(p) + 1, Joins(p[i], q[1])
              PROVE  FALSE
  BY DEF KeepsTo
<1>2. new # <<>> /\ 1 \in DOMAIN new
  <2>1. new = <<>> => q = <<>>
    BY DEF PublicItems
  <2>2. new # <<>> => 1 \in DOMAIN new
    OBVIOUS
  <2>. QED BY <2>1, <2>2
<1>3. IsToolCallItem(new[1])
  <2>1. IsToolCallItem(q[1]) /\ q[1] = PublicItem(new[1])
    BY <1>1, <1>2 DEF Joins
  <2>. QED BY <1>2, <2>1, PublicKinds
<1>4. IsToolCallItem(p[Len(p)]) \/ IsAssistant(p[Len(p)])
  <2>1. Len(p) \in Nat /\ i \in 1..Len(p)
    BY <1>1
  <2>. HIDE DEF p
  <2>. QED BY <2>1, LastTaken
<1>5. list # <<>> /\ Len(list) \in DOMAIN list /\ Len(p) = Len(list)
  <2>1. Len(p) = Len(list) /\ Len(list) # 0
    BY <1>1
  <2>. QED BY <2>1
<1>6. p[Len(p)] = PublicItem(list[Len(list)])
  BY <1>1, <1>5
<1>7. IsToolCallItem(list[Len(list)]) \/ IsAssistant(list[Len(list)])
  BY <1>4, <1>5, <1>6, PublicKinds
<1>. QED BY <1>2, <1>3, <1>5, <1>7

\* The items of the conversation so far say it, stored or shown, and are such that
\* they keep to themselves when a step is added.
ReplayInv ==
  /\ ItemsAreOfSteps
  /\ \A k \in DOMAIN items : IsItem(items[k])
  /\ TurnsUpTo(items, Len(history))
  /\ Replayable(TRUE) => NoCallAfterLoneText(items)
  /\ StoredReplayIsConversation
  /\ PublicReplayIsConversation

\* One list after the other.
LEMMA TurnsJoin ==
  ASSUME NEW S, NEW a \in Seq(S), NEW b \in Seq(S), NEW L \in Nat,
         \A k \in DOMAIN a : IsItem(a[k]), \A k \in DOMAIN b : IsItem(b[k]),
         TurnsUpTo(a, L), TurnsUpTo(b, L + 1)
  PROVE  /\ \A k \in DOMAIN (a \o b) : IsItem((a \o b)[k])
         /\ TurnsUpTo(a \o b, L + 1)
<1>. DEFINE c == a \o b
<1>1. ASSUME NEW k \in DOMAIN c
      PROVE  (k \in DOMAIN a /\ c[k] = a[k]) \/ (k - Len(a) \in DOMAIN b /\ c[k] = b[k - Len(a)])
  OBVIOUS
<1>. HIDE DEF c
<1>2. \A t \in 1..L : t \in 1..(L + 1)
  OBVIOUS
<1>3. \A t \in 0..L : t \in 0..(L + 1)
  OBVIOUS
<1>4. \A k \in DOMAIN c : IsItem(c[k])
  BY <1>1
<1>5. TurnsUpTo(c, L + 1)
  BY <1>1, <1>2, <1>3 DEF TurnsUpTo
<1>. QED BY <1>4, <1>5 DEF c

\* The same of texts without calls.
LEMMA LoneTextJoin ==
  ASSUME NEW S, NEW a \in Seq(S), NEW b \in Seq(S), NoCallAfterLoneText(a), NoCallAfterLoneText(b),
         b # <<>> /\ IsToolCallItem(b[1]) /\ a # <<>> =>
            ~(IsAssistant(a[Len(a)]) /\ a[Len(a)].turn = 0)
  PROVE  NoCallAfterLoneText(a \o b)
<1>. DEFINE c == a \o b
<1>1. ASSUME NEW k \in 1..(Len(c) - 1)
      PROVE  \/ k \in 1..(Len(a) - 1) /\ c[k] = a[k] /\ c[k + 1] = a[k + 1]
             \/ k = Len(a) /\ a # <<>> /\ b # <<>> /\ c[k] = a[Len(a)] /\ c[k + 1] = b[1]
             \/ k - Len(a) \in 1..(Len(b) - 1) /\ c[k] = b[k - Len(a)] /\ c[k + 1] = b[(k - Len(a)) + 1]
  <2>1. Len(c) = Len(a) + Len(b) /\ Len(a) \in Nat /\ Len(b) \in Nat
    OBVIOUS
  <2>2. CASE k < Len(a)
    BY <2>1, <2>2
  <2>3. CASE k = Len(a)
    BY <2>1, <2>3
  <2>4. CASE k > Len(a)
    <3>1. k - Len(a) \in 1..(Len(b) - 1)
      BY <2>1, <2>4
    <3>2. c[k] = b[k - Len(a)]
      BY <2>1, <2>4
    <3>3. c[k + 1] = b[(k - Len(a)) + 1]
      BY <2>1, <2>4
    <3>. QED BY <3>1, <3>2, <3>3
  <2>. QED BY <2>1, <2>2, <2>3, <2>4
<1>. HIDE DEF c
<1>2. ASSUME NEW k \in 1..(Len(c) - 1), IsAssistant(c[k]), c[k].turn = 0
      PROVE  ~IsToolCallItem(c[k + 1])
  <2>1. CASE k \in 1..(Len(a) - 1) /\ c[k] = a[k] /\ c[k + 1] = a[k + 1]
    BY <1>2, <2>1 DEF NoCallAfterLoneText
  <2>2. CASE k = Len(a) /\ a # <<>> /\ b # <<>> /\ c[k] = a[Len(a)] /\ c[k + 1] = b[1]
    BY <1>2, <2>2
  <2>3. CASE k - Len(a) \in 1..(Len(b) - 1) /\ c[k] = b[k - Len(a)] /\ c[k + 1] = b[(k - Len(a)) + 1]
    BY <1>2, <2>3 DEF NoCallAfterLoneText
  <2>. QED BY <1>1, <2>1, <2>2, <2>3
<1>3. NoCallAfterLoneText(c)
  BY <1>2 DEF NoCallAfterLoneText
<1>. QED BY <1>3 DEF c

\* A step keeps the invariant.
LEMMA GrowsReplay ==
  ASSUME ReplayInv, NEW entry, Grows(entry), NEW n, n = Len(history) + 1
  PROVE  ReplayInv'
<1>. DEFINE new == ItemsIn(entry, n)
<1>1. ItemsAreOfSteps /\ IsStep(entry)
  BY DEF ReplayInv, Grows
<1>2. n \in Nat \ {0} /\ Len(history) \in Nat /\ Len(history') = n
  BY <1>1, GrowsHistory
<1>3. /\ ItemsAreOfSteps'
      /\ \E T : items \in Seq(T) /\ new \in Seq(T)
      /\ \E T : /\ Conversation \in Seq(T) /\ SpokenIn(entry) \in Seq(T)
                /\ Conversation' = Conversation \o SpokenIn(entry)
  BY <1>1, GrowsItems
<1>4. PICK S : items \in Seq(S) /\ new \in Seq(S)
  BY <1>3
<1>5. /\ TurnsUpTo(new, n) /\ NoCallAfterLoneText(new)
      /\ \A k \in DOMAIN new : IsItem(new[k])
      /\ new # <<>> /\ IsToolCallItem(new[1]) => new[1].turn = n
  <2>1. /\ TurnsUpTo(new, n) /\ NoCallAfterLoneText(new)
        /\ \A k \in DOMAIN new : IsItem(new[k])
        /\ \A k \in DOMAIN new : IsToolCallItem(new[k]) => new[k].turn = n
    BY <1>1, <1>2, StepItems
  <2>2. new # <<>> => 1 \in DOMAIN new
    <3>. HIDE DEF new
    <3>. QED BY <1>4
  <2>. HIDE DEF new
  <2>. QED BY <2>1, <2>2
<1>6. items' = items \o new
  BY DEF Grows
<1>7. ASSUME NEW turnsKept \in BOOLEAN, Replayable(turnsKept)'
      PROVE  /\ Replayable(turnsKept)
             /\ entry.by = "upstream" => ~(entry.textFirst /\ entry.answer.calls # <<>>)
             /\ new # <<>> /\ IsToolCallItem(new[1]) => LastIsApart(turnsKept)
  <2>1. \A x : x = new =>
          /\ Replayable(turnsKept)
          /\ entry.by = "upstream" => ~(entry.textFirst /\ entry.answer.calls # <<>>)
          /\ x # <<>> /\ IsToolCallItem(x[1]) => LastIsApart(turnsKept)
    BY <1>1, <1>7, ReplayableBefore
  <2>. HIDE DEF new
  <2>. QED BY <2>1
<1>8. (entry.by = "upstream" => ~(entry.textFirst /\ entry.answer.calls # <<>>))
      => (/\ InputItemsToChatMessages(new) = SpokenIn(entry)
          /\ InputItemsToChatMessages(PublicItems(new)) = WithoutReasoning(SpokenIn(entry)))
  BY <1>1, StepSays
<1>. HIDE DEF new
<1>9. (\A k \in DOMAIN items : IsItem(items[k]))' /\ TurnsUpTo(items, Len(history))'
  <2>1. \A k \in DOMAIN (items \o new) : IsItem((items \o new)[k])
    BY <1>2, <1>4, <1>5, TurnsJoin DEF ReplayInv
  <2>2. TurnsUpTo(items \o new, n)
    BY <1>2, <1>4, <1>5, TurnsJoin DEF ReplayInv
  <2>. QED BY <1>2, <1>6, <2>1, <2>2
<1>10. ASSUME Replayable(TRUE)'
       PROVE  /\ NoCallAfterLoneText(items)'
              /\ InputItemsToChatMessages(items)' = Conversation'
  <2>1. NoCallAfterLoneText(items) /\ InputItemsToChatMessages(items) = Conversation
    BY <1>7, <1>10 DEF ReplayInv, StoredReplayIsConversation
  <2>2. new # <<>> /\ IsToolCallItem(new[1]) /\ items # <<>> =>
            \/ ~(IsAssistant(items[Len(items)]) \/ IsToolCallItem(items[Len(items)]))
            \/ items[Len(items)].turn # 0
    BY <1>7, <1>10 DEF LastIsApart
  <2>3. NoCallAfterLoneText(items \o new)
    BY <1>4, <1>5, <2>1, <2>2, LoneTextJoin
  <2>4. \A i \in 1..Len(items) : KeepsTo(items, new, i)
    BY <1>2, <1>4, <1>5, <2>1, <2>2, StoredKeeps DEF ReplayInv
  <2>5. InputItemsToChatMessages(items \o new) =
          InputItemsToChatMessages(items) \o InputItemsToChatMessages(new)
    BY <1>4, <2>4, ReadingSplits
  <2>6. InputItemsToChatMessages(new) = SpokenIn(entry)
    BY <1>7, <1>8, <1>10
  <2>. QED BY <1>3, <1>6, <2>1, <2>3, <2>5, <2>6
<1>11. ASSUME Replayable(FALSE)'
       PROVE  InputItemsToChatMessages(PublicItems(items))' = WithoutReasoning(Conversation)'
  <2>1. InputItemsToChatMessages(PublicItems(items)) = WithoutReasoning(Conversation)
    BY <1>7, <1>11 DEF ReplayInv, PublicReplayIsConversation
  <2>2. new # <<>> /\ IsToolCallItem(new[1]) /\ items # <<>> =>
            ~(IsAssistant(items[Len(items)]) \/ IsToolCallItem(items[Len(items)]))
    BY <1>7, <1>11 DEF LastIsApart
  <2>. DEFINE a == PublicItems(items)
              b == PublicItems(new)
              P == { PublicItem(x) : x \in S }
  <2>3. \A i \in 1..Len(a) : KeepsTo(a, b, i)
    BY <1>4, <1>5, <2>2, PublicKeeps DEF ReplayInv
  <2>4. a \in Seq(P) /\ b \in Seq(P)
    <3>1. ASSUME NEW s \in Seq(S) PROVE PublicItems(s) \in Seq(P)
      <4>1. DOMAIN s = 1..Len(s) /\ Len(s) \in Nat /\ \A k \in 1..Len(s) : s[k] \in S
        OBVIOUS
      <4>2. PublicItems(s) = [ k \in 1..Len(s) |-> PublicItem(s[k]) ]
        BY <4>1 DEF PublicItems
      <4>3. [ k \in 1..Len(s) |-> PublicItem(s[k]) ] \in [1..Len(s) -> P]
        BY <4>1
      <4>. HIDE DEF P
      <4>. QED BY <4>1, <4>2, <4>3
    <3>. HIDE DEF P
    <3>. QED BY <1>4, <3>1
  <2>5. PublicItems(items \o new) = a \o b
    BY <1>4, PublicJoin
  <2>. HIDE DEF a, b, P
  <2>6. InputItemsToChatMessages(a \o b) = InputItemsToChatMessages(a) \o InputItemsToChatMessages(b)
    BY <2>3, <2>4, ReadingSplits
  <2>7. InputItemsToChatMessages(b) = WithoutReasoning(SpokenIn(entry))
    BY <1>7, <1>8, <1>11 DEF b
  <2>8. PICK T : /\ Conversation \in Seq(T) /\ SpokenIn(entry) \in Seq(T)
                 /\ Conversation' = Conversation \o SpokenIn(entry)
    BY <1>3
  <2>9. WithoutReasoning(Conversation \o SpokenIn(entry)) =
          WithoutReasoning(Conversation) \o WithoutReasoning(SpokenIn(entry))
    BY <2>8, WithoutReasoningJoin
  <2>10. InputItemsToChatMessages(PublicItems(items \o new)) = WithoutReasoning(Conversation \o SpokenIn(entry))
    BY <2>1, <2>5, <2>6, <2>7, <2>9 DEF a
  <2>. QED BY <1>6, <2>8, <2>10
<1>12. StoredReplayIsConversation'
  BY <1>10 DEF StoredReplayIsConversation
<1>13. PublicReplayIsConversation'
  BY <1>11 DEF PublicReplayIsConversation
<1>. QED BY <1>3, <1>9, <1>10, <1>12, <1>13 DEF ReplayInv

LEMMA InitReplayInv == ReplayInit => ReplayInv
<1>. SUFFICES ASSUME ReplayInit PROVE ReplayInv
  OBVIOUS
<1>1. history = <<>> /\ items = <<>>
  BY DEF ReplayInit
<1>2. DOMAIN history = {} /\ history \in Seq({ history[k] : k \in DOMAIN history }) /\ DOMAIN items = {}
  BY <1>1
<1>3. SeqOps!FlattenSeq(<<>>) = <<>>
  BY DEF SeqOps!FlattenSeq
<1>4. Pieces = <<>> /\ Conversation = <<>>
  <2>1. Pieces = <<>>
    BY <1>2 DEF Pieces
  <2>2. [ k \in DOMAIN history |-> SpokenAt(k) ] = <<>>
    BY <1>2
  <2>. QED BY <1>3, <2>1, <2>2 DEF Conversation
<1>5. ItemsAreOfSteps
  BY <1>1, <1>2, <1>3, <1>4 DEF ItemsAreOfSteps
<1>6. NoCallAfterLoneText(items)
  BY <1>1 DEF NoCallAfterLoneText
<1>7. TurnsUpTo(items, Len(history))
  BY <1>2 DEF TurnsUpTo
<1>8. PublicItems(<<>>) = <<>> /\ WithoutReasoning(<<>>) = <<>>
  BY DEF PublicItems, WithoutReasoning
<1>9. StoredReplayIsConversation /\ PublicReplayIsConversation
  BY <1>1, <1>4, <1>8, NothingSays DEF StoredReplayIsConversation, PublicReplayIsConversation
<1>. QED BY <1>2, <1>5, <1>6, <1>7, <1>9 DEF ReplayInv

\* Every action is such a step.
LEMMA UserGrows == UserSays => \E entry : Grows(entry)
<1>. SUFFICES ASSUME NEW content, LET message == Message("user", content, <<>>, 0)
                                  IN  Record([by |-> "client", item |-> message], <<message>>)
              PROVE  \E entry : Grows(entry)
  BY DEF UserSays
<1>. DEFINE message == Message("user", content, <<>>, 0)
            entry == [by |-> "client", item |-> message]
<1>1. entry.by = "client" /\ entry.item = message /\ message.content = content
      /\ message.type = "message"
  BY DEF Message
<1>2. IsStep(entry)
  BY <1>1 DEF IsStep
<1>3. ItemsIn(entry, Len(history) + 1) = <<message>>
  BY <1>1 DEF ItemsIn
<1>4. history' = Append(history, entry) /\ items' = items \o <<message>>
  BY DEF Record
<1>. HIDE DEF entry
<1>. QED BY <1>2, <1>3, <1>4 DEF Grows

LEMMA ToolGrows == ToolAnswers => \E entry : Grows(entry)
<1>. SUFFICES ASSUME NEW id, LET output == CallOutput(id, << <<"result", Now>> >>)
                             IN  Record([by |-> "client", item |-> output], <<output>>)
              PROVE  \E entry : Grows(entry)
  BY DEF ToolAnswers
<1>. DEFINE text == << <<"result", Now>> >>
            output == CallOutput(id, text)
            entry == [by |-> "client", item |-> output]
<1>1. entry.by = "client" /\ entry.item = output /\ output.call_id = id /\ output.output = text
      /\ output.type = "function_call_output"
  BY DEF CallOutput
<1>2. IsStep(entry)
  BY <1>1 DEF IsStep
<1>3. ItemsIn(entry, Len(history) + 1) = <<output>>
  BY <1>1 DEF ItemsIn
<1>4. history' = Append(history, entry) /\ items' = items \o <<output>>
  BY DEF Record
<1>. HIDE DEF entry
<1>. QED BY <1>2, <1>3, <1>4 DEF Grows

LEMMA AnswerGrows == UpstreamAnswers => \E entry : Grows(entry)
<1>. SUFFICES ASSUME NEW answer \in Answers, NEW textFirst \in BOOLEAN,
                     Record([by |-> "upstream", answer |-> answer, textFirst |-> textFirst],
                            OutputItems(answer, Now, textFirst))
              PROVE  \E entry : Grows(entry)
  BY DEF UpstreamAnswers
<1>. DEFINE entry == [by |-> "upstream", answer |-> answer, textFirst |-> textFirst]
            C == { answer.calls[k] : k \in DOMAIN answer.calls }
<1>1. entry.by = "upstream" /\ entry.answer = answer /\ entry.textFirst = textFirst
  OBVIOUS
<1>2. answer.calls \in Seq(C) /\ \A k \in DOMAIN answer.calls : IsCall(answer.calls[k])
  <2>1. PICK count \in 0..MaxCalls : answer.calls = CallsOf(count)
    BY DEF Answers
  <2>2. CallsOf(count) = [ n \in 1..count |-> [id |-> <<Now, n>>, arguments |-> Arguments(Now, n)] ]
    BY DEF CallsOf
  <2>. DEFINE calls == answer.calls
  <2>3. count \in Nat /\ DOMAIN calls = 1..count /\ calls = [ n \in 1..count |-> calls[n] ]
    BY <2>1, <2>2
  <2>4. \A n \in 1..count : calls[n] \in C
    BY <2>3
  <2>7. \A n \in 1..count : IsCall(calls[n])
    <3>1. ASSUME NEW id, NEW arguments
          PROVE  IsCall([id |-> id, arguments |-> arguments])
      BY DEF IsCall, WithArguments
    <3>2. \A n \in 1..count : calls[n] = [id |-> <<Now, n>>, arguments |-> Arguments(Now, n)]
      BY <2>1, <2>2
    <3>. QED BY <3>1, <3>2
  <2>. HIDE DEF calls, C
  <2>5. calls \in [1..count -> C]
    BY <2>3, <2>4
  <2>6. calls \in Seq(C)
    BY <2>3, <2>5
  <2>. QED BY <2>3, <2>6, <2>7 DEF calls
<1>3. IsStep(entry)
  BY <1>1, <1>2 DEF IsStep
<1>4. ItemsIn(entry, Len(history) + 1) = OutputItems(answer, Now, textFirst)
  BY <1>1 DEF ItemsIn, Now
<1>5. history' = Append(history, entry) /\ items' = items \o OutputItems(answer, Now, textFirst)
  BY DEF Record
<1>. HIDE DEF entry
<1>. QED BY <1>3, <1>4, <1>5 DEF Grows

LEMMA NextReplayInv == ReplayInv /\ [ReplayNext]_replayVars => ReplayInv'
<1>. SUFFICES ASSUME ReplayInv, [ReplayNext]_replayVars PROVE ReplayInv'
  OBVIOUS
<1>1. CASE ReplayNext
  <2>1. PICK entry : Grows(entry)
    BY <1>1, UserGrows, ToolGrows, AnswerGrows DEF ReplayNext
  <2>2. \A n : n = Len(history) + 1 => ReplayInv'
    BY <2>1, GrowsReplay
  <2>. QED BY <2>2
<1>2. CASE UNCHANGED replayVars
  <2>1. history' = history /\ items' = items
    BY <1>2 DEF replayVars
  <2>2. \A k : ItemsOf(k)' = ItemsOf(k) /\ SpokenAt(k)' = SpokenAt(k)
    BY <2>1 DEF ItemsOf, SpokenAt
  <2>3. Pieces' = Pieces /\ Conversation' = Conversation
    BY <2>1, <2>2 DEF Pieces, Conversation
  <2>4. \A turnsKept : Replayable(turnsKept)' <=> Replayable(turnsKept)
    <3>1. ASSUME NEW n PROVE ItemBefore(n)' = ItemBefore(n)
      BY <2>2 DEF ItemBefore
    <3>2. ASSUME NEW n PROVE (CallsOnly(n)' <=> CallsOnly(n)) /\ (Torn(n)' <=> Torn(n))
      BY <2>1, <2>2 DEF CallsOnly, Torn, IsAnswer
    <3>3. ASSUME NEW n, NEW turnsKept PROVE Apart(n, turnsKept)' <=> Apart(n, turnsKept)
      BY <3>1, <3>2 DEF Apart
    <3>. QED BY <2>1, <3>2, <3>3 DEF Replayable
  <2>5. ItemsAreOfSteps'
    BY <2>1, <2>3 DEF ReplayInv, ItemsAreOfSteps
  <2>6. (StoredReplayIsConversation /\ PublicReplayIsConversation)'
    BY <2>1, <2>3, <2>4 DEF ReplayInv, StoredReplayIsConversation, PublicReplayIsConversation
  <2>. QED BY <2>1, <2>4, <2>5, <2>6 DEF ReplayInv
<1>. QED BY <1>1, <1>2

\* The items of a conversation are those of its steps, and read as it.
THEOREM ReplayInvariant == ReplaySpec => []ReplayInv
<1>. QED BY InitReplayInv, NextReplayInv, PTL DEF ReplaySpec

\* What GLM is sent for the stored items of a conversation is the conversation: every
\* answer is one message again (InputItemsToChatMessages over stored context), with
\* its calls as they were, or, for a custom tool that GLM gave something else than
\* its input, with the text that the tool was given (RepeatedCalls).
THEOREM StoredItemsSayTheConversation == ReplaySpec => []StoredReplayIsConversation
<1>1. ReplayInv => StoredReplayIsConversation
  BY DEF ReplayInv
<1>. QED BY <1>1, ReplayInvariant, PTL

\* The items that a client was shown (PublicItem) say the conversation but for its
\* reasoning.
THEOREM PublicItemsSayTheConversation == ReplaySpec => []PublicReplayIsConversation
<1>1. ReplayInv => PublicReplayIsConversation
  BY DEF ReplayInv
<1>. QED BY <1>1, ReplayInvariant, PTL
=============================================================================
