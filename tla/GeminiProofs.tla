---------------------------- MODULE GeminiProofs ----------------------------
(***************************************************************************)
(* What the client of the upstream and the Gemini handlers do with a call  *)
(* that fails, that the lines make the call of StreamChat, and that what a *)
(* Gemini client is told is the answer: for any chunks, any statuses and   *)
(* any number of lines.                                                    *)
(***************************************************************************)
EXTENDS GeminiAPI, FiniteSetTheorems, WellFoundedInduction, TLAPS

-----------------------------------------------------------------------------
(* The invariant.                                                          *)

CallTypeOK ==
  /\ streaming \in BOOLEAN /\ wrong \in BOOLEAN /\ connected \in BOOLEAN
  /\ sent \in Seq(Chunks) /\ lines \in Nat /\ status \in Nat
  /\ state \in {"new", "sent", "body", "ended", "failed"}
  /\ pc \in {"serving", "returned"}

\* Every chunk had a line; outside a stream there is nothing but the answer.
LinesSuffice ==
  /\ Len(sent) <= lines
  /\ ~streaming => lines = Len(sent)

\* The error is set exactly if the call failed.
StatusIsOfFailure == status # 0 <=> state = "failed"

\* A call fails because something went wrong or because the client has left.
FailedForAReason ==
  /\ wrong => state = "failed"
  /\ state = "failed" => wrong \/ ~connected

ReturnsAtTheEnd == pc = "returned" => state \in {"ended", "failed"}

\* Parts of any kind: only the error is looked at.
ToldIsSequence == \E S : told \in Seq(S)

\* Nothing that is told by a chunk is an error, and the handler tells one at most.
ErrorIsLast ==
  /\ \A n \in DOMAIN told : told[n].error # "" => pc = "returned" /\ state = "failed" /\ n = Len(told)
  /\ Served /\ state = "failed" => told # <<>> /\ told[Len(told)].error # ""

CallInv == CallTypeOK /\ LinesSuffice /\ StatusIsOfFailure /\ FailedForAReason /\ ReturnsAtTheEnd

IInv == CallInv /\ ToldIsSequence /\ ErrorIsLast

-----------------------------------------------------------------------------
(* The call.                                                               *)

\* Nothing is sent and nothing told at the beginning.
LEMMA InitIInv == Init => IInv
<1>. SUFFICES ASSUME Init PROVE IInv
  OBVIOUS
<1>1. CallInv
  <2>1. sent \in Seq(Chunks) /\ Len(sent) = lines /\ lines \in Nat /\ status \in Nat
    BY DEF Init, ClientInit
  <2>2. LinesSuffice
    BY <2>1 DEF LinesSuffice
  <2>3. streaming \in BOOLEAN /\ wrong \in BOOLEAN /\ connected \in BOOLEAN
    BY Zenon DEF Init, ClientInit
  <2>4. CallTypeOK
    BY <2>1, <2>3 DEF Init, ClientInit, CallTypeOK
  <2>5. StatusIsOfFailure /\ FailedForAReason /\ ReturnsAtTheEnd
    BY DEF Init, ClientInit, StatusIsOfFailure, FailedForAReason, ReturnsAtTheEnd
  <2>. QED BY <2>2, <2>4, <2>5 DEF CallInv
<1>2. told \in Seq({}) /\ DOMAIN told = {} /\ ~Served
  BY DEF Init, Served
<1>. QED BY <1>1, <1>2 DEF IInv, ToldIsSequence, ErrorIsLast

\* A step of the client that needs nothing of its caller keeps what is known of
\* the call.
LEMMA ProceedCallInv == CallInv /\ Proceed => CallInv'
<1>. SUFFICES ASSUME CallInv, Proceed PROVE CallInv'
  OBVIOUS
<1>. USE DEF CallInv, CallTypeOK, LinesSuffice, StatusIsOfFailure, FailedForAReason,
             ReturnsAtTheEnd, Proceed, Continue, Return, GoesWrong, BadGateway, wire
<1>1. ASSUME NEW configured \in BOOLEAN, NewRequest(configured) PROVE CallInv'
  <2>1. CASE configured
    BY <1>1, <2>1 DEF NewRequest
  <2>2. CASE ~configured
    BY <1>1, <2>2 DEF NewRequest
  <2>. QED BY <2>1, <2>2
<1>2. CASE Unreachable
  BY <1>2 DEF Unreachable
<1>3. ASSUME NEW code \in Statuses, Respond(code) PROVE CallInv'
  <2>1. code \in Nat /\ code # 0
    BY StatusesAssumption
  <2>2. CASE code < 400
    BY <1>3, <2>1, <2>2 DEF Respond
  <2>3. CASE ~(code < 400)
    BY <1>3, <2>1, <2>3 DEF Respond
  <2>. QED BY <2>2, <2>3
<1>4. CASE Skip
  BY <1>4 DEF Skip, ReadsBody
<1>5. CASE Done
  BY <1>5 DEF Done, ReadsBody
<1>6. CASE Break
  BY <1>6 DEF Break, ReadsBody
<1>7. CASE Decode
  BY <1>7 DEF Decode
<1>8. CASE ReadNoAnswer
  BY <1>8 DEF ReadNoAnswer, Reads
<1>. QED BY <1>1, <1>2, <1>3, <1>4, <1>5, <1>6, <1>7, <1>8 DEF CallProceeds

\* A chunk whose event cannot be written ends the call for a client that has left.
LEMMA ChunkCallInv ==
  ASSUME NEW chunk \in Chunks, CallInv, HandleChunk(chunk) \/ GetAnswer(chunk)
  PROVE  CallInv'
<1>. USE DEF CallInv, CallTypeOK, LinesSuffice, StatusIsOfFailure, FailedForAReason,
             ReturnsAtTheEnd, Continue, Return, BadGateway, Comes
<1>1. Append(sent, chunk) \in Seq(Chunks) /\ Len(Append(sent, chunk)) = Len(sent) + 1
  OBVIOUS
<1>2. CASE HandleChunk(chunk) /\ connected
  BY <1>1, <1>2 DEF HandleChunk, ScanChunk, ReadsBody
<1>3. CASE HandleChunk(chunk) /\ ~connected
  BY <1>1, <1>3 DEF HandleChunk, ScanChunk, ReadsBody
<1>4. CASE GetAnswer(chunk)
  BY <1>1, <1>4 DEF GetAnswer, ReadAnswer, Reads
<1>. QED BY <1>2, <1>3, <1>4

-----------------------------------------------------------------------------
(* What is told.                                                           *)

\* What a client that is there gets comes after what it got before.
Appended(new) ==
  /\ ToldIsSequence'
  /\ ~connected => told' = told
  /\ connected => /\ told' # <<>> /\ told'[Len(told')] = new
                  /\ \A n \in DOMAIN told' :
                       n # Len(told') => n \in DOMAIN told /\ told'[n] = told[n]

\* What is told is appended, or nothing is.
LEMMA TellAppends == ASSUME NEW new, ToldIsSequence, Tell(new) PROVE Appended(new)
<1>1. PICK S : told \in Seq(S)
  BY DEF ToldIsSequence
<1>2. CASE connected
  <2>. DEFINE T == S \cup {new}
  <2>1. told \in Seq(T) /\ new \in T
    BY <1>1
  <2>. HIDE DEF T
  <2>2. told' = Append(told, new)
    BY <1>2 DEF Tell
  <2>. QED BY <1>2, <2>1, <2>2 DEF ToldIsSequence, Appended
<1>3. CASE ~connected
  BY <1>1, <1>3 DEF Tell, ToldIsSequence, Appended
<1>. QED BY <1>2, <1>3

\* An error has a type, and what is told by a chunk is none.
LEMMA ErrorsAreErrors ==
  /\ \A code \in Nat : Error(code).error # ""
  /\ \A chunk, n : Content(chunk, n).error = ""
BY DEF Error, ErrorType, Content, Told

\* An error is told last, and whenever the call failed.
LEMMA NextIInv == IInv /\ [Next]_vars => IInv'
<1>. SUFFICES ASSUME IInv, [Next]_vars PROVE IInv'
  OBVIOUS
<1>1. CASE Proceed
  <2>1. CallInv'
    BY <1>1, ProceedCallInv DEF IInv
  <2>2. pc = "serving" /\ UNCHANGED <<pc, connected, told>>
    BY <1>1 DEF Proceed
  <2>. QED BY <2>1, <2>2 DEF IInv, ToldIsSequence, ErrorIsLast, Served
<1>2. ASSUME NEW chunk \in Chunks, HandleChunk(chunk) PROVE IInv'
  <2>1. CallInv'
    BY <1>2, ChunkCallInv DEF IInv
  <2>2. pc = "serving" /\ pc' = "serving" /\ Tell(Content(chunk, Len(sent) + 1))
    BY <1>2 DEF HandleChunk
  <2>3. ToldIsSequence' /\ ErrorIsLast'
    <3>. DEFINE new == Content(chunk, Len(sent) + 1)
    <3>1. new.error = ""
      BY ErrorsAreErrors
    <3>2. \A n \in DOMAIN told : told[n].error = ""
      BY <2>2 DEF IInv, ErrorIsLast
    <3>. HIDE DEF new
    <3>3. ToldIsSequence' /\ \A n \in DOMAIN told' : told'[n].error = ""
      <4>1. Appended(new)
        BY <2>2, TellAppends DEF IInv, new
      <4>. QED BY <3>1, <3>2, <4>1 DEF Appended
    <3>. QED BY <2>2, <3>3 DEF ErrorIsLast, Served
  <2>. QED BY <2>1, <2>3 DEF IInv
<1>3. ASSUME NEW chunk \in Chunks, GetAnswer(chunk) PROVE IInv'
  <2>1. CallInv'
    BY <1>3, ChunkCallInv DEF IInv
  <2>2. pc = "serving" /\ UNCHANGED <<pc, connected, told>>
    BY <1>3 DEF GetAnswer
  <2>. QED BY <2>1, <2>2 DEF IInv, ToldIsSequence, ErrorIsLast, Served
<1>4. CASE HandlerReturns
  <2>1. /\ pc = "serving" /\ pc' = "returned" /\ state \in {"ended", "failed"}
        /\ UNCHANGED <<clientVars, connected>>
    BY <1>4 DEF HandlerReturns
  <2>2. CallInv'
    BY <2>1 DEF IInv, CallInv, CallTypeOK, LinesSuffice, StatusIsOfFailure, FailedForAReason,
                ReturnsAtTheEnd, clientVars, wire
  <2>3. \A n \in DOMAIN told : told[n].error = ""
    BY <2>1 DEF IInv, ErrorIsLast
  <2>4. CASE state = "failed"
    <3>1. Tell(Error(status)) /\ Error(status).error # ""
      BY <1>4, <2>4, ErrorsAreErrors DEF HandlerReturns, IInv, CallInv, CallTypeOK
    <3>. DEFINE new == Error(status)
    <3>. HIDE DEF new
    <3>2. Tell(new) /\ new.error # ""
      BY <3>1 DEF new
    <3>3. Appended(new)
      BY <3>2, TellAppends DEF IInv
    <3>4. ToldIsSequence' /\ (\A n \in DOMAIN told' : told'[n].error # "" => n = Len(told'))
      BY <2>3, <3>3 DEF Appended
    <3>5. connected' => told' # <<>> /\ told'[Len(told')].error # ""
      BY <2>1, <3>2, <3>3 DEF Appended
    <3>. QED BY <2>1, <2>2, <2>4, <3>4, <3>5 DEF IInv, ErrorIsLast, Served, clientVars
  <2>5. CASE state # "failed" /\ streaming
    <3>1. UNCHANGED told
      BY <1>4, <2>5 DEF HandlerReturns
    <3>. QED BY <2>1, <2>2, <2>3, <2>5, <3>1 DEF IInv, ToldIsSequence, ErrorIsLast, clientVars
  <2>6. CASE state # "failed" /\ ~streaming
    <3>. DEFINE new == Content(sent[1], 1)
    <3>1. Tell(new) /\ new.error = ""
      BY <1>4, <2>6, ErrorsAreErrors DEF HandlerReturns
    <3>. HIDE DEF new
    <3>2. ToldIsSequence' /\ \A n \in DOMAIN told' : told'[n].error = ""
      <4>1. Appended(new)
        BY <3>1, TellAppends DEF IInv
      <4>. QED BY <2>3, <3>1, <4>1 DEF Appended
    <3>. QED BY <2>1, <2>2, <2>6, <3>2 DEF IInv, ErrorIsLast, clientVars
  <2>. QED BY <2>4, <2>5, <2>6
<1>5. CASE ClientLeaves
  BY <1>5 DEF ClientLeaves, IInv, CallInv, CallTypeOK, LinesSuffice, StatusIsOfFailure,
      FailedForAReason, ReturnsAtTheEnd, ToldIsSequence, ErrorIsLast, Served, clientVars, wire
<1>6. CASE UNCHANGED vars
  BY <1>6 DEF vars, IInv, CallInv, CallTypeOK, LinesSuffice, StatusIsOfFailure,
      FailedForAReason, ReturnsAtTheEnd, ToldIsSequence, ErrorIsLast, Served, clientVars, wire
<1>. QED BY <1>1, <1>2, <1>3, <1>4, <1>5, <1>6 DEF Next, Chunked, Answered

\* In every state the error is set exactly if the call failed, a call fails only
\* for a reason, and only the last thing told is an error: by the return of
\* errors through client.go and the handlers of router.go and sse_gemini.go.
THEOREM CallInvariant == Spec => []IInv
<1>. QED BY InitIInv, NextIInv, PTL DEF Spec

\* A client of a Gemini endpoint that stays is told of an error exactly if
\* something went wrong, and then last (writeErrorFromErr, and the error event of
\* streamGeminiContent).
THEOREM FailuresAreTold == Spec => []FailureIsTold
<1>1. IInv => FailureIsTold
  BY DEF IInv, CallInv, ErrorIsLast, FailedForAReason, FailureIsTold, Served
<1>. QED BY <1>1, CallInvariant, PTL

-----------------------------------------------------------------------------
(* The refinement.                                                         *)

\* Every step of the client and the handler is a step of the call, or none.
LEMMA StepImplements ==
  IInv /\ [Next]_vars =>
    [ \/ \E chunk \in Chunks, handled \in BOOLEAN : Call!NextChunk(chunk, handled)
      \/ Call!EndOfStream \/ Call!StreamBreaks ]_(Call!streamVars)
<1>. DEFINE Step == \/ \E chunk \in Chunks, handled \in BOOLEAN : Call!NextChunk(chunk, handled)
                    \/ Call!EndOfStream \/ Call!StreamBreaks
            Stutter == UNCHANGED <<sent, Outcome>>
<1>. SUFFICES ASSUME IInv, [Next]_vars PROVE Step \/ Stutter
  BY DEF Call!streamVars
<1>. USE DEF IInv, CallInv, CallTypeOK, StatusIsOfFailure, Outcome
<1>1. CASE Proceed
  <2>. USE DEF Continue, Return, GoesWrong, BadGateway, wire, Call!EndOfStream, Call!StreamBreaks
  <2>1. CASE \E configured \in BOOLEAN : NewRequest(configured)
    BY <2>1 DEF NewRequest
  <2>2. CASE Unreachable
    BY <2>2 DEF Unreachable
  <2>3. ASSUME NEW code \in Statuses, Respond(code) PROVE Step \/ Stutter
    <3>1. code \in Nat /\ code # 0
      BY StatusesAssumption
    <3>. QED BY <2>3, <3>1 DEF Respond
  <2>4. CASE Skip
    BY <2>4 DEF Skip, ReadsBody
  <2>5. CASE Done
    BY <2>5 DEF Done, ReadsBody
  <2>6. CASE Break
    BY <2>6 DEF Break, ReadsBody
  <2>7. CASE Decode
    BY <2>7 DEF Decode
  <2>8. CASE ReadNoAnswer
    BY <2>8 DEF ReadNoAnswer, Reads
  <2>. QED BY <1>1, <2>1, <2>2, <2>3, <2>4, <2>5, <2>6, <2>7, <2>8 DEF Proceed, CallProceeds
<1>2. ASSUME NEW chunk \in Chunks, HandleChunk(chunk) PROVE Step
  <2>. USE DEF HandleChunk, ScanChunk, ReadsBody, Comes, Continue, Return, BadGateway,
               LinesSuffice, Call!NextChunk
  <2>1. CASE connected
    <3>1. Call!NextChunk(chunk, TRUE)
      BY <1>2, <2>1, StatusesAssumption
    <3>. QED BY <3>1
  <2>2. CASE ~connected
    <3>1. Call!NextChunk(chunk, FALSE)
      BY <1>2, <2>2, StatusesAssumption
    <3>. QED BY <3>1
  <2>. QED BY <2>1, <2>2
<1>3. ASSUME NEW chunk \in Chunks, GetAnswer(chunk) PROVE Step
  <2>1. Call!NextChunk(chunk, TRUE)
    BY <1>3, StatusesAssumption DEF GetAnswer, ReadAnswer, Reads, Comes, Continue, Call!NextChunk
  <2>. QED BY <2>1
<1>4. CASE HandlerReturns \/ ClientLeaves \/ UNCHANGED vars
  BY <1>4 DEF HandlerReturns, ClientLeaves, vars, clientVars, wire
<1>. QED BY <1>1, <1>2, <1>3, <1>4 DEF Next, Chunked, Answered

\* For any chunks and any number of lines, what StreamChat and Chat of client.go
\* make of the lines of a body is the call that the streaming handlers stand on.
THEOREM LinesMakeTheCall == Spec => ImplementsStreamChat
<1>1. Init => Call!StreamInit
  BY DEF Init, ClientInit, Outcome, Call!StreamInit
<1>. QED BY <1>1, StepImplements, CallInvariant, PTL DEF Spec, ImplementsStreamChat, Call!StreamSpec

-----------------------------------------------------------------------------
(* Numbers in order.                                                       *)

Below(S, i) == Cardinality({ j \in S : j < i })

\* Counting what is below numbers the members of S from 0.
LEMMA BelowNumbers ==
  ASSUME NEW S, IsFiniteSet(S), S \subseteq Nat
  PROVE  /\ \A i \in S : Below(S, i) \in 0..(Cardinality(S) - 1)
         /\ \A i, j \in S : Below(S, i) = Below(S, j) => i = j
         /\ \A n \in 0..(Cardinality(S) - 1) : \E i \in S : Below(S, i) = n
<1>. DEFINE N == Cardinality(S)
            below(i) == { j \in S : j < i }
<1>0. N \in Nat
  BY FS_CardinalityType
<1>1. ASSUME NEW i \in S
      PROVE  IsFiniteSet(below(i)) /\ Below(S, i) \in Nat /\ Below(S, i) < N
  <2>1. below(i) \in SUBSET S /\ i \notin below(i)
    OBVIOUS
  <2>2. Below(S, i) = Cardinality(below(i))
    BY DEF Below
  <2>. HIDE DEF below
  <2>3. /\ IsFiniteSet(below(i)) /\ Cardinality(below(i)) \in Nat
        /\ Cardinality(below(i)) <= N /\ Cardinality(below(i)) # N
    BY <2>1, FS_Subset, FS_CardinalityType
  <2>. QED BY <1>0, <2>2, <2>3
<1>2. ASSUME NEW i \in S, NEW j \in S, i < j PROVE Below(S, i) < Below(S, j)
  <2>0. \A k \in S : k \in Nat /\ (k < i => k < j)
    BY <1>2
  <2>1. below(i) \in SUBSET below(j) /\ i \in below(j) /\ i \notin below(i)
    <3>1. i \in S /\ i < j /\ ~(i < i)
      BY <1>2, <2>0
    <3>2. i \in below(j) /\ i \notin below(i)
      BY <3>1
    <3>3. \A k \in below(i) : k \in below(j)
      BY <2>0
    <3>. QED BY <3>2, <3>3
  <2>2. Below(S, i) = Cardinality(below(i)) /\ Below(S, j) = Cardinality(below(j))
    BY DEF Below
  <2>3. IsFiniteSet(below(j)) /\ Below(S, i) \in Nat /\ Below(S, j) \in Nat
    BY <1>1
  <2>. HIDE DEF below
  <2>4. /\ Cardinality(below(i)) <= Cardinality(below(j))
        /\ Cardinality(below(i)) # Cardinality(below(j))
    BY <2>1, <2>3, FS_Subset
  <2>. QED BY <2>2, <2>3, <2>4
<1>. HIDE DEF below, N
<1>3. \A i \in S : Below(S, i) \in 0..(N - 1)
  BY <1>0, <1>1
<1>4. ASSUME NEW i \in S, NEW j \in S, Below(S, i) = Below(S, j) PROVE i = j
  <2>1. ~(i < j) /\ ~(j < i)
    BY <1>1, <1>2, <1>4
  <2>2. i \in Nat /\ j \in Nat
    OBVIOUS
  <2>. QED BY <2>1, <2>2
<1>5. ASSUME NEW n \in 0..(N - 1) PROVE \E i \in S : Below(S, i) = n
  <2>. DEFINE f == [i \in S |-> Below(S, i)]
  <2>1. f \in Injection(S, 0..(N - 1))
    BY <1>3, <1>4 DEF Injection, IsInjective
  <2>2. IsFiniteSet(0..(N - 1)) /\ Cardinality(0..(N - 1)) = N
    <3>1. N - 1 \in Int /\ 0 \in Int
      BY <1>0
    <3>. QED BY <1>0, <3>1, FS_Interval
  <2>3. f \in Surjection(S, 0..(N - 1))
    <3>. HIDE DEF f
    <3>1. Cardinality(S) = Cardinality(0..(N - 1))
      BY <2>2 DEF N
    <3>. QED BY <2>1, <2>2, <3>1, FS_Injection
  <2>. QED BY <2>3 DEF Surjection
<1>. QED BY <1>3, <1>4, <1>5 DEF N

LEMMA InOrderFacts ==
  ASSUME NEW S, IsFiniteSet(S), S \subseteq Nat
  PROVE  /\ Cardinality(S) \in Nat /\ Call!InOrder(S) \in Seq(S)
         /\ Len(Call!InOrder(S)) = Cardinality(S) /\ DOMAIN Call!InOrder(S) = 1..Cardinality(S)
         /\ \A k \in 1..Cardinality(S) : Call!InOrder(S)[k] \in S /\ Below(S, Call!InOrder(S)[k]) = k - 1
<1>. DEFINE N == Cardinality(S)
            order == Call!InOrder(S)
<1>0. N \in Nat
  BY FS_CardinalityType
<1>1. order = [ k \in 1..N |-> CHOOSE i \in S : Below(S, i) = k - 1 ]
  BY DEF Call!InOrder, Below, Call!Cardinality, Cardinality, Call!IsFiniteSet, IsFiniteSet
<1>. HIDE DEF order
<1>2. \A k \in 1..N : order[k] \in S /\ Below(S, order[k]) = k - 1
  <2>. TAKE k \in 1..N
  <2>1. k - 1 \in 0..(Cardinality(S) - 1)
    BY <1>0
  <2>2. \E i \in S : Below(S, i) = k - 1
    BY <2>1, BelowNumbers
  <2>. QED BY <1>1, <2>2
<1>. HIDE DEF N
<1>3. DOMAIN order = 1..N /\ order \in [1..N -> S]
  BY <1>1, <1>2
<1>4. order \in Seq(S)
  BY <1>0, <1>3
<1>5. Len(order) = N
  BY <1>0, <1>3, <1>4
<1>. QED BY <1>0, <1>2, <1>3, <1>4, <1>5 DEF N, order

\* A number greater than all comes last.
LEMMA InOrderAppend ==
  ASSUME NEW S, IsFiniteSet(S), S \subseteq Nat, NEW n \in Nat, \A i \in S : i < n
  PROVE  Call!InOrder(S \cup {n}) = Append(Call!InOrder(S), n)
<1>. DEFINE T == S \cup {n}
            N == Cardinality(S)
            a == Call!InOrder(S)
            b == Call!InOrder(T)
<1>1. /\ IsFiniteSet(T) /\ T \subseteq Nat /\ n \notin S /\ N \in Nat
      /\ Cardinality(T) = N + 1
  BY FS_AddElement, FS_CardinalityType
<1>2. Below(T, n) = N
  <2>1. ASSUME NEW j PROVE j \in { k \in T : k < n } <=> j \in S
    <3>1. ~(n < n)
      OBVIOUS
    <3>. QED BY <3>1
  <2>2. { k \in T : k < n } = S
    BY <2>1
  <2>. QED BY <2>2 DEF Below
<1>3. \A i \in S : Below(T, i) = Below(S, i)
  <2>. TAKE i \in S
  <2>1. { j \in T : j < i } = { j \in S : j < i }
    BY <1>1
  <2>. QED BY <2>1 DEF Below
<1>. HIDE DEF T, N, a, b
<1>4. /\ a \in Seq(S) /\ Len(a) = N /\ DOMAIN a = 1..N
      /\ \A k \in 1..N : a[k] \in S /\ Below(S, a[k]) = k - 1
  BY InOrderFacts DEF N, a
<1>5. /\ b \in Seq(T) /\ Len(b) = N + 1 /\ DOMAIN b = 1..(N + 1)
      /\ \A k \in 1..(N + 1) : b[k] \in T /\ Below(T, b[k]) = k - 1
  <2>1. /\ b \in Seq(T) /\ Len(b) = Cardinality(T) /\ DOMAIN b = 1..Cardinality(T)
        /\ \A k \in 1..Cardinality(T) : b[k] \in T /\ Below(T, b[k]) = k - 1
    BY <1>1, InOrderFacts DEF b
  <2>. QED BY <1>1, <2>1
<1>6. \A i, j \in T : Below(T, i) = Below(T, j) => i = j
  BY <1>1, BelowNumbers
<1>7. n \in T /\ S \subseteq T
  BY DEF T
<1>8. ASSUME NEW k \in 1..N PROVE b[k] = a[k]
  <2>1. k \in 1..(N + 1)
    BY <1>1
  <2>2. Below(T, a[k]) = k - 1 /\ a[k] \in T /\ b[k] \in T /\ Below(T, b[k]) = k - 1
    BY <1>3, <1>4, <1>5, <1>7, <2>1
  <2>. QED BY <1>6, <2>2
<1>9. b[N + 1] = n
  <2>1. N + 1 \in 1..(N + 1) /\ (N + 1) - 1 = N
    BY <1>1
  <2>2. b[N + 1] \in T /\ Below(T, b[N + 1]) = N
    BY <1>5, <2>1
  <2>. QED BY <1>2, <1>6, <1>7, <2>2
<1>10. b = Append(a, n)
  BY <1>1, <1>4, <1>5, <1>8, <1>9
<1>. QED BY <1>10 DEF T, a, b

LEMMA InOrderEmpty == Call!InOrder({}) = <<>>
BY FS_EmptySet, InOrderFacts

-----------------------------------------------------------------------------
(* Sequences put end to end.                                               *)

\* A set of natural numbers that is not empty has a least element.
LEMMA SmallestOf ==
  ASSUME NEW S, S \subseteq Nat, S # {}
  PROVE  \E n \in S : \A m \in S : n <= m
<1>1. \E R : IsWellFoundedOn(R, Nat) /\ \A m \in Nat, n \in Nat : m < n => <<m, n>> \in R
  <2>1. IsWellFoundedOn(OpToRel(<, Nat), Nat)
    BY NatLessThanWellFounded
  <2>2. \A m \in Nat, n \in Nat : m < n => <<m, n>> \in OpToRel(<, Nat)
    BY DEF OpToRel
  <2>. QED BY <2>1, <2>2, Zenon
<1>2. PICK R : IsWellFoundedOn(R, Nat) /\ \A m \in Nat, n \in Nat : m < n => <<m, n>> \in R
  BY <1>1
<1>3. IsWellFoundedOn(R, Nat)
  BY <1>2
<1>4. \E n \in S : \A m \in S : ~ (<<m, n>> \in R)
  BY <1>3, WFMin, Zenon
<1>5. PICK n \in S : \A m \in S : ~ (<<m, n>> \in R)
  BY <1>4
<1>6. \A m \in S : m \in Nat /\ n \in Nat /\ ~(m < n)
  BY <1>2, <1>5
<1>. QED BY <1>6

\* f is the function by which FlattenSeq reads the first n elements of s.
Flattens(f, s, n) == f = [i \in 1..n |-> IF i = 1 THEN s[i] ELSE f[i - 1] \o s[i]]

LEMMA FlattensAt ==
  ASSUME NEW f, NEW s, NEW n \in Nat, Flattens(f, s, n), NEW i \in 1..n
  PROVE  f[i] = IF i = 1 THEN s[i] ELSE f[i - 1] \o s[i]
BY DEF Flattens

SameUpTo(s, r, n) == \A i \in 1..n : s[i] = r[i]

LEMMA FlattensAgree ==
  ASSUME NEW s, NEW r, NEW n \in Nat, NEW m \in Nat, n <= m, SameUpTo(s, r, n),
         NEW f, NEW g, Flattens(f, s, n), Flattens(g, r, m)
  PROVE  SameUpTo(f, g, n)
<1>. DEFINE Bad == { i \in 1..n : f[i] # g[i] }
<1>. SUFFICES ASSUME Bad # {} PROVE FALSE
  BY DEF SameUpTo
<1>1. Bad \subseteq Nat
  OBVIOUS
<1>2. PICK i \in Bad : \A j \in Bad : i <= j
  BY <1>1, SmallestOf
<1>3. i \in 1..n /\ i \in 1..m /\ f[i] # g[i]
  BY <1>2
<1>4. /\ f[i] = IF i = 1 THEN s[i] ELSE f[i - 1] \o s[i]
      /\ g[i] = IF i = 1 THEN r[i] ELSE g[i - 1] \o r[i]
  BY <1>3, FlattensAt
<1>. s[i] = r[i]
  BY <1>3 DEF SameUpTo
<1>5. CASE i = 1
  BY <1>3, <1>4, <1>5
<1>6. CASE i # 1
  <2>1. i - 1 \in 1..n /\ i - 1 \notin Bad
    BY <1>2, <1>3, <1>6
  <2>2. f[i - 1] = g[i - 1]
    BY <2>1
  <2>. QED BY <1>3, <1>4, <1>6, <2>2
<1>. QED BY <1>5, <1>6

LEMMA FlattensExtend ==
  ASSUME NEW s, NEW n \in Nat, NEW f, Flattens(f, s, n)
  PROVE  \E g : Flattens(g, s, n + 1)
<1>. DEFINE e(i) == IF i = 1 THEN s[i] ELSE f[i - 1] \o s[i]
            g == [i \in 1..(n + 1) |-> e(i)]
<1>1. \A i \in 1..n : g[i] = f[i]
  BY FlattensAt
<1>2. \A i \in 1..(n + 1) : i # 1 => g[i - 1] = f[i - 1]
  <2>1. \A i \in 1..(n + 1) : i # 1 => i - 1 \in 1..n
    OBVIOUS
  <2>. HIDE DEF g
  <2>. QED BY <1>1, <2>1
<1>3. \A i \in 1..(n + 1) : e(i) = IF i = 1 THEN s[i] ELSE g[i - 1] \o s[i]
  BY <1>2
<1>4. g = [i \in 1..(n + 1) |-> IF i = 1 THEN s[i] ELSE g[i - 1] \o s[i]]
  BY <1>3
<1>. QED BY <1>4 DEF Flattens

LEMMA FlattensExists ==
  ASSUME NEW s, NEW n \in Nat PROVE \E f : Flattens(f, s, n)
<1>. DEFINE Bad == { k \in Nat : ~ \E f : Flattens(f, s, k) }
<1>. SUFFICES ASSUME Bad # {} PROVE FALSE
  OBVIOUS
<1>1. PICK k \in Bad : \A j \in Bad : k <= j
  BY SmallestOf
<1>2. CASE k = 0
  <2>1. <<>> = [i \in 1..0 |-> IF i = 1 THEN s[i] ELSE <<>>[i - 1] \o s[i]]
    OBVIOUS
  <2>. QED BY <1>1, <1>2, <2>1 DEF Flattens
<1>3. CASE k # 0
  <2>1. k - 1 \in Nat /\ k - 1 \notin Bad /\ (k - 1) + 1 = k
    BY <1>1, <1>3
  <2>2. PICK f : Flattens(f, s, k - 1)
    BY <2>1
  <2>3. \E g : Flattens(g, s, k)
    BY <2>1, <2>2, FlattensExtend
  <2>. QED BY <1>1, <2>3
<1>. QED BY <1>2, <1>3

\* FlattenSeq is the last value of such a function.
LEMMA FlattenSeqLast ==
  ASSUME NEW s, Len(s) \in Nat, Len(s) # 0
  PROVE  \E f : Flattens(f, s, Len(s)) /\ SeqX!FlattenSeq(s) = f[Len(s)]
<1>. DEFINE F == CHOOSE f : f = [i \in 1..Len(s) |-> IF i = 1 THEN s[i] ELSE f[i - 1] \o s[i]]
<1>1. \E f : f = [i \in 1..Len(s) |-> IF i = 1 THEN s[i] ELSE f[i - 1] \o s[i]]
  BY FlattensExists DEF Flattens
<1>2. F = [i \in 1..Len(s) |-> IF i = 1 THEN s[i] ELSE F[i - 1] \o s[i]]
  BY <1>1
<1>3. SeqX!FlattenSeq(s) = F[Len(s)]
  BY DEF SeqX!FlattenSeq
<1>. QED BY <1>2, <1>3 DEF Flattens

LEMMA FlattenAppend ==
  ASSUME NEW T, NEW s \in Seq(Seq(T)), NEW x \in Seq(T)
  PROVE  SeqX!FlattenSeq(Append(s, x)) = SeqX!FlattenSeq(s) \o x
<1>. DEFINE r == Append(s, x)
            n == Len(s)
            m == n + 1
<1>1. n \in Nat /\ m \in Nat /\ Len(r) = n + 1 /\ r[n + 1] = x /\ \A i \in 1..n : s[i] = r[i]
  OBVIOUS
<1>. HIDE DEF r
<1>2. PICK g : Flattens(g, r, n + 1) /\ SeqX!FlattenSeq(r) = g[n + 1]
  BY <1>1, FlattenSeqLast
<1>3. g[n + 1] = IF n + 1 = 1 THEN r[n + 1] ELSE g[(n + 1) - 1] \o r[n + 1]
  BY <1>1, <1>2, FlattensAt
<1>4. CASE n = 0
  <2>1. s = <<>> /\ SeqX!FlattenSeq(s) = s
    BY <1>4 DEF SeqX!FlattenSeq
  <2>2. SeqX!FlattenSeq(r) = x
    BY <1>1, <1>2, <1>3, <1>4
  <2>. QED BY <2>1, <2>2 DEF r
<1>5. CASE n # 0
  <2>1. PICK f : Flattens(f, s, n) /\ SeqX!FlattenSeq(s) = f[n]
    BY <1>1, <1>5, FlattenSeqLast
  <2>2. f[n] = g[n]
    <3>1. n <= m /\ n \in 1..n /\ Flattens(f, s, n) /\ Flattens(g, r, m)
      BY <1>1, <1>2, <1>5, <2>1
    <3>. HIDE DEF n, m
    <3>2. n \in Nat /\ m \in Nat /\ SameUpTo(s, r, n)
      BY <1>1 DEF SameUpTo
    <3>3. SameUpTo(f, g, n)
      BY <3>1, <3>2, FlattensAgree
    <3>. QED BY <3>1, <3>3 DEF SameUpTo
  <2>3. (n + 1) - 1 = n /\ n + 1 # 1
    BY <1>1, <1>5
  <2>4. SeqX!FlattenSeq(r) = g[n] \o x
    BY <1>1, <1>2, <1>3, <2>3
  <2>. QED BY <2>1, <2>2, <2>4 DEF r
<1>. QED BY <1>4, <1>5

LEMMA Joins ==
  ASSUME NEW T, NEW x \in Seq(T), NEW y \in Seq(T), NEW e \in T
  PROVE  x \o y \in Seq(T) /\ x \o Append(y, e) = Append(x \o y, e)
OBVIOUS

LEMMA JoinsAgain ==
  ASSUME NEW T, NEW x \in Seq(T), NEW y \in Seq(T), NEW z \in Seq(T)
  PROVE  (x \o y) \o z = x \o (y \o z)
OBVIOUS

LEMMA FlattenOneMore ==
  ASSUME NEW T, NEW s \in Seq(Seq(T)), NEW p \in Seq(Seq(T)), NEW x \in Seq(T),
         NEW a \in Seq(T), NEW b \in Seq(T), SeqX!FlattenSeq(p) = b,
         SeqX!FlattenSeq(s \o p) = a \o b
  PROVE  SeqX!FlattenSeq(s \o Append(p, x)) = a \o SeqX!FlattenSeq(Append(p, x))
<1>1. s \o p \in Seq(Seq(T)) /\ s \o Append(p, x) = Append(s \o p, x)
  BY Joins
<1>2. SeqX!FlattenSeq(Append(p, x)) = b \o x
  BY FlattenAppend
<1>3. SeqX!FlattenSeq(Append(s \o p, x)) = (a \o b) \o x
  BY <1>1, FlattenAppend
<1>4. (a \o b) \o x = a \o (b \o x)
  BY JoinsAgain
<1>. QED BY <1>1, <1>2, <1>3, <1>4

\* The concatenation of sequences over T is one, and of two such put end to end it
\* is one concatenation after the other.
LEMMA FlattenJoin ==
  ASSUME NEW T, NEW s \in Seq(Seq(T)), NEW r \in Seq(Seq(T))
  PROVE  /\ SeqX!FlattenSeq(r) \in Seq(T) /\ SeqX!FlattenSeq(s) \in Seq(T)
         /\ SeqX!FlattenSeq(s \o r) = SeqX!FlattenSeq(s) \o SeqX!FlattenSeq(r)
<1>. DEFINE pre(q, n) == [ i \in 1..n |-> q[i] ]
            flat(q) == SeqX!FlattenSeq(q)
<1>1. ASSUME NEW q \in Seq(Seq(T)) PROVE flat(q) \in Seq(T)
  <2>. DEFINE Bad == { n \in 0..Len(q) : flat(pre(q, n)) \notin Seq(T) }
  <2>1. ASSUME Bad # {} PROVE FALSE
    <3>1. Bad \subseteq Nat
      OBVIOUS
    <3>2. PICK n \in Bad : \A m \in Bad : n <= m
      BY <2>1, <3>1, SmallestOf
    <3>3. n \in 0..Len(q) /\ flat(pre(q, n)) \notin Seq(T)
      BY <3>2
    <3>4. CASE n = 0
      <4>1. pre(q, n) = <<>>
        BY <3>4
      <4>. HIDE DEF pre
      <4>2. flat(<<>>) = <<>>
        BY DEF SeqX!FlattenSeq
      <4>3. <<>> \in Seq(T)
        OBVIOUS
      <4>. QED BY <3>3, <4>1, <4>2, <4>3
    <3>5. CASE n # 0
      <4>1. n - 1 \in 0..Len(q) /\ n - 1 \notin Bad /\ n \in 1..Len(q)
        <5>1. n \in Nat /\ ~(n <= n - 1)
          BY <3>3
        <5>. HIDE DEF Bad
        <5>2. n - 1 \notin Bad
          BY <3>2, <5>1
        <5>. QED BY <3>3, <3>5, <5>2
      <4>2. /\ pre(q, n - 1) \in Seq(Seq(T)) /\ q[n] \in Seq(T)
            /\ pre(q, n) = Append(pre(q, n - 1), q[n])
        BY <4>1
      <4>. HIDE DEF pre
      <4>3. flat(pre(q, n - 1)) \in Seq(T)
        BY <4>1
      <4>4. flat(pre(q, n)) = flat(pre(q, n - 1)) \o q[n]
        BY <4>2, FlattenAppend
      <4>. HIDE DEF flat
      <4>5. flat(pre(q, n - 1)) \o q[n] \in Seq(T)
        BY <4>2, <4>3
      <4>. QED BY <3>3, <4>4, <4>5
    <3>. QED BY <3>4, <3>5
  <2>2. Len(q) \in 0..Len(q) /\ pre(q, Len(q)) = q
    OBVIOUS
  <2>. HIDE DEF pre, flat
  <2>. QED BY <2>1, <2>2
<1>2. flat(s \o r) = flat(s) \o flat(r)
  <2>. DEFINE Bad == { n \in 0..Len(r) : flat(s \o pre(r, n)) # flat(s) \o flat(pre(r, n)) }
  <2>1. ASSUME Bad # {} PROVE FALSE
    <3>1. Bad \subseteq Nat
      OBVIOUS
    <3>2. PICK n \in Bad : \A m \in Bad : n <= m
      BY <2>1, <3>1, SmallestOf
    <3>3. n \in 0..Len(r) /\ flat(s \o pre(r, n)) # flat(s) \o flat(pre(r, n))
      BY <3>2
    <3>4. CASE n = 0
      <4>1. pre(r, n) = <<>>
        BY <3>4
      <4>. HIDE DEF pre
      <4>2. flat(<<>>) = <<>>
        BY DEF SeqX!FlattenSeq
      <4>3. flat(s) \in Seq(T)
        BY <1>1
      <4>. HIDE DEF flat
      <4>4. s \o <<>> = s /\ flat(s) \o <<>> = flat(s)
        BY <4>3
      <4>. QED BY <3>3, <4>1, <4>2, <4>4
    <3>5. CASE n # 0
      <4>1. n - 1 \in 0..Len(r) /\ n - 1 \notin Bad /\ n \in 1..Len(r)
        <5>1. n \in Nat /\ ~(n <= n - 1)
          BY <3>3
        <5>. HIDE DEF Bad
        <5>2. n - 1 \notin Bad
          BY <3>2, <5>1
        <5>. QED BY <3>3, <3>5, <5>2
      <4>. DEFINE p == pre(r, n - 1)
      <4>2. p \in Seq(Seq(T)) /\ r[n] \in Seq(T) /\ pre(r, n) = Append(p, r[n])
        BY <4>1
      <4>3. flat(s \o p) = flat(s) \o flat(p)
        BY <4>1
      <4>. HIDE DEF pre, p
      <4>4. flat(s) \in Seq(T) /\ flat(p) \in Seq(T)
        BY <1>1, <4>2
      <4>5. flat(s \o Append(p, r[n])) = flat(s) \o flat(Append(p, r[n]))
        BY <4>2, <4>3, <4>4, FlattenOneMore
      <4>. HIDE DEF flat
      <4>. QED BY <3>3, <4>2, <4>5
    <3>. QED BY <3>4, <3>5
  <2>2. Len(r) \in 0..Len(r) /\ pre(r, Len(r)) = r
    OBVIOUS
  <2>. HIDE DEF pre, flat
  <2>. QED BY <2>1, <2>2
<1>. QED BY <1>1, <1>2

LEMMA NothingFirst ==
  ASSUME NEW T
  PROVE  <<>> \in Seq(T) /\ \A s \in Seq(T) : <<>> \o s = s /\ s \o <<>> = s
<1>1. <<>> \in Seq(T)
  OBVIOUS
<1>2. ASSUME NEW s \in Seq(T) PROVE <<>> \o s = s /\ s \o <<>> = s
  OBVIOUS
<1>. QED BY <1>1, <1>2

LEMMA JoinFunction ==
  ASSUME NEW T, NEW a \in Seq(T), NEW b \in Seq(T)
  PROVE  /\ a \o b \in Seq(T) /\ Len(a \o b) = Len(a) + Len(b)
         /\ a \o b = [ n \in 1..(Len(a) + Len(b)) |-> (a \o b)[n] ]
<1>1. a \o b \in Seq(T) /\ Len(a \o b) = Len(a) + Len(b)
  OBVIOUS
<1>2. ASSUME NEW s \in Seq(T) PROVE s = [ n \in 1..Len(s) |-> s[n] ]
  OBVIOUS
<1>. QED BY <1>1, <1>2

-----------------------------------------------------------------------------
(* What parts put together.                                                *)

Kinds == {"thought", "text", "functionCall"}

PartType == [kind : Kinds, id : Int, of : Seq(Nat)]

Pieces(parts, kind) == [ n \in DOMAIN parts |-> PutBy(parts[n], kind) ]

PutOf(parts, kind) == SeqX!FlattenSeq(Pieces(parts, kind))

LEMMA PiecesAre ==
  ASSUME NEW parts \in Seq(PartType), NEW kind
  PROVE  /\ Len(parts) \in Nat /\ DOMAIN parts = 1..Len(parts)
         /\ Pieces(parts, kind) \in Seq(Seq(Nat)) /\ Len(Pieces(parts, kind)) = Len(parts)
         /\ \A n \in 1..Len(parts) : Pieces(parts, kind)[n] = PutBy(parts[n], kind)
<1>1. Len(parts) \in Nat /\ DOMAIN parts = 1..Len(parts)
  OBVIOUS
<1>2. ASSUME NEW n \in 1..Len(parts) PROVE PutBy(parts[n], kind) \in Seq(Nat)
  <2>1. parts[n] \in PartType
    OBVIOUS
  <2>2. parts[n].of \in Seq(Nat)
    BY <2>1 DEF PartType
  <2>. QED BY <2>2, NothingFirst DEF PutBy
<1>3. Pieces(parts, kind) \in [1..Len(parts) -> Seq(Nat)]
  BY <1>1, <1>2 DEF Pieces
<1>4. Pieces(parts, kind) \in Seq(Seq(Nat)) /\ Len(Pieces(parts, kind)) = Len(parts)
  BY <1>1, <1>3
<1>5. \A n \in 1..Len(parts) : Pieces(parts, kind)[n] = PutBy(parts[n], kind)
  BY <1>1 DEF Pieces
<1>. QED BY <1>1, <1>4, <1>5

\* Parts put end to end put their pieces end to end.
LEMMA PutJoin ==
  ASSUME NEW p \in Seq(PartType), NEW q \in Seq(PartType), NEW kind
  PROVE  /\ PutOf(p, kind) \in Seq(Nat) /\ PutOf(q, kind) \in Seq(Nat)
         /\ PutOf(p \o q, kind) = PutOf(p, kind) \o PutOf(q, kind)
<1>. DEFINE all == p \o q
            a == Pieces(p, kind)
            b == Pieces(q, kind)
            c == Pieces(all, kind)
<1>1. /\ Len(p) \in Nat /\ a \in Seq(Seq(Nat)) /\ Len(a) = Len(p)
      /\ \A n \in 1..Len(p) : a[n] = PutBy(p[n], kind)
  BY PiecesAre
<1>2. /\ Len(q) \in Nat /\ b \in Seq(Seq(Nat)) /\ Len(b) = Len(q)
      /\ \A n \in 1..Len(q) : b[n] = PutBy(q[n], kind)
  BY PiecesAre
<1>3. all \in Seq(PartType) /\ Len(all) = Len(p) + Len(q)
  BY JoinFunction
<1>4. /\ \A n \in 1..Len(p) : all[n] = p[n]
      /\ \A n \in 1..Len(q) : all[Len(p) + n] = q[n]
  OBVIOUS
<1>5. \A k \in 1..(Len(p) + Len(q)) : k \in 1..Len(p) \/ \E m \in 1..Len(q) : k = Len(p) + m
  <2>1. \A x, y \in Nat : \A k \in 1..(x + y) : k \in 1..x \/ (k - x \in 1..y /\ k = x + (k - x))
    OBVIOUS
  <2>2. Len(p) \in Nat /\ Len(q) \in Nat
    OBVIOUS
  <2>. QED BY <2>1, <2>2
<1>6. /\ c \in Seq(Seq(Nat)) /\ Len(c) = Len(p) + Len(q)
      /\ \A n \in 1..(Len(p) + Len(q)) : c[n] = PutBy(all[n], kind)
  BY <1>3, PiecesAre
<1>. HIDE DEF a, b, c, all
<1>7. ASSUME NEW n \in 1..(Len(p) + Len(q)) PROVE c[n] = (a \o b)[n]
  <2>1. CASE n \in 1..Len(p)
    <3>1. (a \o b)[n] = a[n]
      BY <1>1, <1>2, <2>1
    <3>. QED BY <1>1, <1>4, <1>6, <2>1, <3>1
  <2>2. ASSUME NEW m \in 1..Len(q), n = Len(p) + m PROVE c[n] = (a \o b)[n]
    <3>1. (a \o b)[n] = b[m]
      BY <1>1, <1>2, <2>2
    <3>. QED BY <1>2, <1>4, <1>6, <2>2, <3>1
  <2>. QED BY <1>5, <2>1, <2>2
<1>8. c = a \o b
  <2>1. a \o b = [ n \in 1..(Len(p) + Len(q)) |-> (a \o b)[n] ]
    <3>1. a \o b = [ n \in 1..(Len(a) + Len(b)) |-> (a \o b)[n] ]
      BY <1>1, <1>2, JoinFunction
    <3>2. Len(a) = Len(p) /\ Len(b) = Len(q)
      BY <1>1, <1>2
    <3>. QED BY <3>1, <3>2
  <2>2. c = [ n \in 1..(Len(p) + Len(q)) |-> c[n] ]
    BY <1>6
  <2>. QED BY <1>7, <2>1, <2>2
<1>9. /\ SeqX!FlattenSeq(a) \in Seq(Nat) /\ SeqX!FlattenSeq(b) \in Seq(Nat)
      /\ SeqX!FlattenSeq(a \o b) = SeqX!FlattenSeq(a) \o SeqX!FlattenSeq(b)
  BY <1>1, <1>2, FlattenJoin
<1>. QED BY <1>8, <1>9 DEF PutOf, a, b, c, all

LEMMA PutNothing ==
  ASSUME NEW kind
  PROVE  <<>> \in Seq(PartType) /\ PutOf(<<>>, kind) = <<>>
<1>1. <<>> \in Seq(PartType)
  BY NothingFirst
<1>2. Pieces(<<>>, kind) = <<>>
  BY DEF Pieces
<1>3. SeqX!FlattenSeq(<<>>) = <<>>
  BY DEF SeqX!FlattenSeq
<1>. QED BY <1>1, <1>2, <1>3 DEF PutOf

LEMMA PutOne ==
  ASSUME NEW part \in PartType, NEW kind
  PROVE  <<part>> \in Seq(PartType) /\ PutOf(<<part>>, kind) = PutBy(part, kind)
<1>. DEFINE x == PutBy(part, kind)
<1>1. <<part>> \in Seq(PartType) /\ Len(<<part>>) = 1 /\ <<part>>[1] = part
  OBVIOUS
<1>2. part.of \in Seq(Nat)
  BY DEF PartType
<1>3. x \in Seq(Nat)
  BY <1>2, NothingFirst DEF PutBy
<1>4. Pieces(<<part>>, kind) = <<x>>
  <2>1. DOMAIN <<part>> = {1}
    BY <1>1
  <2>2. Pieces(<<part>>, kind) = [ n \in {1} |-> PutBy(<<part>>[n], kind) ]
    BY <2>1 DEF Pieces
  <2>3. <<x>> = [ n \in {1} |-> x ]
    OBVIOUS
  <2>. QED BY <1>1, <2>2, <2>3
<1>. HIDE DEF x
<1>5. <<>> \in Seq(Seq(Nat)) /\ Append(<<>>, x) = <<x>> /\ <<>> \o x = x
  <2>1. <<>> \in Seq(Seq(Nat)) /\ <<>> \o x = x
    BY <1>3, NothingFirst
  <2>. QED BY <2>1
<1>6. SeqX!FlattenSeq(Append(<<>>, x)) = SeqX!FlattenSeq(<<>>) \o x
  BY <1>3, <1>5, FlattenAppend
<1>7. SeqX!FlattenSeq(<<>>) = <<>>
  BY DEF SeqX!FlattenSeq
<1>. QED BY <1>1, <1>4, <1>5, <1>6, <1>7 DEF PutOf, x

-----------------------------------------------------------------------------
(* The parts of a chunk.                                                   *)

LEMMA ChunkFields ==
  ASSUME NEW chunk \in Chunks
  PROVE  /\ chunk.reasoning \in BOOLEAN /\ chunk.content \in BOOLEAN
         /\ IsFiniteSet(chunk.calls) /\ chunk.calls \subseteq Nat
         /\ chunk.finish \in Call!Finishes
<1>1. chunk \in Call!Chunk(Nat)
  BY ChunksAssumption, Zenon
<1>2. chunk.reasoning \in BOOLEAN /\ chunk.content \in BOOLEAN
  BY <1>1, Zenon DEF Call!Chunk
<1>3. chunk.finish \in Call!Finishes
  BY <1>1, Zenon DEF Call!Chunk
<1>4. chunk.calls \in SUBSET Nat
  BY <1>1, Zenon DEF Call!Chunk
<1>5. IsFiniteSet(chunk.calls)
  BY ChunksAssumption, Zenon
<1>. QED BY <1>2, <1>3, <1>4, <1>5

\* The id of a call is told with its first fragment.
IdOf(i, begun) == IF i \in begun THEN None ELSE i

CallPart(i, n, begun) == Part("functionCall", IdOf(i, begun), <<n>>)

LEMMA CallPartIs ==
  ASSUME NEW i \in Nat, NEW n \in Nat, NEW begun
  PROVE  /\ CallPart(i, n, begun) \in PartType
         /\ PutBy(CallPart(i, n, begun), "thought") = <<>>
         /\ PutBy(CallPart(i, n, begun), "text") = <<>>
         /\ PutBy(CallPart(i, n, begun), "functionCall") = <<n>>
<1>1. IdOf(i, begun) \in Int
  BY DEF IdOf, None
<1>2. <<n>> \in Seq(Nat)
  OBVIOUS
<1>3. CallPart(i, n, begun) \in PartType
  BY <1>1, <1>2 DEF CallPart, Part, PartType, Kinds
<1>. QED BY <1>3 DEF CallPart, Part, PutBy

\* Parts of calls only.
LEMMA OnlyCalls ==
  ASSUME NEW parts \in Seq(PartType), NEW kind, \A k \in 1..Len(parts) : PutBy(parts[k], kind) = <<>>
  PROVE  PutOf(parts, kind) = <<>>
<1>. DEFINE pre(k) == [ i \in 1..k |-> parts[i] ]
            Bad == { k \in 0..Len(parts) : PutOf(pre(k), kind) # <<>> }
<1>0. Len(parts) \in Nat
  OBVIOUS
<1>1. ASSUME Bad # {} PROVE FALSE
  <2>1. Bad \subseteq Nat
    OBVIOUS
  <2>2. PICK k \in Bad : \A m \in Bad : k <= m
    BY <1>1, <2>1, SmallestOf
  <2>3. k \in 0..Len(parts) /\ k \in Nat /\ PutOf(pre(k), kind) # <<>>
    BY <2>2
  <2>4. CASE k = 0
    <3>1. pre(k) = <<>>
      BY <2>4
    <3>. HIDE DEF pre
    <3>. QED BY <2>3, <3>1, PutNothing
  <2>5. CASE k # 0
    <3>1. k - 1 \in 0..Len(parts) /\ k \in 1..Len(parts) /\ k - 1 \notin Bad
      <4>1. ~(k <= k - 1)
        BY <2>3
      <4>. HIDE DEF Bad
      <4>2. k - 1 \notin Bad
        BY <2>2, <4>1
      <4>. QED BY <2>3, <2>5, <4>2
    <3>2. pre(k - 1) \in Seq(PartType) /\ parts[k] \in PartType /\ pre(k) = pre(k - 1) \o <<parts[k]>>
      <4>1. \A i \in 1..k : parts[i] \in PartType
        BY <3>1
      <4>2. pre(k - 1) \in Seq(PartType) /\ parts[k] \in PartType
        BY <2>3, <3>1, <4>1
      <4>3. Len(pre(k - 1)) = k - 1
        BY <3>1
      <4>. QED BY <2>3, <3>1, <4>2, <4>3
    <3>3. PutOf(pre(k - 1), kind) = <<>>
      BY <3>1
    <3>. HIDE DEF pre, Bad
    <3>4. <<parts[k]>> \in Seq(PartType) /\ PutOf(<<parts[k]>>, kind) = <<>>
      BY <3>1, <3>2, PutOne
    <3>5. PutOf(pre(k), kind) = <<>> \o <<>>
      <4>. DEFINE p == pre(k - 1)
                  q == <<parts[k]>>
      <4>1. p \in Seq(PartType) /\ q \in Seq(PartType) /\ pre(k) = p \o q
        BY <3>2, <3>4
      <4>2. PutOf(p, kind) = <<>> /\ PutOf(q, kind) = <<>>
        BY <3>3, <3>4
      <4>. HIDE DEF p, q
      <4>3. PutOf(p \o q, kind) = PutOf(p, kind) \o PutOf(q, kind)
        BY <4>1, PutJoin
      <4>. QED BY <4>1, <4>2, <4>3
    <3>6. <<>> \o <<>> = <<>>
      BY NothingFirst
    <3>. QED BY <2>3, <3>5, <3>6
  <2>. QED BY <2>4, <2>5
<1>2. Len(parts) \in 0..Len(parts) /\ pre(Len(parts)) = parts
  BY <1>0
<1>. HIDE DEF pre
<1>. QED BY <1>1, <1>2

\* What the parts of calls put together.
LEMMA FunctionCallsAre ==
  ASSUME NEW chunk \in Chunks, NEW n \in Nat, NEW parts, parts = FunctionCalls(chunk, n)
  PROVE  /\ parts \in Seq(PartType)
         /\ PutOf(parts, "thought") = <<>> /\ PutOf(parts, "text") = <<>>
         /\ \A i \in chunk.calls : \E k \in DOMAIN parts : parts[k] = CallPart(i, n, Begun(n))
         /\ \A i : chunk.calls \subseteq {i} =>
              PutOf(parts, "functionCall") = IF i \in chunk.calls THEN <<n>> ELSE <<>>
<1>. DEFINE S == chunk.calls
            K == Cardinality(S)
            nth(k) == CHOOSE i \in S : Below(S, i) = k - 1
<1>1. IsFiniteSet(S) /\ S \subseteq Nat
  BY ChunkFields
<1>2. K \in Nat
  BY <1>1, FS_CardinalityType
<1>3. parts = [ k \in 1..K |-> CallPart(nth(k), n, Begun(n)) ]
  BY DEF FunctionCalls, Below, CallPart, IdOf
<1>4. \A k \in 1..K : nth(k) \in S /\ Below(S, nth(k)) = k - 1
  <2>. TAKE k \in 1..K
  <2>1. k - 1 \in 0..(Cardinality(S) - 1)
    BY <1>2
  <2>2. \E i \in S : Below(S, i) = k - 1
    BY <1>1, <2>1, BelowNumbers
  <2>. QED BY <2>2
<1>. HIDE DEF nth, S
<1>5. ASSUME NEW i \in S PROVE \E k \in 1..K : nth(k) = i
  <2>. DEFINE k == Below(S, i) + 1
  <2>1. Below(S, i) \in 0..(Cardinality(S) - 1)
    BY <1>1, BelowNumbers
  <2>2. k \in 1..K /\ k - 1 = Below(S, i)
    BY <1>2, <2>1
  <2>. HIDE DEF k
  <2>3. Below(S, nth(k)) = Below(S, i) /\ nth(k) \in S
    BY <1>4, <2>2
  <2>4. nth(k) = i
    BY <1>1, <2>3, BelowNumbers
  <2>. QED BY <2>2, <2>4
<1>. HIDE DEF K
<1>6. \A k \in 1..K : parts[k] = CallPart(nth(k), n, Begun(n)) /\ nth(k) \in Nat
  BY <1>1, <1>3, <1>4
<1>7. DOMAIN parts = 1..K
  BY <1>3
<1>8. \A k \in 1..K : /\ parts[k] \in PartType
                      /\ PutBy(parts[k], "thought") = <<>> /\ PutBy(parts[k], "text") = <<>>
                      /\ PutBy(parts[k], "functionCall") = <<n>>
  BY <1>6, CallPartIs
<1>9. parts \in Seq(PartType) /\ Len(parts) = K
  <2>1. parts = [ k \in 1..K |-> parts[k] ]
    BY <1>3, <1>6
  <2>2. parts \in [1..K -> PartType]
    BY <1>8, <2>1
  <2>. QED BY <1>2, <2>2
<1>10. PutOf(parts, "thought") = <<>> /\ PutOf(parts, "text") = <<>>
  BY <1>8, <1>9, OnlyCalls
<1>11. \A i \in S : \E k \in DOMAIN parts : parts[k] = CallPart(i, n, Begun(n))
  BY <1>5, <1>6, <1>7
<1>12. ASSUME NEW i, S \subseteq {i}
       PROVE  PutOf(parts, "functionCall") = IF i \in S THEN <<n>> ELSE <<>>
  <2>1. CASE i \in S
    <3>0. S = {i}
      BY <1>12, <2>1
    <3>1. K = 1
      BY <3>0, FS_Singleton DEF K
    <3>2. parts = <<parts[1]>> /\ 1 \in 1..K
      BY <1>9, <3>1
    <3>. QED BY <1>8, <2>1, <3>2, PutOne
  <2>2. CASE i \notin S
    <3>1. S = {} /\ K = 0
      BY <1>12, <2>2, FS_EmptySet DEF K
    <3>2. parts = <<>>
      BY <1>9, <3>1
    <3>. QED BY <2>2, <3>2, PutNothing
  <2>. QED BY <2>1, <2>2
<1>. QED BY <1>9, <1>10, <1>11, <1>12 DEF S

\* The part that says that there is none.
LEMMA EmptyPart ==
  /\ Part("text", None, <<>>) \in PartType
  /\ \A kind : PutBy(Part("text", None, <<>>), kind) = <<>>
<1>1. None \in Int /\ <<>> \in Seq(Nat)
  BY DEF None
<1>. QED BY <1>1 DEF Part, PartType, Kinds, PutBy

\* A piece of reasoning or of text, if there is one.
PieceIf(there, kind, n) == IF there THEN <<Part(kind, None, <<n>>)>> ELSE <<>>

LEMMA PieceIfIs ==
  ASSUME NEW there \in BOOLEAN, NEW kind \in {"thought", "text"}, NEW n \in Nat
  PROVE  /\ PieceIf(there, kind, n) \in Seq(PartType)
         /\ \A other : PutOf(PieceIf(there, kind, n), other)
                         = IF there /\ kind = other THEN <<n>> ELSE <<>>
<1>1. CASE there = TRUE
  <2>. DEFINE part == Part(kind, None, <<n>>)
  <2>1. None \in Int /\ <<n>> \in Seq(Nat)
    BY DEF None
  <2>2. part \in PartType
    BY <2>1 DEF Part, PartType, Kinds
  <2>3. \A other : PutBy(part, other) = IF kind = other THEN <<n>> ELSE <<>>
    BY DEF Part, PutBy
  <2>4. PieceIf(there, kind, n) = <<part>>
    BY <1>1 DEF PieceIf
  <2>. HIDE DEF part
  <2>. QED BY <1>1, <2>2, <2>3, <2>4, PutOne
<1>2. CASE there = FALSE
  <2>1. PieceIf(there, kind, n) = <<>>
    BY <1>2 DEF PieceIf
  <2>. QED BY <1>2, <2>1, PutNothing
<1>. QED BY <1>1, <1>2

StandsIn(x, s) == \E m \in DOMAIN s : s[m] = x

\* What stands in one of two sequences stands in them put end to end.
LEMMA StandsInJoin ==
  ASSUME NEW T, NEW a \in Seq(T), NEW b \in Seq(T), NEW x, StandsIn(x, a) \/ StandsIn(x, b)
  PROVE  StandsIn(x, a \o b)
<1>1. ASSUME NEW m \in DOMAIN a, a[m] = x PROVE StandsIn(x, a \o b)
  <2>1. m \in DOMAIN (a \o b) /\ (a \o b)[m] = x
    BY <1>1
  <2>. QED BY <2>1 DEF StandsIn
<1>2. ASSUME NEW m \in DOMAIN b, b[m] = x PROVE StandsIn(x, a \o b)
  <2>1. Len(a) + m \in DOMAIN (a \o b) /\ (a \o b)[Len(a) + m] = x
    BY <1>2
  <2>. QED BY <2>1 DEF StandsIn
<1>. QED BY <1>1, <1>2 DEF StandsIn

\* The parts that are told of a chunk, the n-th: each of its pieces once.
PartsOfChunk(parts, chunk, n, begun) ==
  /\ parts \in Seq(PartType)
  /\ PutOf(parts, "thought") = IF chunk.reasoning THEN <<n>> ELSE <<>>
  /\ PutOf(parts, "text") = IF chunk.content THEN <<n>> ELSE <<>>
  /\ \A i \in chunk.calls : StandsIn(CallPart(i, n, begun), parts)
  /\ \A i : chunk.calls \subseteq {i} =>
       PutOf(parts, "functionCall") = IF i \in chunk.calls THEN <<n>> ELSE <<>>

LEMMA ContentParts ==
  ASSUME NEW chunk \in Chunks, NEW n \in Nat
  PROVE  PartsOfChunk(ContentFromMessage(chunk, n), chunk, n, Begun(n))
<1>. DEFINE t == PieceIf(chunk.reasoning, "thought", n)
            c == PieceIf(chunk.content, "text", n)
            f == FunctionCalls(chunk, n)
            all == (t \o c) \o f
            empty == Part("text", None, <<>>)
<1>1. chunk.reasoning \in BOOLEAN /\ chunk.content \in BOOLEAN
  BY ChunkFields
<1>2. /\ t \in Seq(PartType)
      /\ \A kind : PutOf(t, kind) = IF chunk.reasoning /\ "thought" = kind THEN <<n>> ELSE <<>>
  BY <1>1, PieceIfIs
<1>3. /\ c \in Seq(PartType)
      /\ \A kind : PutOf(c, kind) = IF chunk.content /\ "text" = kind THEN <<n>> ELSE <<>>
  BY <1>1, PieceIfIs
<1>4. /\ f \in Seq(PartType)
      /\ PutOf(f, "thought") = <<>> /\ PutOf(f, "text") = <<>>
      /\ \A i \in chunk.calls : StandsIn(CallPart(i, n, Begun(n)), f)
      /\ \A i : chunk.calls \subseteq {i} =>
           PutOf(f, "functionCall") = IF i \in chunk.calls THEN <<n>> ELSE <<>>
  BY FunctionCallsAre DEF StandsIn
<1>5. ContentFromMessage(chunk, n) = IF all = <<>> THEN <<empty>> ELSE all
  BY DEF ContentFromMessage, PieceIf
<1>6. empty \in PartType /\ \A kind : PutBy(empty, kind) = <<>>
  BY EmptyPart
<1>. HIDE DEF t, c, f, empty
<1>7. /\ t \o c \in Seq(PartType) /\ all \in Seq(PartType)
      /\ \A kind : PutOf(all, kind) = (PutOf(t, kind) \o PutOf(c, kind)) \o PutOf(f, kind)
  <2>1. t \o c \in Seq(PartType) /\ all \in Seq(PartType)
    BY <1>2, <1>3, <1>4, JoinFunction
  <2>2. ASSUME NEW kind PROVE PutOf(all, kind) = (PutOf(t, kind) \o PutOf(c, kind)) \o PutOf(f, kind)
    <3>. DEFINE tc == t \o c
    <3>1. PutOf(tc, kind) = PutOf(t, kind) \o PutOf(c, kind)
      BY <1>2, <1>3, PutJoin
    <3>2. tc \in Seq(PartType)
      BY <2>1
    <3>. HIDE DEF tc
    <3>3. PutOf(tc \o f, kind) = PutOf(tc, kind) \o PutOf(f, kind)
      BY <1>4, <3>2, PutJoin
    <3>. QED BY <3>1, <3>3 DEF tc
  <2>. QED BY <2>1, <2>2
<1>8. \A i \in chunk.calls : StandsIn(CallPart(i, n, Begun(n)), all)
  <2>. DEFINE tc == t \o c
  <2>1. tc \in Seq(PartType)
    BY <1>7
  <2>. HIDE DEF tc
  <2>2. \A x : StandsIn(x, f) => StandsIn(x, tc \o f)
    BY <1>4, <2>1, StandsInJoin
  <2>. QED BY <1>4, <2>2 DEF tc
<1>9. <<>> \in Seq(Nat) /\ <<n>> \in Seq(Nat) /\ \A s \in Seq(Nat) : <<>> \o s = s /\ s \o <<>> = s
  <2>1. <<n>> \in Seq(Nat)
    OBVIOUS
  <2>. QED BY <2>1, NothingFirst
<1>. HIDE DEF all
<1>10. PutOf(all, "thought") = IF chunk.reasoning THEN <<n>> ELSE <<>>
  <2>1. PutOf(t, "thought") = (IF chunk.reasoning THEN <<n>> ELSE <<>>) /\ PutOf(c, "thought") = <<>>
    BY <1>2, <1>3
  <2>. QED BY <1>4, <1>7, <1>9, <2>1
<1>11. PutOf(all, "text") = IF chunk.content THEN <<n>> ELSE <<>>
  <2>1. PutOf(c, "text") = (IF chunk.content THEN <<n>> ELSE <<>>) /\ PutOf(t, "text") = <<>>
    BY <1>2, <1>3
  <2>. QED BY <1>4, <1>7, <1>9, <2>1
<1>12. ASSUME NEW i, chunk.calls \subseteq {i}
       PROVE  PutOf(all, "functionCall") = IF i \in chunk.calls THEN <<n>> ELSE <<>>
  <2>1. PutOf(t, "functionCall") = <<>> /\ PutOf(c, "functionCall") = <<>>
    BY <1>2, <1>3
  <2>2. PutOf(f, "functionCall") = IF i \in chunk.calls THEN <<n>> ELSE <<>>
    BY <1>4, <1>12
  <2>. QED BY <1>7, <1>9, <2>1, <2>2
<1>13. CASE all # <<>>
  <2>1. ContentFromMessage(chunk, n) = all
    BY <1>5, <1>13
  <2>. QED BY <1>7, <1>8, <1>10, <1>11, <1>12, <2>1 DEF PartsOfChunk
<1>14. CASE all = <<>>
  <2>1. /\ <<empty>> \in Seq(PartType) /\ \A kind : PutOf(<<empty>>, kind) = <<>>
    BY <1>6, PutOne
  <2>2. \A kind : PutOf(all, kind) = <<>>
    BY <1>14, PutNothing
  <2>3. chunk.calls = {}
    <3>1. DOMAIN all = {}
      BY <1>14
    <3>. QED BY <1>8, <3>1 DEF StandsIn
  <2>4. ContentFromMessage(chunk, n) = <<empty>>
    BY <1>5, <1>14
  <2>. DEFINE one == <<empty>>
  <2>. HIDE DEF one
  <2>5. one \in Seq(PartType) /\ \A kind : PutOf(one, kind) = PutOf(all, kind)
    BY <2>1, <2>2 DEF one
  <2>6. ContentFromMessage(chunk, n) = one
    BY <2>4 DEF one
  <2>. QED BY <1>10, <1>11, <1>12, <2>3, <2>5, <2>6 DEF PartsOfChunk
<1>. QED BY <1>13, <1>14

-----------------------------------------------------------------------------
(* What is told of the chunks that came.                                   *)

ReasoningIn(s) == { n \in DOMAIN s : s[n].reasoning }
ContentIn(s) == { n \in DOMAIN s : s[n].content }
CallIn(s, i) == { n \in DOMAIN s : i \in s[n].calls }

CallsIn(s) == UNION { s[n].calls : n \in DOMAIN s }

BegunIn(s, n) == UNION { s[k].calls : k \in DOMAIN s \cap 1..(n - 1) }

TellType == [parts : Seq(PartType), finish : {"STOP", "MAX_TOKENS", "SAFETY"}, error : {""}]

PartsTold(t) == SeqX!FlattenSeq([ n \in DOMAIN t |-> t[n].parts ])

\* t is what a client is told of the chunks s.
Took(s, t) ==
  /\ t \in Seq(TellType) /\ Len(t) = Len(s)
  /\ PartsTold(t) \in Seq(PartType)
  /\ PutOf(PartsTold(t), "thought") = Call!InOrder(ReasoningIn(s))
  /\ PutOf(PartsTold(t), "text") = Call!InOrder(ContentIn(s))
  /\ \A n \in DOMAIN s :
       /\ t[n].finish = FinishReason(s[n].finish)
       /\ \A i \in s[n].calls : StandsIn(CallPart(i, n, BegunIn(s, n)), PartsTold(t))
  /\ \A i : CallsIn(s) \subseteq {i} =>
       PutOf(PartsTold(t), "functionCall") = Call!InOrder(CallIn(s, i))

\* Of nothing a client is told nothing.
LEMMA TookNothing == Took(<<>>, <<>>)
<1>1. PartsTold(<<>>) = <<>>
  BY DEF PartsTold, SeqX!FlattenSeq
<1>2. /\ PartsTold(<<>>) \in Seq(PartType)
      /\ \A kind : PutOf(PartsTold(<<>>), kind) = <<>>
  BY <1>1, PutNothing
<1>3. /\ ReasoningIn(<<>>) = {} /\ ContentIn(<<>>) = {} /\ \A i : CallIn(<<>>, i) = {}
      /\ DOMAIN <<>> = {}
  BY DEF ReasoningIn, ContentIn, CallIn
<1>4. <<>> \in Seq(TellType)
  BY NothingFirst
<1>5. Len(<<>>) = Len(<<>>)
  OBVIOUS
<1>. QED BY <1>2, <1>3, <1>4, <1>5, InOrderEmpty DEF Took

\* r is s and the chunk, which is the n-th.
Places(s, r, chunk, n) ==
  /\ n \in Nat /\ DOMAIN s = 1..(n - 1) /\ DOMAIN r = DOMAIN s \cup {n} /\ Len(r) = n
  /\ r[n] = chunk /\ \A k \in DOMAIN s : r[k] = s[k] /\ k < n
  /\ ReasoningIn(r) = ReasoningIn(s) \cup IF chunk.reasoning THEN {n} ELSE {}
  /\ ContentIn(r) = ContentIn(s) \cup IF chunk.content THEN {n} ELSE {}
  /\ \A i : CallIn(r, i) = CallIn(s, i) \cup IF i \in chunk.calls THEN {n} ELSE {}
  /\ CallsIn(r) = CallsIn(s) \cup chunk.calls
  /\ \A k \in DOMAIN s : BegunIn(r, k) = BegunIn(s, k)
  /\ BegunIn(r, n) = BegunIn(s, n)

\* The places of the pieces, with one more chunk.
LEMMA PlacesAppend ==
  ASSUME NEW s \in Seq(Chunks), NEW chunk \in Chunks, NEW n, n = Len(s) + 1, NEW r, r = Append(s, chunk)
  PROVE  Places(s, r, chunk, n)
<1>1. /\ n \in Nat /\ DOMAIN s = 1..(n - 1) /\ DOMAIN r = DOMAIN s \cup {n} /\ Len(r) = n
      /\ r[n] = chunk
  OBVIOUS
<1>2. \A k \in DOMAIN s : r[k] = s[k] /\ k < n
  OBVIOUS
<1>3. ReasoningIn(r) = ReasoningIn(s) \cup IF chunk.reasoning THEN {n} ELSE {}
  BY <1>1, <1>2 DEF ReasoningIn
<1>4. ContentIn(r) = ContentIn(s) \cup IF chunk.content THEN {n} ELSE {}
  BY <1>1, <1>2 DEF ContentIn
<1>5. \A i : CallIn(r, i) = CallIn(s, i) \cup IF i \in chunk.calls THEN {n} ELSE {}
  BY <1>1, <1>2 DEF CallIn
<1>6. CallsIn(r) = CallsIn(s) \cup chunk.calls
  BY <1>1, <1>2 DEF CallsIn
<1>7. ASSUME NEW k \in DOMAIN s PROVE BegunIn(r, k) = BegunIn(s, k)
  <2>1. DOMAIN r \cap 1..(k - 1) = DOMAIN s \cap 1..(k - 1)
    <3>1. k \in Nat /\ k < n
      BY <1>1, <1>2
    <3>. QED BY <1>1, <3>1
  <2>. QED BY <1>2, <2>1 DEF BegunIn
<1>8. BegunIn(r, n) = BegunIn(s, n)
  <2>1. DOMAIN r \cap 1..(n - 1) = DOMAIN s \cap 1..(n - 1)
    BY <1>1
  <2>. QED BY <1>2, <2>1 DEF BegunIn
<1>. QED BY <1>1, <1>2, <1>3, <1>4, <1>5, <1>6, <1>7, <1>8 DEF Places

\* A piece that comes, if it does, comes last.
LEMMA OnePieceMore ==
  ASSUME NEW n \in Nat, NEW S, S \subseteq 1..(n - 1), NEW there \in BOOLEAN,
         NEW T, T = S \cup IF there THEN {n} ELSE {}
  PROVE  Call!InOrder(S) \o (IF there THEN <<n>> ELSE <<>>) = Call!InOrder(T)
<1>1. IsFiniteSet(S) /\ S \subseteq Nat /\ \A i \in S : i < n
  <2>1. n - 1 \in Int /\ 1 \in Int
    OBVIOUS
  <2>2. IsFiniteSet(1..(n - 1))
    BY <2>1, FS_Interval
  <2>3. S \in SUBSET (1..(n - 1))
    OBVIOUS
  <2>4. IsFiniteSet(S)
    BY <2>2, <2>3, FS_Subset
  <2>5. \A i \in 1..(n - 1) : i \in Nat /\ i < n
    OBVIOUS
  <2>. QED BY <2>3, <2>4, <2>5
<1>2. Call!InOrder(S) \in Seq(Nat)
  <2>. DEFINE q == Call!InOrder(S)
              N == Cardinality(S)
  <2>1. N \in Nat /\ q \in Seq(S) /\ Len(q) = N /\ \A k \in 1..N : q[k] \in S
    BY <1>1, InOrderFacts
  <2>. HIDE DEF q, N
  <2>2. q = [ k \in 1..N |-> q[k] ] /\ \A k \in 1..N : q[k] \in Nat
    BY <1>1, <2>1
  <2>3. q \in [1..N -> Nat]
    BY <2>2
  <2>. QED BY <2>1, <2>3 DEF q
<1>3. CASE there = TRUE
  <2>1. T = S \cup {n}
    BY <1>3
  <2>2. Call!InOrder(S \cup {n}) = Append(Call!InOrder(S), n)
    BY <1>1, InOrderAppend
  <2>3. \A q \in Seq(Nat) : q \o <<n>> = Append(q, n)
    OBVIOUS
  <2>. QED BY <1>2, <1>3, <2>1, <2>2, <2>3
<1>4. CASE there = FALSE
  <2>1. T = S
    BY <1>4
  <2>. QED BY <1>2, <1>4, <2>1, NothingFirst
<1>. QED BY <1>3, <1>4

\* What is told of a chunk, as an entry.
TellOfChunk(new, chunk, n, begun) ==
  /\ new \in TellType
  /\ PartsOfChunk(new.parts, chunk, n, begun)
  /\ new.finish = FinishReason(chunk.finish)

LEMMA PartsToldAppend ==
  ASSUME NEW t \in Seq(TellType), NEW new \in TellType
  PROVE  /\ PartsTold(t) \in Seq(PartType)
         /\ PartsTold(Append(t, new)) = PartsTold(t) \o new.parts
<1>. DEFINE a == [ k \in DOMAIN t |-> t[k].parts ]
            u == Append(t, new)
            b == [ k \in DOMAIN u |-> u[k].parts ]
<1>1. \A x \in TellType : x.parts \in Seq(PartType)
  BY DEF TellType
<1>2. /\ Len(t) \in Nat /\ DOMAIN t = 1..Len(t) /\ \A k \in 1..Len(t) : t[k] \in TellType
      /\ DOMAIN u = 1..(Len(t) + 1) /\ u[Len(t) + 1] = new /\ \A k \in 1..Len(t) : u[k] = t[k]
  OBVIOUS
<1>. HIDE DEF u
<1>3. a \in [1..Len(t) -> Seq(PartType)]
  BY <1>1, <1>2
<1>4. a \in Seq(Seq(PartType)) /\ Len(a) = Len(t) /\ \A k \in 1..Len(t) : a[k] = t[k].parts
  <2>1. \A k \in 1..Len(t) : a[k] = t[k].parts
    BY <1>2
  <2>. HIDE DEF a
  <2>. QED BY <1>2, <1>3, <2>1
<1>5. \A k \in 1..(Len(t) + 1) : u[k] = IF k = Len(t) + 1 THEN new ELSE t[k]
  BY <1>2
<1>6. b = [ k \in 1..(Len(t) + 1) |-> IF k = Len(t) + 1 THEN new.parts ELSE t[k].parts ]
  BY <1>2, <1>5
<1>7. b = Append(a, new.parts)
  <2>. HIDE DEF a, b
  <2>. QED BY <1>2, <1>4, <1>6
<1>. HIDE DEF a, b
<1>8. SeqX!FlattenSeq(a) \in Seq(PartType)
  BY <1>4, NothingFirst, FlattenJoin
<1>9. SeqX!FlattenSeq(Append(a, new.parts)) = SeqX!FlattenSeq(a) \o new.parts
  BY <1>1, <1>4, FlattenAppend
<1>. QED BY <1>7, <1>8, <1>9 DEF PartsTold, a, b, u

LEMMA TookMore ==
  ASSUME NEW s \in Seq(Chunks), NEW t, Took(s, t), NEW chunk \in Chunks, NEW n, n = Len(s) + 1,
         NEW new, TellOfChunk(new, chunk, n, BegunIn(s, n))
  PROVE  Took(Append(s, chunk), Append(t, new))
<1>. DEFINE r == Append(s, chunk)
            u == Append(t, new)
            p == PartsTold(t)
            q == new.parts
<1>0. r = Append(s, chunk) /\ n = Len(s) + 1
  OBVIOUS
<1>. HIDE DEF r
<1>1. /\ n \in Nat /\ DOMAIN s = 1..(n - 1) /\ DOMAIN r = DOMAIN s \cup {n} /\ Len(r) = n
      /\ r[n] = chunk /\ \A k \in DOMAIN s : r[k] = s[k] /\ k < n
      /\ ReasoningIn(r) = ReasoningIn(s) \cup IF chunk.reasoning THEN {n} ELSE {}
      /\ ContentIn(r) = ContentIn(s) \cup IF chunk.content THEN {n} ELSE {}
      /\ \A i : CallIn(r, i) = CallIn(s, i) \cup IF i \in chunk.calls THEN {n} ELSE {}
      /\ CallsIn(r) = CallsIn(s) \cup chunk.calls
      /\ \A k \in DOMAIN s : BegunIn(r, k) = BegunIn(s, k)
      /\ BegunIn(r, n) = BegunIn(s, n)
  <2>1. Places(s, r, chunk, n)
    BY <1>0, PlacesAppend
  <2>. QED BY <2>1 DEF Places
<1>2. t \in Seq(TellType) /\ Len(t) = Len(s) /\ new \in TellType
  BY DEF Took, TellOfChunk
<1>3. /\ u \in Seq(TellType) /\ Len(u) = n /\ u[n] = new /\ \A k \in DOMAIN s : u[k] = t[k]
  BY <1>2
<1>4. PartsTold(u) = p \o q /\ p \in Seq(PartType)
  BY <1>2, PartsToldAppend
<1>5. PartsOfChunk(q, chunk, n, BegunIn(s, n)) /\ new.finish = FinishReason(chunk.finish)
  BY DEF TellOfChunk
<1>6. q \in Seq(PartType)
  BY <1>5 DEF PartsOfChunk
<1>. HIDE DEF u, p, q
<1>7. PartsTold(u) \in Seq(PartType) /\ \A kind : PutOf(PartsTold(u), kind) = PutOf(p, kind) \o PutOf(q, kind)
  BY <1>4, <1>6, PutJoin, JoinFunction
<1>8. PutOf(PartsTold(u), "thought") = Call!InOrder(ReasoningIn(r))
  <2>1. PICK there \in BOOLEAN : there = chunk.reasoning
    BY ChunkFields
  <2>. DEFINE S == ReasoningIn(s)
              T == ReasoningIn(r)
  <2>2. S \subseteq 1..(n - 1) /\ T = S \cup IF there THEN {n} ELSE {}
    BY <1>1, <2>1 DEF ReasoningIn
  <2>3. PutOf(p, "thought") = Call!InOrder(S)
    BY DEF Took, p
  <2>4. PutOf(q, "thought") = IF there THEN <<n>> ELSE <<>>
    BY <1>5, <2>1 DEF PartsOfChunk
  <2>. HIDE DEF S, T
  <2>5. Call!InOrder(S) \o (IF there THEN <<n>> ELSE <<>>) = Call!InOrder(T)
    BY <1>1, <2>2, OnePieceMore
  <2>. QED BY <1>7, <2>3, <2>4, <2>5 DEF T
<1>9. PutOf(PartsTold(u), "text") = Call!InOrder(ContentIn(r))
  <2>1. PICK there \in BOOLEAN : there = chunk.content
    BY ChunkFields
  <2>. DEFINE S == ContentIn(s)
              T == ContentIn(r)
  <2>2. S \subseteq 1..(n - 1) /\ T = S \cup IF there THEN {n} ELSE {}
    BY <1>1, <2>1 DEF ContentIn
  <2>3. PutOf(p, "text") = Call!InOrder(S)
    BY DEF Took, p
  <2>4. PutOf(q, "text") = IF there THEN <<n>> ELSE <<>>
    BY <1>5, <2>1 DEF PartsOfChunk
  <2>. HIDE DEF S, T
  <2>5. Call!InOrder(S) \o (IF there THEN <<n>> ELSE <<>>) = Call!InOrder(T)
    BY <1>1, <2>2, OnePieceMore
  <2>. QED BY <1>7, <2>3, <2>4, <2>5 DEF T
<1>10. ASSUME NEW i, CallsIn(r) \subseteq {i}
       PROVE  PutOf(PartsTold(u), "functionCall") = Call!InOrder(CallIn(r, i))
  <2>1. PICK there \in BOOLEAN : there <=> i \in chunk.calls
    <3>1. CASE i \in chunk.calls
      BY <3>1
    <3>2. CASE i \notin chunk.calls
      BY <3>2
    <3>. QED BY <3>1, <3>2
  <2>. DEFINE S == CallIn(s, i)
              T == CallIn(r, i)
  <2>2. S \subseteq 1..(n - 1) /\ T = S \cup IF there THEN {n} ELSE {}
    BY <1>1, <2>1 DEF CallIn
  <2>3. CallsIn(s) \subseteq {i} /\ chunk.calls \subseteq {i}
    BY <1>1, <1>10
  <2>4. PutOf(p, "functionCall") = Call!InOrder(S)
    BY <2>3 DEF Took, p
  <2>5. PutOf(q, "functionCall") = IF there THEN <<n>> ELSE <<>>
    BY <1>5, <2>1, <2>3 DEF PartsOfChunk
  <2>. HIDE DEF S, T
  <2>6. Call!InOrder(S) \o (IF there THEN <<n>> ELSE <<>>) = Call!InOrder(T)
    BY <1>1, <2>2, OnePieceMore
  <2>. QED BY <1>7, <2>4, <2>5, <2>6 DEF T
<1>11. ASSUME NEW k \in DOMAIN r PROVE u[k].finish = FinishReason(r[k].finish)
  <2>1. CASE k \in DOMAIN s
    <3>1. t[k].finish = FinishReason(s[k].finish)
      BY <2>1 DEF Took
    <3>. QED BY <1>1, <1>3, <2>1, <3>1
  <2>2. CASE k = n
    BY <1>1, <1>3, <1>5, <2>2
  <2>. QED BY <1>1, <2>1, <2>2
<1>12. ASSUME NEW k \in DOMAIN r, NEW i \in r[k].calls
       PROVE  StandsIn(CallPart(i, k, BegunIn(r, k)), PartsTold(u))
  <2>. DEFINE x == CallPart(i, k, BegunIn(r, k))
  <2>1. CASE k \in DOMAIN s
    <3>1. i \in s[k].calls /\ BegunIn(r, k) = BegunIn(s, k)
      BY <1>1, <2>1
    <3>2. StandsIn(x, p)
      BY <2>1, <3>1 DEF Took, p
    <3>. HIDE DEF x
    <3>. QED BY <1>4, <1>6, <3>2, StandsInJoin DEF x
  <2>2. CASE k = n
    <3>1. i \in chunk.calls /\ BegunIn(r, k) = BegunIn(s, n)
      BY <1>1, <2>2
    <3>2. StandsIn(x, q)
      BY <1>5, <2>2, <3>1 DEF PartsOfChunk
    <3>. HIDE DEF x
    <3>. QED BY <1>4, <1>6, <3>2, StandsInJoin DEF x
  <2>. QED BY <1>1, <2>1, <2>2
<1>13. Len(u) = Len(r)
  BY <1>1, <1>3
<1>. QED BY <1>3, <1>7, <1>8, <1>9, <1>10, <1>11, <1>12, <1>13 DEF Took, r, u

-----------------------------------------------------------------------------
(* What the client has been told of the chunks that came.                  *)

\* A client that is there has been told of every chunk of a stream, and of the
\* whole answer, which is one chunk, when the handler has returned.
ToldInv ==
  /\ ~streaming => Len(sent) <= 1 /\ (state = "ended" => Len(sent) = 1)
  /\ connected /\ streaming /\ (pc = "serving" \/ state = "ended") => Took(sent, told)
  /\ connected /\ ~streaming /\ pc = "serving" => told = <<>>
  /\ connected /\ ~streaming /\ pc = "returned" /\ state = "ended" => Took(sent, told)

LEMMA InitToldInv == Init => ToldInv
<1>. SUFFICES ASSUME Init PROVE ToldInv
  OBVIOUS
<1>1. sent = <<>> /\ told = <<>> /\ state = "new" /\ pc = "serving"
  BY DEF Init, ClientInit
<1>2. Len(<<>>) <= 1 /\ Took(<<>>, <<>>)
  BY TookNothing
<1>. QED BY <1>1, <1>2 DEF ToldInv

\* Content of a chunk is told with its parts and its reason.
LEMMA ContentTold ==
  ASSUME NEW chunk \in Chunks, NEW n \in Nat
  PROVE  TellOfChunk(Content(chunk, n), chunk, n, Begun(n))
<1>. DEFINE ps == ContentFromMessage(chunk, n)
            reason == FinishReason(chunk.finish)
            new == Content(chunk, n)
<1>1. PartsOfChunk(ps, chunk, n, Begun(n))
  BY ContentParts
<1>2. ps \in Seq(PartType)
  BY <1>1 DEF PartsOfChunk
<1>3. reason \in {"STOP", "MAX_TOKENS", "SAFETY"}
  <2>1. chunk.finish \in {"", "stop", "tool_calls", "length", "content_filter"}
    BY ChunkFields DEF Call!Finishes
  <2>. QED BY <2>1 DEF FinishReason
<1>4. new = [parts |-> ps, finish |-> reason, error |-> ""]
  BY DEF Content, Told
<1>. HIDE DEF ps, reason, new
<1>5. new \in TellType
  BY <1>2, <1>3, <1>4 DEF TellType
<1>6. new.parts = ps /\ new.finish = reason
  BY <1>4
<1>. QED BY <1>1, <1>5, <1>6 DEF TellOfChunk, reason, new

\* The call of a stream that goes on keeps what was told.
LEMMA ProceedToldInv == IInv /\ ToldInv /\ Proceed => ToldInv'
<1>. SUFFICES ASSUME IInv, ToldInv, Proceed PROVE ToldInv'
  OBVIOUS
<1>1. /\ pc = "serving" /\ UNCHANGED <<sent, streaming, pc, connected, told>>
      /\ state' = "ended" /\ ~streaming => sent # <<>>
  <2>. USE DEF Continue, Return, GoesWrong, wire
  <2>1. CASE \E configured \in BOOLEAN : NewRequest(configured)
    BY <2>1 DEF Proceed, NewRequest
  <2>2. CASE Unreachable
    BY <2>2 DEF Proceed, Unreachable
  <2>3. CASE \E code \in Statuses : Respond(code)
    BY <2>3 DEF Proceed, Respond
  <2>4. CASE Skip \/ Done \/ Break
    BY <2>4 DEF Proceed, Skip, Done, Break, ReadsBody
  <2>5. CASE Decode
    BY <2>5 DEF Proceed, Decode
  <2>6. CASE ReadNoAnswer
    BY <2>6 DEF Proceed, ReadNoAnswer, Reads
  <2>. QED BY <2>1, <2>2, <2>3, <2>4, <2>5, <2>6 DEF Proceed, CallProceeds
<1>2. ~streaming /\ state' = "ended" => Len(sent) = 1
  <2>1. ASSUME NEW s \in Seq(Chunks), s # <<>>, Len(s) <= 1 PROVE Len(s) = 1
    <3>1. Len(s) \in Nat /\ Len(s) # 0
      BY <2>1
    <3>2. \A n \in Nat : n # 0 /\ n <= 1 => n = 1
      OBVIOUS
    <3>. QED BY <2>1, <3>1, <3>2
  <2>. QED BY <1>1, <2>1 DEF ToldInv, IInv, CallInv, CallTypeOK
<1>3. streaming \in BOOLEAN /\ connected \in BOOLEAN
  BY Zenon DEF IInv, CallInv, CallTypeOK
<1>4. Took(sent, told)' <=> Took(sent, told)
  BY <1>1, Zenon DEF Took, StandsIn
<1>. QED BY <1>1, <1>2, <1>4 DEF ToldInv

\* A chunk is told as it comes.
LEMMA ChunkToldInv ==
  ASSUME NEW chunk \in Chunks, IInv, ToldInv, HandleChunk(chunk) PROVE ToldInv'
<1>1. /\ pc = "serving" /\ UNCHANGED <<pc, connected, streaming>> /\ streaming
      /\ sent' = Append(sent, chunk) /\ Tell(Content(chunk, Len(sent) + 1))
  BY DEF HandleChunk, ScanChunk, ReadsBody, Comes, Continue, Return
<1>2. CASE connected
  <2>. DEFINE new == Content(chunk, Len(sent) + 1)
              n == Len(sent) + 1
              r == sent'
              u == told'
  <2>1. sent \in Seq(Chunks) /\ n \in Nat
    BY DEF IInv, CallInv, CallTypeOK
  <2>2. Took(sent, told)
    BY <1>1, <1>2 DEF ToldInv
  <2>3. TellOfChunk(new, chunk, n, BegunIn(sent, n))
    BY <2>1, ContentTold DEF Begun, BegunIn
  <2>4. Took(Append(sent, chunk), Append(told, new))
    <3>1. n = Len(sent) + 1
      OBVIOUS
    <3>. HIDE DEF new, n
    <3>. QED BY <2>1, <2>2, <2>3, <3>1, TookMore
  <2>5. r = Append(sent, chunk) /\ u = Append(told, new)
    BY <1>1, <1>2 DEF Tell
  <2>. HIDE DEF new, r, u
  <2>6. Took(r, u)
    BY <2>4, <2>5
  <2>7. Took(sent, told)'
    BY <2>6 DEF Took, r, u
  <2>. QED BY <1>1, <2>7 DEF ToldInv
<1>3. CASE ~connected
  BY <1>1, <1>3 DEF ToldInv
<1>. QED BY <1>2, <1>3

LEMMA AnswerToldInv ==
  ASSUME NEW chunk \in Chunks, IInv, ToldInv, GetAnswer(chunk) PROVE ToldInv'
<1>1. /\ pc = "serving" /\ UNCHANGED <<pc, connected, told, streaming, state>> /\ ~streaming
      /\ state = "body" /\ sent = <<>> /\ sent' = Append(sent, chunk)
  BY DEF GetAnswer, ReadAnswer, Reads, Comes, Continue
<1>2. Len(Append(<<>>, chunk)) <= 1
  OBVIOUS
<1>. QED BY <1>1, <1>2 DEF ToldInv

LEMMA ReturnToldInv == IInv /\ ToldInv /\ HandlerReturns => ToldInv'
<1>. SUFFICES ASSUME IInv, ToldInv, HandlerReturns PROVE ToldInv'
  OBVIOUS
<1>1. /\ pc = "serving" /\ pc' = "returned" /\ state \in {"ended", "failed"}
      /\ UNCHANGED <<clientVars, connected>>
  BY DEF HandlerReturns
<1>2. UNCHANGED <<sent, streaming, state>>
  BY <1>1 DEF clientVars, wire
<1>3. CASE state = "failed"
  BY <1>1, <1>2, <1>3 DEF ToldInv
<1>4. CASE state = "ended" /\ streaming
  <2>1. UNCHANGED told
    BY <1>4 DEF HandlerReturns
  <2>2. Took(sent, told)' <=> Took(sent, told)
    BY <1>2, <2>1, Zenon DEF Took, StandsIn
  <2>. QED BY <1>1, <1>2, <1>4, <2>2 DEF ToldInv
<1>5. CASE state = "ended" /\ ~streaming
  <2>1. ~streaming => Len(sent) <= 1 /\ Len(sent) = 1
    BY <1>5 DEF ToldInv
  <2>2. CASE connected
    <3>. DEFINE chunk == sent[1]
                new == Content(chunk, 1)
                r == sent'
                u == told'
    <3>1. chunk \in Chunks /\ sent = Append(<<>>, chunk)
      <4>1. ASSUME NEW s \in Seq(Chunks), Len(s) = 1 PROVE s[1] \in Chunks /\ s = Append(<<>>, s[1])
        BY <4>1
      <4>. QED BY <1>5, <2>1, <4>1 DEF IInv, CallInv, CallTypeOK
    <3>2. told = <<>>
      BY <1>1, <1>5, <2>2 DEF ToldInv
    <3>3. TellOfChunk(new, chunk, 1, BegunIn(<<>>, 1))
      <4>1. TellOfChunk(new, chunk, 1, Begun(1))
        BY <3>1, ContentTold
      <4>2. 1..(1 - 1) = {} /\ DOMAIN <<>> = {}
        OBVIOUS
      <4>3. Begun(1) = BegunIn(<<>>, 1)
        BY <4>2 DEF Begun, BegunIn
      <4>. QED BY <4>1, <4>3
    <3>4. <<>> \in Seq(Chunks) /\ 1 = Len(<<>>) + 1
      BY NothingFirst
    <3>5. r = sent /\ u = Append(told, new)
      BY <1>2, <1>5, <2>2 DEF HandlerReturns, Tell
    <3>. HIDE DEF chunk, new, r, u
    <3>6. Took(Append(<<>>, chunk), Append(<<>>, new))
      BY <3>1, <3>3, <3>4, TookNothing, TookMore
    <3>7. Took(r, u)
      BY <3>1, <3>2, <3>5, <3>6
    <3>8. Took(sent, told)'
      BY <3>7 DEF Took, r, u
    <3>. QED BY <1>1, <1>2, <1>5, <2>1, <3>8 DEF ToldInv
  <2>3. CASE ~connected
    BY <1>1, <1>2, <1>5, <2>1, <2>3 DEF ToldInv
  <2>. QED BY <2>2, <2>3
<1>. QED BY <1>1, <1>3, <1>4, <1>5

LEMMA NextToldInv == IInv /\ ToldInv /\ [Next]_vars => ToldInv'
<1>. SUFFICES ASSUME IInv, ToldInv, [Next]_vars PROVE ToldInv'
  OBVIOUS
<1>1. CASE ClientLeaves
  <2>1. ~connected' /\ UNCHANGED <<streaming, sent, state>>
    BY <1>1 DEF ClientLeaves, clientVars, wire
  <2>. QED BY <2>1 DEF ToldInv
<1>2. CASE UNCHANGED vars
  <2>1. UNCHANGED <<streaming, sent, state, pc, connected, told>>
    BY <1>2 DEF vars, clientVars, wire
  <2>2. Took(sent, told)' <=> Took(sent, told)
    BY <2>1, Zenon DEF Took, StandsIn
  <2>. QED BY <2>1, <2>2 DEF ToldInv
<1>. QED BY <1>1, <1>2, ProceedToldInv, ChunkToldInv, AnswerToldInv, ReturnToldInv
     DEF Next, Chunked, Answered

\* A client that stays has been told of all that came.
THEOREM ChunksAreTold == Spec => []ToldInv
<1>. QED BY InitToldInv, NextToldInv, CallInvariant, PTL DEF Spec

\* The greatest of a set of places.
LEMMA LatestIn ==
  ASSUME NEW S, NEW n \in Nat, S \subseteq 1..n, S # {}
  PROVE  Call!Latest(S) \in S
<1>. DEFINE M == { n - k : k \in S }
<1>1. M \subseteq Nat /\ M # {}
  <2>1. \A k \in S : n - k \in Nat
    <3>1. \A k \in 1..n : n - k \in Nat
      OBVIOUS
    <3>. QED BY <3>1
  <2>. QED BY <2>1
<1>2. PICK j \in M : \A m \in M : j <= m
  BY <1>1, SmallestOf
<1>3. PICK k \in S : j = n - k
  BY <1>2
<1>4. \A m \in S : m <= k
  <2>. TAKE m \in S
  <2>1. n - m \in M
    OBVIOUS
  <2>2. j <= n - m
    BY <1>2, <2>1
  <2>3. m \in Nat /\ k \in Nat
    OBVIOUS
  <2>. QED BY <1>3, <2>2, <2>3
<1>. QED BY <1>3, <1>4 DEF Call!Latest

\* What was told is put together to the answer.
LEMMA TookIsTheAnswer ==
  ASSUME sent \in Seq(Chunks), Took(sent, told)
  PROVE  /\ Put("thought") = Call!Answer.reasoning
         /\ Put("text") = Call!Answer.content
         /\ \A n \in DOMAIN Call!Answer.calls :
              LET call == Call!Answer.calls[n]
              IN  /\ Len(call.arguments) = 1 =>
                       \E p \in DOMAIN AllParts : AllParts[p] = Part("functionCall", call.id, call.arguments)
                  /\ Len(Call!Answer.calls) = 1 => Put("functionCall") = call.arguments
         /\ sent # <<>> => \E n \in DOMAIN told : told[n].finish = FinishReason(Call!FinishReason)
<1>. DEFINE S == Call!CallIndexes
            order == Call!InOrder(S)
<1>1. AllParts = PartsTold(told) /\ \A kind : Put(kind) = PutOf(PartsTold(told), kind)
  BY DEF AllParts, PartsTold, Put, PutOf, Pieces
<1>2. /\ Call!ReasoningAt = ReasoningIn(sent) /\ Call!ContentAt = ContentIn(sent)
      /\ \A i : Call!CallAt(i) = CallIn(sent, i)
      /\ S = CallsIn(sent)
  BY DEF Call!ReasoningAt, ReasoningIn, Call!ContentAt, ContentIn, Call!CallAt, CallIn,
         Call!CallIndexes, CallsIn
<1>3. /\ Call!Answer.reasoning = Call!InOrder(ReasoningIn(sent))
      /\ Call!Answer.content = Call!InOrder(ContentIn(sent))
      /\ Call!Answer.calls = [ k \in DOMAIN order |->
            [id |-> order[k], arguments |-> Call!InOrder(CallIn(sent, order[k]))] ]
  BY <1>2 DEF Call!Answer
<1>4. /\ Len(sent) \in Nat /\ DOMAIN sent = 1..Len(sent) /\ Len(told) = Len(sent)
      /\ told \in Seq(TellType) /\ DOMAIN told = 1..Len(sent)
      /\ \A n \in DOMAIN sent : sent[n] \in Chunks
  BY DEF Took
<1>5. IsFiniteSet(S) /\ S \subseteq Nat
  <2>1. \A n \in DOMAIN sent : IsFiniteSet(sent[n].calls) /\ sent[n].calls \subseteq Nat
    BY <1>4, ChunkFields
  <2>2. IsFiniteSet(DOMAIN sent)
    <3>1. IsFiniteSet(1..Len(sent))
      BY <1>4, FS_Interval
    <3>. QED BY <1>4, <3>1
  <2>. DEFINE U == { sent[n].calls : n \in DOMAIN sent }
  <2>3. IsFiniteSet(U)
    <3>. DEFINE D == DOMAIN sent
    <3>1. IsFiniteSet(D)
      BY <2>2
    <3>. HIDE DEF D
    <3>. DEFINE f == [ n \in D |-> sent[n].calls ]
                V == { sent[n].calls : n \in D }
    <3>2. f \in Surjection(D, V)
      BY DEF Surjection
    <3>. HIDE DEF f, V
    <3>3. IsFiniteSet(V)
      BY <3>1, <3>2, FS_Surjection
    <3>. QED BY <3>3 DEF D, V
  <2>4. \A c \in U : IsFiniteSet(c)
    BY <2>1
  <2>5. IsFiniteSet(UNION U)
    <3>. HIDE DEF U
    <3>. QED BY <2>3, <2>4, FS_UNION
  <2>6. UNION U \subseteq Nat
    BY <2>1
  <2>. QED BY <2>5, <2>6 DEF Call!CallIndexes
<1>6. /\ Cardinality(S) \in Nat /\ Len(order) = Cardinality(S) /\ DOMAIN order = 1..Cardinality(S)
      /\ \A k \in DOMAIN order : order[k] \in S
  BY <1>5, InOrderFacts
<1>. HIDE DEF order, S
<1>7. /\ DOMAIN Call!Answer.calls = DOMAIN order
      /\ Len(Call!Answer.calls) = Cardinality(S)
      /\ \A k \in DOMAIN order :
           /\ Call!Answer.calls[k].id = order[k]
           /\ Call!Answer.calls[k].arguments = Call!InOrder(CallIn(sent, order[k]))
  <2>1. DOMAIN Call!Answer.calls = 1..Cardinality(S)
    BY <1>3, <1>6
  <2>2. Len(Call!Answer.calls) = Cardinality(S)
    BY <1>6, <2>1
  <2>. QED BY <1>3, <1>6, <2>1, <2>2
<1>8. \A i : IsFiniteSet(CallIn(sent, i)) /\ CallIn(sent, i) \subseteq Nat
  <2>. TAKE i
  <2>1. IsFiniteSet(1..Len(sent))
    BY <1>4, FS_Interval
  <2>2. CallIn(sent, i) \in SUBSET (1..Len(sent))
    BY <1>4 DEF CallIn
  <2>. QED BY <2>1, <2>2, FS_Subset
<1>9. ASSUME NEW k \in DOMAIN order, Len(Call!Answer.calls[k].arguments) = 1
      PROVE  StandsIn(Part("functionCall", Call!Answer.calls[k].id, Call!Answer.calls[k].arguments), AllParts)
  <2>. DEFINE i == order[k]
              A == CallIn(sent, i)
              args == Call!InOrder(A)
  <2>1. Call!Answer.calls[k].id = i /\ Call!Answer.calls[k].arguments = args
    BY <1>7
  <2>2. IsFiniteSet(A) /\ A \subseteq Nat
    BY <1>8
  <2>. HIDE DEF i, A, args
  <2>3. /\ Cardinality(A) = 1 /\ args \in Seq(A) /\ args[1] \in A /\ Len(args) = 1
    <3>1. Len(args) = Cardinality(A) /\ args \in Seq(A) /\ \A m \in 1..Cardinality(A) : args[m] \in A
      BY <2>2, InOrderFacts DEF args
    <3>. QED BY <1>9, <2>1, <3>1
  <2>4. PICK m : A = {m}
    BY <2>2, <2>3, FS_Singleton
  <2>5. args = <<m>>
    BY <2>3, <2>4
  <2>6. m \in DOMAIN sent /\ i \in sent[m].calls
    BY <2>4 DEF A, CallIn
  <2>7. i \notin BegunIn(sent, m)
    <3>1. \A j \in DOMAIN sent \cap 1..(m - 1) : i \notin sent[j].calls
      <4>. TAKE j \in DOMAIN sent \cap 1..(m - 1)
      <4>1. m \in Nat /\ j # m
        BY <1>4, <2>6
      <4>. QED BY <2>4, <4>1 DEF A, CallIn
    <3>. QED BY <3>1 DEF BegunIn
  <2>8. StandsIn(CallPart(i, m, BegunIn(sent, m)), PartsTold(told))
    BY <2>6 DEF Took
  <2>9. CallPart(i, m, BegunIn(sent, m)) = Part("functionCall", i, args)
    BY <2>5, <2>7 DEF CallPart, IdOf
  <2>. QED BY <1>1, <2>1, <2>8, <2>9
<1>10. ASSUME NEW k \in DOMAIN order, Cardinality(S) = 1
       PROVE  Put("functionCall") = Call!Answer.calls[k].arguments
  <2>. DEFINE i == order[k]
  <2>1. i \in S
    BY <1>6
  <2>. HIDE DEF i
  <2>2. PICK j : S = {j}
    BY <1>5, <1>10, FS_Singleton
  <2>3. CallsIn(sent) \subseteq {i}
    BY <1>2, <2>1, <2>2
  <2>4. PutOf(PartsTold(told), "functionCall") = Call!InOrder(CallIn(sent, i))
    BY <2>3 DEF Took
  <2>. QED BY <1>1, <1>7, <2>4 DEF i
<1>11. ASSUME sent # <<>>
       PROVE  \E n \in DOMAIN told : told[n].finish = FinishReason(Call!FinishReason)
  <2>1. \A n \in DOMAIN sent : n \in DOMAIN told /\ told[n].finish = FinishReason(sent[n].finish)
    BY <1>4 DEF Took
  <2>2. CASE Call!FinishAt = {}
    <3>1. 1 \in DOMAIN sent
      BY <1>4, <1>11
    <3>2. sent[1].finish = ""
      BY <2>2, <3>1 DEF Call!FinishAt
    <3>3. Call!FinishReason = ""
      BY <2>2 DEF Call!FinishReason
    <3>. QED BY <2>1, <3>1, <3>2, <3>3
  <2>3. CASE Call!FinishAt # {}
    <3>1. Call!FinishAt \subseteq 1..Len(sent)
      BY <1>4 DEF Call!FinishAt
    <3>2. Call!Latest(Call!FinishAt) \in Call!FinishAt
      BY <1>4, <2>3, <3>1, LatestIn
    <3>3. Call!Latest(Call!FinishAt) \in DOMAIN sent
      BY <1>4, <3>1, <3>2
    <3>4. Call!FinishReason = sent[Call!Latest(Call!FinishAt)].finish
      BY <2>3 DEF Call!FinishReason
    <3>. QED BY <2>1, <3>3, <3>4
  <2>. QED BY <2>2, <2>3
<1>. HIDE DEF Call!Answer
<1>12. /\ Put("thought") = Call!Answer.reasoning
       /\ Put("text") = Call!Answer.content
  BY <1>1, <1>3 DEF Took
<1>. QED BY <1>7, <1>9, <1>10, <1>11, <1>12 DEF StandsIn

\* Whatever the upstream sends and however a client of a Gemini endpoint that
\* stays is answered, in a stream or at once: if nothing went wrong, what it puts
\* together from the parts is what was said (generate.go, sse_gemini.go).
THEOREM PartsMakeTheAnswer == Spec => []PartsAreTheAnswer
<1>1. IInv /\ ToldInv => PartsAreTheAnswer
  <2>. SUFFICES ASSUME IInv, ToldInv, Served, ~wrong PROVE PartsAreTheAnswer
    BY DEF PartsAreTheAnswer
  <2>1. sent \in Seq(Chunks) /\ streaming \in BOOLEAN /\ connected /\ pc = "returned"
    BY Zenon DEF IInv, CallInv, CallTypeOK, Served
  <2>2. state = "ended"
    BY <2>1 DEF IInv, CallInv, ReturnsAtTheEnd, FailedForAReason
  <2>3. Took(sent, told)
    BY <2>1, <2>2 DEF ToldInv
  <2>. QED BY <2>1, <2>3, TookIsTheAnswer DEF PartsAreTheAnswer
<1>. QED BY <1>1, CallInvariant, ChunksAreTold, PTL
=============================================================================
