----------------------------- MODULE GLMClient -----------------------------
(***************************************************************************)
(* A call of the upstream (Chat and StreamChat of                          *)
(* internal/upstream/glm/client.go) down to the lines of the body.         *)
(*                                                                         *)
(* sent, lines and wrong are what really happened, outside the program;    *)
(* state and status are what the client makes of it.  StreamChat has the   *)
(* same call as the streaming handlers see it; Call!StreamSpec says that   *)
(* this module implements it.                                              *)
(***************************************************************************)
EXTENDS Integers, Sequences, FiniteSets

CONSTANTS
  Chunks,        \* the chunks of StreamChat
  MaxLines,      \* bound: the lines of one body
  Statuses       \* the HTTP statuses that may come

ASSUME StatusesAssumption == MaxLines \in Nat \ {0} /\ Statuses \subseteq 200..599

VARIABLES
  streaming,     \* StreamChat, or else Chat
  sent,          \* the chunks that came
  lines,         \* how many lines came, with the chunks' own
  wrong,         \* the call did not come to an answer
  state,         \* "new", "sent", "body", and then "ended" or "failed"
  status         \* the status that the error stands for, 0 without error

wire == <<sent, lines, wrong>>

clientVars == <<streaming, wire, state, status>>

ClientInit ==
  /\ streaming \in BOOLEAN
  /\ sent = <<>> /\ lines = 0 /\ wrong = FALSE
  /\ state = "new" /\ status = 0

Continue(next) == state' = next /\ UNCHANGED <<streaming, status>>

\* The call returns an error.  One that is no HTTPError stands for 502.
Return(code) == state' = "failed" /\ status' = code /\ UNCHANGED streaming

GoesWrong == wrong' = TRUE /\ UNCHANGED <<sent, lines>>

\* A chunk comes, in a line of its own.
Comes(chunk) == sent' = Append(sent, chunk) /\ lines' = lines + 1 /\ UNCHANGED wrong

BadGateway == 502

-----------------------------------------------------------------------------

\* Without an API key no request is made.
NewRequest(configured) ==
  /\ state = "new"
  /\ IF configured THEN UNCHANGED wire /\ Continue("sent")
                   ELSE GoesWrong /\ Return(500)

Unreachable ==
  /\ state = "sent"
  /\ GoesWrong /\ Return(BadGateway)

\* A failing status is an error with the message in the body, or a 502 if the
\* body cannot be read or is larger than MaxResponseBodyBytes.
Respond(code) ==
  /\ state = "sent"
  /\ IF code < 400 THEN UNCHANGED wire /\ Continue("body")
     ELSE GoesWrong /\ (Return(code) \/ Return(BadGateway))

-----------------------------------------------------------------------------
(* The scanner of StreamChat.                                               *)

ReadsBody == streaming /\ state = "body"

\* The handler's error is returned after the body was read.
ScanChunkMutantReadsOn(chunk, handled) ==
  /\ ReadsBody /\ lines < MaxLines
  /\ Comes(chunk)
  /\ status' = (IF handled THEN status ELSE BadGateway)
  /\ UNCHANGED <<streaming, state>>

\* A line with a chunk goes to the handler, whose error ends the call.
ScanChunk(chunk, handled) ==
  /\ ReadsBody /\ lines < MaxLines
  /\ Comes(chunk)
  /\ IF handled THEN Continue("body") ELSE Return(BadGateway)

\* Lines that are empty, that are not "data:", or that do not parse, such as
\* one that was cut off.
Skip ==
  /\ ReadsBody /\ lines < MaxLines
  /\ lines' = lines + 1 /\ UNCHANGED <<sent, wrong>>
  /\ Continue("body")

\* [DONE], after which nothing is read, or the end of the body.
Done == ReadsBody /\ UNCHANGED wire /\ Continue("ended")

\* The error of the scanner is not returned.
BreakMutantIsEnd == ReadsBody /\ GoesWrong /\ Continue("ended")

\* The connection breaks or times out, the request is cancelled, or a line is
\* longer than the scanner's buffer.
Break == ReadsBody /\ GoesWrong /\ Return(BadGateway)

-----------------------------------------------------------------------------
(* postJSON, for Chat.                                                      *)

Reads == ~streaming /\ state = "body" /\ sent = <<>>

\* The whole answer, as one chunk that has everything; then it is decoded.
ReadAnswer(chunk) ==
  /\ Reads
  /\ Comes(chunk)
  /\ Continue("body")

Decode ==
  /\ ~streaming /\ state = "body" /\ sent # <<>>
  /\ UNCHANGED wire /\ Continue("ended")

\* A body that breaks off, is too large, or is no JSON object.
ReadNoAnswer ==
  /\ Reads
  /\ GoesWrong
  /\ Return(BadGateway)

\* The steps that need nothing of the caller.
CallProceeds ==
  \/ \E configured \in BOOLEAN : NewRequest(configured)
  \/ Unreachable
  \/ \E code \in Statuses : Respond(code)
  \/ Skip \/ Done \/ Break
  \/ Decode \/ ReadNoAnswer

-----------------------------------------------------------------------------

Outcome == IF status # 0 THEN "failed" ELSE IF state = "ended" THEN "ended" ELSE "open"

Call == INSTANCE StreamChat WITH chunks <- sent, upstream <- Outcome, MaxChunks <- MaxLines

ASSUME ChunksAssumption ==
  Chunks \subseteq Call!Chunk(Nat) /\ \A chunk \in Chunks : IsFiniteSet(chunk.calls)
=============================================================================
