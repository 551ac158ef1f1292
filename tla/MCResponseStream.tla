-------------------------- MODULE MCResponseStream --------------------------
(* Chunks with one piece, the mixes of two that matter, or a finish_reason. *)
EXTENDS ResponseStream

Piece(reasoning, content, calls, finish) ==
  [reasoning |-> reasoning, content |-> content, calls |-> calls, finish |-> finish]

MCChunks ==
  { Piece(TRUE, FALSE, {}, ""), Piece(FALSE, TRUE, {}, ""), Piece(TRUE, TRUE, {}, ""),
    Piece(FALSE, TRUE, {0}, ""), Piece(FALSE, FALSE, {0, 1}, ""),
    Piece(FALSE, FALSE, {}, "length"), Piece(FALSE, FALSE, {}, "stop") }
  \cup { Piece(FALSE, FALSE, {i}, "") : i \in 0..2 }

\* The call with index 1 is of a custom tool.  Arguments are an object when their
\* second fragment has come, and their input is all but the first.
MCIsCustom(call) == call.id = 1

MCInputIn(arguments) == IF Len(arguments) < 2 THEN {} ELSE {Tail(arguments)}
=============================================================================
