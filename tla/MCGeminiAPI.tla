---------------------------- MODULE MCGeminiAPI ----------------------------
(* Chunks with one piece, the mixes of two that matter, or a finish_reason. *)
EXTENDS GeminiAPI

Piece(reasoning, content, calls, finish) ==
  [reasoning |-> reasoning, content |-> content, calls |-> calls, finish |-> finish]

MCChunks ==
  { Piece(TRUE, FALSE, {}, ""), Piece(FALSE, TRUE, {}, ""), Piece(TRUE, TRUE, {}, ""),
    Piece(FALSE, FALSE, {0, 1}, ""), Piece(FALSE, FALSE, {1}, ""), Piece(FALSE, TRUE, {0}, "tool_calls"),
    Piece(FALSE, TRUE, {}, "length"), Piece(FALSE, FALSE, {}, "content_filter"), Piece(FALSE, FALSE, {}, "") }
=============================================================================
