------------------------- MODULE MCAnthropicStream -------------------------
(* Chunks with one piece, the mixes of two that matter, or a finish_reason. *)
EXTENDS AnthropicStream

Piece(reasoning, content, calls, finish) ==
  [reasoning |-> reasoning, content |-> content, calls |-> calls, finish |-> finish]

MCChunks ==
  { Piece(TRUE, FALSE, {}, ""), Piece(FALSE, TRUE, {}, ""), Piece(TRUE, TRUE, {}, ""),
    Piece(FALSE, FALSE, {0, 1}, ""), Piece(FALSE, FALSE, {1}, ""),
    Piece(FALSE, FALSE, {0}, "stop"), Piece(FALSE, FALSE, {}, "tool_calls"),
    Piece(FALSE, TRUE, {}, "length"), Piece(FALSE, FALSE, {}, "stop"), Piece(FALSE, FALSE, {2}, "") }
=============================================================================
