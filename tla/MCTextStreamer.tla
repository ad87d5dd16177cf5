--------------------------- MODULE MCTextStreamer ---------------------------
(* Model-checking instance of TextStreamer: up to five put() calls over    *)
(* the seven-token vocabulary, enough for a split two-byte character       *)
(* between words and a newline reset in one history.                      *)
EXTENDS TextStreamer

MCMaxPuts == 5

=============================================================================
