----------------------------- MODULE MCPipeline -----------------------------
(* A small instance of Pipeline.  One message of two tokens, a word with   *)
(* and one without a piece, and two turns over a context of five tokens    *)
(* reach every way a turn can end, and an eviction.                        *)
EXTENDS Pipeline, TLC

CONSTANTS x, m, n, w, s, e, c1, c2

MCMessages == {<<m, n>>}
=============================================================================
