----------------------------- MODULE MCLLMModel -----------------------------
(* Small instances of LLMModel.  Context lengths of four and six tokens,   *)
(* two rows per tensor and chunks of two tokens are the least that lets a  *)
(* row run into its neighbour, a prompt span chunks, and a conversation    *)
(* pass through every variant into an eviction.                            *)
EXTENDS LLMModel, TLC

CONSTANTS a, b, e

MCToken == {a, b, e}
TwoTokens == {a, e}
ShortLengths == <<4, 6>>
MCPrompts == {<<a>>, <<a, b>>, <<b, a, a>>}
TwoPrompts == {<<a>>, <<a, a, a>>}
MCNKeeps == {-1, 1}

\* The fault run asks what the operations make of an undamaged cache, and what a
\* reset or a load makes of a damaged one; it does not follow generate() on a
\* cache known to be damaged, nor load one that was saved damaged.
GeneratesUndamaged ==
    /\ damage = {} \/ pc = "idle"
    /\ file # None => file.damage = {}
=============================================================================
