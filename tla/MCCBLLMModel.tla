---------------------------- MODULE MCCBLLMModel ----------------------------
(* Three sessions whose prompts take one, five and one tokens, on steps of  *)
(* four rows: prompts span steps, sessions join while others decode, and   *)
(* leave from the front, the middle and the end of the buffer.              *)
EXTENDS CBLLMModel

CONSTANTS a, b, e

MCToken == {a, b, e}
MCQueries == <<<<a>>, <<b, b, b, b, b>>, <<e>>>>
MCLengths == <<7, 17>>
=============================================================================
