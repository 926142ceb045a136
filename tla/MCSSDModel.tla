----------------------------- MODULE MCSSDModel -----------------------------
(* A small instance of SSDModel: a tree of two levels, the least that has  *)
(* a node whose parent is not the root and a chain of two forecast tokens; *)
(* a first prompt that spans two chunks, and short ones after it that take *)
(* the conversation to the end of the prefill and of the decode rows.      *)
EXTENDS SSDModel, TLC

MCBranches == <<2, 1>>
LongPrompt == [i \in 1 .. SeqLenPrefill + 1 |-> i % 2]
MCPrompts == {LongPrompt, <<0>>}

\* A conversation starts with the long prompt and goes on with short ones.
LongFirst == pc = "prefill" => (context = <<>> => Len(todo) # 1) /\ (todo = LongPrompt => context = <<>>)

\* generate() is not followed on a cache known to be damaged.
GeneratesUndamaged == damage = {} \/ pc = "idle"
=============================================================================
