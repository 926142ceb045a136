----------------------------- MODULE DraftTree -----------------------------
(***************************************************************************)
(* The token tree of self-speculative decoding (SSDModel,                  *)
(* models/llama3_2_ssd).  One pass of the decode graph takes the nodes of  *)
(* a draft tree, breadth first, followed by a chain of forecast tokens for *)
(* every node; attention_map gives the parent of each of them, and mask    *)
(* and positions are read off it.  Indices count from 0, as in the code.   *)
(***************************************************************************)
EXTENDS Integers, Sequences, FiniteSets, Functions

CONSTANT Branches    \* ssd_cfg_.branches: children per node, level by level

ASSUME TreeAssumption ==
    /\ Branches \in Seq(Nat \ {0})
    /\ Branches # <<>>

Levels == Len(Branches)

\* genAttentionMap, the draft part: the parents after d levels, and where the
\* last of these levels starts.
Grown[d \in 0 .. Levels] ==
    IF d = 0 THEN [parents |-> <<-1>>, start |-> 0]
    ELSE LET p == Grown[d - 1]
             width == Len(p.parents) - p.start
         IN  [parents |-> p.parents \o [k \in 1 .. width * Branches[d] |->
                                          p.start + (k - 1) \div Branches[d]],
              start |-> Len(p.parents)]

NumDraftNodes == Len(Grown[Levels].parents)
TotalTokens == NumDraftNodes * (Levels + 1)
DraftNode == 0 .. NumDraftNodes - 1

\* The first forecast token of a chain follows its node, the others their
\* predecessor.
ForecastParent(i) == IF (i - NumDraftNodes) % Levels = 0
                       THEN (i - NumDraftNodes) \div Levels ELSE i - 1

\* attention_map_
AttentionMap[i \in 0 .. TotalTokens - 1] ==
    IF i < NumDraftNodes THEN Grown[Levels].parents[i + 1] ELSE ForecastParent(i)

\* What a row sees of its own pass: buildTreeAttentionMask follows the parents.
Branch[i \in 0 .. TotalTokens - 1] ==
    IF AttentionMap[i] < 0 THEN <<i>> ELSE Append(Branch[AttentionMap[i]], i)

\* computeTreePositionIds, relative to the root.
Depth[i \in 0 .. TotalTokens - 1] ==
    IF AttentionMap[i] < 0 THEN 0 ELSE Depth[AttentionMap[i]] + 1

\* Which child of its parent a draft node is.
Sibling(i) == (i - Grown[Depth[i]].start) % Branches[Depth[i]]

\* buildSampleTree steps over the sample that equals the parent's token: the k-th
\* candidate for a child.
Candidate(samples, parent_token, k) ==
    samples[IF \E j \in 1 .. k : samples[j] = parent_token THEN k + 1 ELSE k]

\* buildSampleTree: samples[d] holds the best Branches[d] + 1 tokens of level d.
SampleTree(last_token, samples) ==
    LET token[i \in DraftNode] ==
          IF i = 0 THEN last_token
          ELSE Candidate(samples[Depth[i]], token[AttentionMap[i]], Sibling(i) + 1)
    IN  token

\* The orders in which a row of logits may rank the tokens, and topKLogits.
Rankings(tokens) == {s \in [1 .. Cardinality(tokens) -> tokens] : IsInjective(s)}
TopK(ranking, k) == SubSeq(ranking, 1, k)
=============================================================================
