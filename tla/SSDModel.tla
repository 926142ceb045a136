------------------------------ MODULE SSDModel ------------------------------
(***************************************************************************)
(* geniex::SSDModel (models/llama3_2_ssd/ssd_model.cpp): generate() by     *)
(* self-speculative decoding.  Every pass runs a tree of drafted tokens;   *)
(* the branch that agrees with the network is accepted, its KV entries are *)
(* compacted into the cache, and the forecast rows of its last node draft  *)
(* the next tree.  The cache starts with a forecast prefix that only       *)
(* forecast tokens may see.                                                *)
(*                                                                         *)
(* As in LLMModel the network is abstract: a KV entry is the context it    *)
(* was computed from, a row of logits is the context behind it, and both   *)
(* are Junk when mask, position or cache were not those of that context.   *)
(* All shards do the same in lockstep; one stands for them.                *)
(***************************************************************************)
EXTENDS KVBuffer, DraftTree, SequencesExt

CONSTANTS
    VocabSize, Eos,   \* spec_.vocab_size, spec_.eos_token_ids
    ContextLength,    \* spec_.context_lengths[0]: this class never promotes
    SeqLenPrefill, SeqLenDecode,
    ForecastPrefix,   \* ssd_cfg_.forecast_prefix
    Rows,             \* rows of a KV tensor
    Prompts,          \* the prompts callers pass to generate()
    MaxTokens,        \* the values of gen_cfg.max_tokens
    Faults,           \* what may fail: "prefix", "execute", "callback"
    Zero, Junk, Forecast

Token == 0 .. VocabSize - 1
ForecastToken(k) == VocabSize + k - 1
PrefillKV == ContextLength - SeqLenPrefill
DecodeKV == ContextLength - SeqLenDecode
Row == 0 .. Rows - 1

ASSUME SSDAssumption ==
    /\ VocabSize \in Nat /\ \A d \in 1 .. Levels : Branches[d] < VocabSize
    /\ Eos \subseteq Token
    /\ SeqLenPrefill \in Nat /\ SeqLenDecode \in Nat /\ ContextLength \in Nat
    /\ TotalTokens <= SeqLenDecode /\ SeqLenDecode <= SeqLenPrefill
    /\ ForecastPrefix \in Nat /\ ForecastPrefix < PrefillKV
    /\ Rows \in Nat \ {0}
    /\ Prompts \subseteq Seq(Token) \ {<<>>}
    /\ MaxTokens \subseteq Int
    /\ Faults \subseteq {"prefix", "execute", "callback"}

VARIABLES
    n_past,            \* member; counts the forecast prefix
    kv,                \* the KV buffer that both phases share
    pc,                \* where generate() is
    max_tokens, todo,  \* gen_cfg.max_tokens; prompt tokens still to prefill
    output, step,      \* output_tokens and the loop counter
    root,              \* the last accepted token: emitted, not in the cache
    draft_tree,
    offset,            \* the logits row the next drafts are read from
    logits,            \* the contexts behind the rows of the last pass
    accepted_ids, accepted_tokens, cur_idx,   \* verifyDraftTree
    context,           \* the tokens whose entries the cache should hold (history variable)
    basis,             \* the context behind the last verified token (history variable)
    drafts,            \* the contexts the draft tree was read from (history variable)
    damage             \* what has befallen the cache (history variable)

members == <<n_past, kv, context>>
verdict == <<accepted_ids, accepted_tokens, cur_idx>>
drafting == <<root, draft_tree, offset, drafts>>
vars == <<n_past, kv, pc, max_tokens, todo, output, step, root, draft_tree, offset, logits,
          accepted_ids, accepted_tokens, cur_idx, context, basis, drafts, damage>>

Entry(r, c) == IF c = Junk THEN Junk ELSE <<r, c>>

\* The forecast prefix in columns 0 .. ForecastPrefix - 1 of every row.
PrefixLoaded(stride) == \A r \in Row, i \in 0 .. ForecastPrefix - 1 :
                            kv[r * stride + i] = <<r, Forecast, i>>

\* Every row holds, behind the prefix, the entries of the context's tokens.
CacheHolds(stride) ==
    /\ n_past <= stride
    /\ \A r \in Row, i \in 1 .. Len(context) :
          kv[r * stride + ForecastPrefix + i - 1] = Entry(r, SubSeq(context, 1, i))

\* Mutant: the tree pass is masked as the initial one, all but the root see the prefix.
MaskColumnsFlat(i, prefix_offset) == (IF i < 1 THEN ForecastPrefix ELSE 0) .. n_past - 1

\* The cache columns row i of a tree pass may see.
MaskColumns(i, prefix_offset) ==
    (IF i < prefix_offset THEN ForecastPrefix ELSE 0) .. n_past - 1

\* Rows of a pass over `tokens': each stands for the context along its branch if the
\* mask shows it that context (and the prefix exactly to forecast tokens), the
\* position is the one after it, and the cache holds it.
TreeRows(tokens, prefix_offset) ==
    LET holds == CacheHolds(DecodeKV)
        prefix == PrefixLoaded(DecodeKV)
        sees(i) == LET forecast == tokens[i] >= VocabSize
                   IN  /\ MaskColumns(i, prefix_offset)
                            = (IF forecast THEN 0 ELSE ForecastPrefix) .. n_past - 1
                       /\ forecast => prefix
    IN  [i \in DOMAIN tokens |->
           IF holds /\ sees(i) /\ n_past - ForecastPrefix + Depth[i] = Len(context) + Len(Branch[i]) - 1
             THEN context \o [k \in 1 .. Len(Branch[i]) |-> tokens[Branch[i][k]]]
             ELSE Junk]

Loses(old, new) == IF CopyLen(old, new, n_past) < n_past THEN {"truncated"} ELSE {}
Overruns(stride, column, n) == IF FitsRow(stride, column, n) THEN {} ELSE {"overrun"}

\* A cleared buffer into which loadForecastPrefix read `rows' complete rows: all of
\* them, or fewer when the file is missing, refused or short (reads are not checked).
FreshKV(rows) ==
    [a \in 0 .. Rows * DecodeKV - 1 |->
       IF a \div PrefillKV < rows /\ a % PrefillKV < ForecastPrefix
         THEN <<a \div PrefillKV, Forecast, a % PrefillKV>> ELSE Zero]

LoadedRows == IF "prefix" \in Faults THEN 0 .. Rows ELSE {Rows}
\* The locals of generate() outside of it.
NoTree == [i \in DraftNode |-> 0]
Leave ==
    /\ pc' = "idle" /\ max_tokens' = 0 /\ todo' = <<>> /\ output' = <<>> /\ step' = 0
    /\ root' = 0 /\ draft_tree' = NoTree /\ offset' = 0 /\ logits' = <<>>
    /\ accepted_ids' = <<>> /\ accepted_tokens' = <<>> /\ cur_idx' = 0
    /\ basis' = <<>> /\ drafts' = <<>>
-----------------------------------------------------------------------------
\* onInitialized: n_past_ becomes forecast_prefix whether or not the load succeeded.
Init ==
    /\ n_past = ForecastPrefix /\ context = <<>>
    /\ \E rows \in LoadedRows : kv = FreshKV(rows)
    /\ pc = "idle" /\ max_tokens = 0 /\ todo = <<>> /\ output = <<>> /\ step = 0
    /\ root = 0 /\ draft_tree = NoTree /\ offset = 0 /\ logits = <<>>
    /\ accepted_ids = <<>> /\ accepted_tokens = <<>> /\ cur_idx = 0
    /\ basis = <<>> /\ drafts = <<>> /\ damage = {}

\* resetKVCache: the outcome of loadForecastPrefix is ignored.
ResetKVCache ==
    /\ pc = "idle"
    /\ n_past' = ForecastPrefix /\ context' = <<>> /\ damage' = {}
    /\ \E rows \in LoadedRows : kv' = FreshKV(rows)
    /\ UNCHANGED <<pc, max_tokens, todo, output, step, logits, basis, verdict, drafting>>

\* generate(prompt_tokens, gen_cfg, token_callback)
Generate(prompt, max) ==
    /\ pc = "idle"
    /\ todo' = prompt /\ max_tokens' = max /\ output' = <<>> /\ step' = 0
    /\ pc' = "prefill"
    /\ UNCHANGED <<members, logits, basis, verdict, drafting, damage>>

\* updateKV(s, 0, n_past_, chunk_size)
PrefillColumn(n) == n_past

\* One chunk.  Its mask skips the prefix, its positions start at n_past - prefix; no
\* test asks whether the rows can hold it.
PrefillChunk ==
    LET n == Min2(Len(todo), SeqLenPrefill)
        ctx == context \o SubSeq(todo, 1, n)
        entry(k) == IF CacheHolds(PrefillKV) THEN SubSeq(ctx, 1, Len(context) + k) ELSE Junk
    IN  /\ pc = "prefill" /\ todo # <<>>
        /\ kv' = CopyTokens(kv, Rows, PrefillKV, PrefillColumn(n), n,
                   [p \in Row \X (0 .. n - 1) |-> Entry(p[1], entry(p[2] + 1))])
        /\ n_past' = n_past + n
        /\ context' = ctx
        /\ basis' = entry(n)
        /\ todo' = SubSeq(todo, n + 1, Len(todo))
        /\ damage' = damage \cup Overruns(PrefillKV, PrefillColumn(n), n)
        /\ UNCHANGED <<pc, max_tokens, output, step, logits, verdict, drafting>>

\* What a call of token_callback does: return true, return false, throw.
CallbackResults == {"go", "stop"} \cup (Faults \cap {"callback"})

\* The first token, from the last row of the last chunk, after the restride.  An EOS
\* is not emitted and ends the call.
FirstToken ==
    /\ pc = "prefill" /\ todo = <<>>
    /\ kv' = Restride(kv, Rows, PrefillKV, DecodeKV, n_past, Zero)
    /\ damage' = damage \cup Loses(PrefillKV, DecodeKV)
    /\ \E t \in Token :
         /\ root' = t
         /\ \/ t \in Eos /\ pc' = "restore" /\ UNCHANGED output
            \/ /\ t \notin Eos /\ output' = <<t>>
               /\ \E result \in CallbackResults :
                    pc' = CASE result = "go"   -> "initial"
                            [] result = "stop" -> "restore"
                            [] OTHER           -> "thrown"
    /\ UNCHANGED <<n_past, context, max_tokens, todo, step, draft_tree, offset, logits, basis,
                   verdict, drafts>>

\* The pass over the first token and one forecast token per level; only the first
\* token's entry is kept.
InitialPass ==
    LET tokens == [i \in 0 .. Levels |-> IF i = 0 THEN root ELSE ForecastToken(i)]
        rows == TreeRows(tokens, 1)
    IN  /\ pc = "initial"
        /\ logits' = rows
        /\ kv' = CopyTokens(kv, Rows, DecodeKV, n_past, 1,
                   [p \in Row \X {0} |-> Entry(p[1], rows[0])])
        /\ damage' = damage \cup Overruns(DecodeKV, n_past, 1)
        /\ n_past' = n_past + 1 /\ context' = Append(context, root)
        /\ offset' = 1 /\ pc' = "draft"
        /\ UNCHANGED <<max_tokens, todo, output, step, root, draft_tree, basis, verdict, drafts>>

\* buildSampleTree(last_accepted_token, 1, offset)
Draft ==
    /\ pc = "draft"
    /\ \E ranking \in [1 .. Levels -> Rankings(Token)] :
          draft_tree' = SampleTree(root, [d \in 1 .. Levels |-> TopK(ranking[d], Branches[d] + 1)])
    /\ drafts' = [d \in 1 .. Levels |-> logits[offset + d - 1]]
    /\ logits' = <<>> /\ pc' = "loop"
    /\ UNCHANGED <<members, max_tokens, todo, output, step, root, offset, basis, verdict, damage>>

\* The test at the top of the loop.
RoomForTree == n_past + TotalTokens <= ContextLength

LeaveLoop ==
    /\ pc = "loop" /\ (step >= max_tokens \/ ~RoomForTree)
    /\ pc' = "restore"
    /\ UNCHANGED <<members, max_tokens, todo, output, step, logits, basis, verdict, drafting, damage>>

\* One pass over the whole tree; verifyDraftTree accepts the root's successor.
TreePass ==
    LET tokens == [i \in 0 .. TotalTokens - 1 |->
                     IF i < NumDraftNodes THEN draft_tree[i]
                     ELSE ForecastToken(((i - NumDraftNodes) % Levels) + 1)]
        rows == TreeRows(tokens, NumDraftNodes)
    IN  /\ pc = "loop" /\ step < max_tokens /\ RoomForTree
        /\ logits' = rows
        /\ basis' = rows[0]
        /\ accepted_ids' = <<0>> /\ cur_idx' = 1
        /\ \E t \in Token : /\ accepted_tokens' = <<t>>
                            /\ pc' = IF t \in Eos THEN "commit" ELSE "verify"
        /\ drafts' = <<>>
        /\ UNCHANGED <<members, max_tokens, todo, output, step, root, draft_tree, offset, damage>>

\* A node continues the accepted branch if it is a child of its last node and drafted
\* the token the network chose there.
Extends(i) == /\ AttentionMap[i] = Last(accepted_ids)
              /\ draft_tree[i] = Last(accepted_tokens)

\* Mutant: the loop ends before the last node.
VerifyEndEarly == NumDraftNodes - 1

VerifyEnd == NumDraftNodes

NextNode == cur_idx + 1

\* One turn of the loop of verifyDraftTree.
VerifyNode ==
    /\ pc = "verify" /\ cur_idx < VerifyEnd
    /\ cur_idx' = NextNode
    /\ IF Extends(cur_idx)
         THEN \E t \in Token :
                /\ accepted_tokens' = Append(accepted_tokens, t)
                /\ accepted_ids' = Append(accepted_ids, cur_idx)
                /\ basis' = logits[cur_idx]
                /\ pc' = IF t \in Eos THEN "commit" ELSE "verify"
         ELSE UNCHANGED <<accepted_tokens, accepted_ids, basis, pc>>
    /\ UNCHANGED <<members, max_tokens, todo, output, step, logits, drafting, damage>>

VerifyDone ==
    /\ pc = "verify" /\ cur_idx = VerifyEnd
    /\ pc' = "commit"
    /\ UNCHANGED <<members, max_tokens, todo, output, step, logits, basis, verdict, drafting, damage>>

\* Mutant: the accepted entries are taken for one contiguous run.
SelectedContiguous(k) == k - 1

\* selectiveKVUpdate: the k-th entry to keep is that of the k-th selected row, in
\* ascending order.
Selected(k) == CHOOSE i \in Range(accepted_ids) :
                  Cardinality({j \in Range(accepted_ids) : j < i}) = k - 1

\* Mutant: the next drafts are read from the forecast rows of the accepted count.
NextOffsetByCount == NumDraftNodes + Len(accepted_ids) * Levels

NextOffset == NumDraftNodes + Last(accepted_ids) * Levels

\* Mutant: the token of the last accepted node is the next root.
NextRootDrafted == draft_tree[Last(accepted_ids)]

\* Mutant: tokens and ids change places when verifyDraftTree's pair is taken apart.
NextRootId == Last(accepted_ids)

NextRoot == Last(accepted_tokens)

\* The accepted tokens before an EOS; the callback may end the call at any of them.
Emittable ==
    LET ends == {k \in DOMAIN accepted_tokens : accepted_tokens[k] \in Eos}
    IN  SubSeq(accepted_tokens, 1, IF ends = {} THEN Len(accepted_tokens) ELSE Min(ends) - 1)

Enough(emitted) == Len(emitted) >= max_tokens

\* The accepted branch enters the cache, then its tokens are emitted one by one.
Commit ==
    LET n == Len(accepted_tokens)
    IN  /\ pc = "commit"
        /\ kv' = CopyTokens(kv, Rows, DecodeKV, n_past, n,
                   [p \in Row \X (0 .. n - 1) |-> Entry(p[1], logits[Selected(p[2] + 1)])])
        /\ damage' = damage \cup Overruns(DecodeKV, n_past, n)
        /\ n_past' = n_past + n
        /\ context' = context \o [k \in 1 .. n |-> draft_tree[accepted_ids[k]]]
        /\ root' = NextRoot /\ offset' = NextOffset
        /\ \/ /\ output' = output \o Emittable
              /\ IF Len(Emittable) < n \/ Enough(output')
                   THEN pc' = "restore" /\ UNCHANGED step
                   ELSE pc' = "draft" /\ step' = step + 1
           \/ \E k \in 1 .. Len(Emittable), result \in CallbackResults \ {"go"} :
                /\ output' = output \o SubSeq(Emittable, 1, k)
                /\ pc' = IF result = "stop" THEN "restore" ELSE "thrown"
                /\ UNCHANGED step
        /\ draft_tree' = NoTree /\ basis' = <<>>
        /\ accepted_ids' = <<>> /\ accepted_tokens' = <<>> /\ cur_idx' = 0
        /\ UNCHANGED <<max_tokens, todo, logits, drafts>>

\* "Restore prefill stride so the next call can use AR-128 graphs."
Restore ==
    /\ pc = "restore"
    /\ kv' = Restride(kv, Rows, DecodeKV, PrefillKV, n_past, Zero)
    /\ damage' = damage \cup Loses(DecodeKV, PrefillKV)
    /\ Leave
    /\ UNCHANGED <<n_past, context>>

\* g.execute() fails and generate() throws; during prefill n_past_ and the layout are
\* still those of the last complete chunk.
ExecuteFails ==
    /\ "execute" \in Faults
    /\ \/ /\ pc = "prefill" /\ todo # <<>>
          /\ Leave
       \/ /\ \/ pc = "initial"
             \/ pc = "loop" /\ step < max_tokens /\ RoomForTree
          /\ pc' = "thrown"
          /\ UNCHANGED <<max_tokens, todo, output, step, logits, basis, verdict, drafting>>
    /\ UNCHANGED <<members, damage>>

\* An exception past the prefill skips the last restride.
Unwind ==
    /\ pc = "thrown"
    /\ Leave /\ damage' = damage \cup {"stride"}
    /\ UNCHANGED members

Next ==
    \/ ResetKVCache
    \/ \E prompt \in Prompts, max \in MaxTokens : Generate(prompt, max)
    \/ PrefillChunk \/ FirstToken \/ InitialPass \/ Draft \/ LeaveLoop
    \/ TreePass \/ VerifyNode \/ VerifyDone \/ Commit \/ Restore
    \/ ExecuteFails \/ Unwind

Spec == Init /\ [][Next]_vars

-----------------------------------------------------------------------------
TypeOK ==
    /\ n_past \in Nat /\ context \in Seq(Token)
    /\ DOMAIN kv = 0 .. Rows * DecodeKV - 1
    /\ pc \in {"idle", "prefill", "initial", "draft", "loop", "verify", "commit", "restore", "thrown"}
    /\ max_tokens \in MaxTokens \cup {0} /\ todo \in Seq(Token)
    /\ output \in Seq(Token) /\ step \in Nat /\ root \in Token
    /\ draft_tree \in [DraftNode -> Token]
    /\ offset \in 0 .. TotalTokens - 1
    /\ Range(accepted_ids) \subseteq DraftNode /\ accepted_tokens \in Seq(Token)
    /\ Len(accepted_ids) = Len(accepted_tokens)
    /\ cur_idx \in 0 .. NumDraftNodes
    /\ damage \subseteq {"overrun", "truncated", "stride"}

\* generate(), updateKV and selectiveKVUpdate: at every point of every call the undamaged
\* cache holds, behind the forecast prefix and in the layout of the phase, exactly the
\* entries of the prompts and of the accepted tokens, and n_past_ counts them.  Rows are
\* overrun or cut only by contexts beyond what the prefill layout holds.
CacheMirrorsContext ==
    /\ damage \subseteq {"stride"} \/ n_past > PrefillKV
    /\ damage = {} =>
      /\ n_past = ForecastPrefix + Len(context)
      /\ CacheHolds(IF pc \in {"idle", "prefill"} THEN PrefillKV ELSE DecodeKV)

\* verifyDraftTree: the first token is the network's choice after exactly the cached text,
\* every accepted one after the cached text, the root and the tokens this walk accepted
\* before it; neither the drafts beside the branch nor the forecast prefix, loaded or not,
\* have a part in it.  The cached text is not prompt and output: RootNeverProcessed.
SampledFromContext ==
    damage = {} =>
      /\ pc = "prefill" /\ todo = <<>> => basis = context
      /\ pc \in {"verify", "commit"} =>
            basis = Append(context, root) \o SubSeq(accepted_tokens, 1, Len(accepted_tokens) - 1)

Ends(text, tail) == SubSeq(text, Len(text) - Len(tail) + 1, Len(text)) = tail

\* generate(): the next tree continues the emitted text.  When the call ends, by EOS, the
\* callback, the limit or for lack of room, the text the cache and the root stand for goes
\* beyond what was emitted by less than a whole branch of the tree, what a stop cut off it.
TreeContinuesOutput ==
    pc \in {"draft", "loop", "verify", "restore"} =>
      \E k \in 0 .. (IF pc = "restore" THEN Levels ELSE 0) :
        LET text == Append(context, root)
        IN  Ends(SubSeq(text, 1, Len(text) - k), output)

\* Documentation of the tree (models/llama3_2_ssd/README.md): its root is "argmax output,
\* never processed as input".  So the cached text and the root of the next tree ought to be
\* the prompt and the output, each token once, and decoding serial greedy decoding of them.
RootNeverProcessed ==
    pc \in {"draft", "loop", "verify"} =>
      \E prompt \in Prompts : Ends(Append(context, root), prompt \o output)

\* verifyDraftTree: one pass over the breadth-first order finds the whole matching branch.
WalkIsMaximal ==
    pc = "commit" /\ Last(accepted_tokens) \notin Eos =>
      ~ \E i \in DraftNode \ {0} : Extends(i)

\* generate(): with the prefix loaded, level d of a tree is drafted from the logits of the
\* d-th forecast token after the cached text (the root that follows it was only chosen by
\* the same pass).  The initial pass hangs all its forecast tokens off the first token, so
\* there this holds of the first level only.
DraftsFollowContext ==
    pc = "loop" /\ damage = {} /\ PrefixLoaded(DecodeKV) =>
      \A d \in 1 .. (IF step = 0 THEN 1 ELSE Levels) :
        drafts[d] = context \o [k \in 1 .. d |-> ForecastToken(k)]
=============================================================================
