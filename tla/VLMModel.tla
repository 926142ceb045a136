------------------------------ MODULE VLMModel ------------------------------
(***************************************************************************)
(* geniex::VLMModel (core/src/vlm/vlm_model.cpp), its input providers and  *)
(* its two families, Qwen2.5-VL and Qwen3-VL.  Before a prompt is          *)
(* prefilled its embeddings, positions and visual mask are staged, each    *)
(* anchored at the n_past of that moment; the providers then slice them    *)
(* chunk by chunk by the n_past of the chunk, across everything            *)
(* LLMModel::generate may do to n_past in between.                         *)
(*                                                                         *)
(* A token of the context is an item: its id and what it means, the        *)
(* embedding it ought to enter the network with.  fed records what the     *)
(* graphs were really given.  Module LLMModel has the KV layout, which is  *)
(* left out here; n_past is the length of the history (its HistoryMatches).*)
(***************************************************************************)
EXTENDS VisionEncoder, MRoPEPositions, SlidingWindow

CONSTANTS
    Text, Eos,            \* ordinary tokens and the end-of-sequence tokens
    VisionStart, ImagePad,
    Images,               \* images a user can send
    Shapes,               \* prompts: sequences of ordinary tokens and images
    Grids,                \* the frame sizes of bundles, in groups
    SpatialMerge, WindowSize,
    MaxCL, SeqLenPrefill,
    MaxTokens, Sliding, NKeep,
    Faults,               \* whether graphs fail
    Junk, None

ASSUME VLMAssumption ==
    /\ {VisionStart, ImagePad} \cap (Text \cup Eos) = {} /\ VisionStart # ImagePad
    /\ Text \cap Images = {}
    /\ Shapes \subseteq Seq(Text \cup Images) \ {<<>>}
    /\ Grids \subseteq (Nat \ {0}) \X (Nat \ {0})
    /\ SpatialMerge \in Nat \ {0} /\ WindowSize \in Nat \ {0}
    /\ MaxCL \in Nat \ {0} /\ SeqLenPrefill \in 1 .. MaxCL /\ NKeep \in 0 .. MaxCL
    /\ MaxTokens \subseteq Nat /\ Sliding \subseteq BOOLEAN /\ Faults \in BOOLEAN

VARIABLES
    family, grid,      \* what makeModel built and the frame its bundle fixes
    encoder,           \* what its vision encoder makes of each group
    token_history,     \* items
    fed,               \* for each of them, what the graphs were given
    emb,               \* PrecomputedEmbeddingProvider: buffer_, buffer_offset_
    mrope,             \* MRoPEInputProvider: table, position_offset_, mrope_deltas_
    deepstack,         \* DeepstackInputProvider: mask_, mask_offset_, embeds_
    pc, req, todo, goal, next_token, step,     \* generate()
    file,              \* the saved cache
    damage             \* history: what went wrong with positions or contents

context == <<token_history, fed>>
providers == <<emb, mrope, deepstack>>
bundle == <<family, grid, encoder>>
vars == <<family, grid, encoder, token_history, fed, emb, mrope, deepstack, pc, req, todo, goal,
          next_token, step, file, damage>>

Families == {"qwen2_5", "qwen3"}

\* mrope_deltas_ is that of a prompt that did not enter the context, of the conversation
\* before a reset, of another file than the one loaded; tokens were evicted and replayed.
Harms == {"abandoned", "reset", "loaded", "evicted"}
n_past == Len(token_history)
Request == [shape : Shapes, max_tokens : MaxTokens, sliding : Sliding]

\* The processor (external) puts a vision-start token and one pad token per group
\* for each image.
Expand(shape) ==
    LET image(m) == <<[tok |-> VisionStart, means |-> VisionStart]>> \o
                    [g \in 1 .. grid[1] * grid[2] |->
                        [tok |-> ImagePad, means |-> <<m, g - 1>>]]
    IN  FlattenSeq([i \in DOMAIN shape |->
            IF shape[i] \in Images THEN image(shape[i])
            ELSE <<[tok |-> shape[i], means |-> shape[i]]>>])

ImagesOf(shape) ==
    FlattenSeq([i \in DOMAIN shape |-> IF shape[i] \in Images THEN <<shape[i]>> ELSE <<>>])
Ids(items) == [i \in DOMAIN items |-> items[i].tok]

\* What the encoder makes of each group of an image; its tables depend on the frame
\* only, so this is worked out once.
EncodeImage(f, g) ==
    LET ws == IF f = "qwen2_5" THEN WindowSize ELSE 0
        out == IF ws = 0 THEN EncodeFull(g[1], g[2], SpatialMerge)
               ELSE EncodeWindowed(g[1], g[2], SpatialMerge, ws)
    IN  [i \in Groups(g[1], g[2]) |->
            IF out[i] = TrueFeature(i, g[1], g[2], SpatialMerge, ws) THEN i ELSE Junk]

\* encodeVision: the features of all images in prompt order.
EncodeVision(images) ==
    FlattenSeq([i \in DOMAIN images |->
        [g \in 1 .. grid[1] * grid[2] |-> <<images[i], encoder[g - 1]>>]])

\* maskedScatter over the looked-up embeddings.
MaskedScatter(ids, features) ==
    [i \in DOMAIN ids |->
        IF ids[i] = ImagePad /\ features # <<>>
          THEN features[Cardinality({j \in 1 .. i : ids[j] = ImagePad})]
          ELSE ids[i]]
-----------------------------------------------------------------------------
(* What the providers write for the j-th token of a chunk; the rows handed *)
(* to the graph start at the difference of n_past and the anchor.          *)

LocalRow(at, j) == n_past - at + j

\* A slice that leaves the staged rows reads whatever lies there.
StagedRow(rows, at, j) ==
    IF LocalRow(at, j) \in DOMAIN rows THEN rows[LocalRow(at, j)] ELSE Junk

\* PrecomputedEmbeddingProvider::write in prefill.
PrefillEmbedding(chunk, j) ==
    IF emb.rows # <<>> THEN StagedRow(emb.rows, emb.at, j) ELSE chunk[j].tok

\* MRoPEInputProvider::write: staged positions in prefill, else counted on.
CountedPosition(j) == [d \in 1 .. 3 |-> n_past + j - 1 + mrope.deltas]
PrefillPosition(j) ==
    IF mrope.rows # <<>> THEN StagedRow(mrope.rows, mrope.at, j) ELSE CountedPosition(j)

\* Mutant: the features are fed from the first one in every chunk.
VisualOffsetNone(start) == 0

\* The features earlier chunks consumed.
VisualOffset(start) == Cardinality({i \in DOMAIN deepstack.mask : i <= start /\ deepstack.mask[i]})

\* DeepstackInputProvider::write and the scatter in the graph, which hands the rows
\* to the masked tokens of the chunk in order.
PrefillDeepstack(j) ==
    LET visual == deepstack.mask # <<>> /\ n_past >= deepstack.at
        start == IF visual THEN n_past - deepstack.at ELSE 0
        masked(k) == /\ visual /\ start + k \in DOMAIN deepstack.mask
                     /\ deepstack.mask[start + k]
        row == VisualOffset(start) + Cardinality({k \in 1 .. j : masked(k)})
    IN  IF masked(j) /\ row \in DOMAIN deepstack.rows THEN deepstack.rows[row] ELSE None
-----------------------------------------------------------------------------
Unstaged == [rows |-> <<>>, at |-> 0]
Untold == [mask |-> <<>>, at |-> 0, rows |-> <<>>]

Init ==
    /\ family \in Families /\ grid \in Grids
    /\ encoder = EncodeImage(family, grid)
    /\ token_history = <<>> /\ fed = <<>>
    /\ emb = Unstaged /\ deepstack = Untold
    /\ mrope = [rows |-> <<>>, at |-> 0, deltas |-> 0]
    /\ pc = "idle" /\ req = None /\ todo = <<>> /\ goal = "prompt"
    /\ next_token = None /\ step = 0
    /\ file = None /\ damage = {}

Leave ==
    /\ pc' = "idle" /\ req' = None /\ todo' = <<>> /\ goal' = "prompt"
    /\ next_token' = None /\ step' = 0

\* Mutant: the positions of a later turn do not account for earlier images.
PromptOriginNoDeltas == n_past

\* What is added to the prompt's own positions.
PromptOrigin == n_past + mrope.deltas

\* VLMModel::generate up to LLMModel::generate: encode, scatter, stage.  An
\* exception of the encoder leaves before anything is staged.
Generate(r) ==
    /\ pc = "idle"
    /\ LET items == Expand(r.shape)
           ids == Ids(items)
           images == ImagesOf(r.shape)
           features == EncodeVision(images)
           pos == ComputePositions(ids, [i \in DOMAIN images |-> <<1, grid[1], grid[2]>>],
                                   VisionStart, ImagePad)
       IN  /\ emb' = [rows |-> MaskedScatter(ids, features), at |-> n_past]
           /\ deepstack' =
                IF family = "qwen2_5" THEN deepstack
                ELSE [mask |-> [i \in DOMAIN ids |-> ids[i] = ImagePad], at |-> n_past,
                      rows |-> IF images = <<>> THEN deepstack.rows ELSE features]
           /\ mrope' = [rows |-> [i \in DOMAIN pos |-> [d \in 1 .. 3 |-> pos[i][d] + PromptOrigin]],
                        at |-> n_past, deltas |-> mrope.deltas + PositionDelta(pos)]
           /\ req' = [items |-> items, delta |-> PositionDelta(pos),
                      max_tokens |-> r.max_tokens, sliding |-> r.sliding]
    /\ pc' = "fit"
    /\ UNCHANGED <<bundle, context, todo, goal, next_token, step, file, damage>>

\* An exception: clearBuffer and clearPositions are skipped.  The deltas of images
\* that did not all enter the context stay in mrope_deltas_.
Unwind(prompt_is_in) ==
    /\ Leave
    /\ damage' = IF prompt_is_in \/ req.delta = 0 THEN damage
                 ELSE damage \cup {"abandoned"}
    /\ UNCHANGED <<bundle, context, providers, file>>

EffectiveKeep == IF req.sliding THEN NKeep ELSE 0
Discard(n_fit) == ComputeSlideDiscard(n_past, n_fit, MaxCL, EffectiveKeep)

CanSlide(n_fit) ==
    /\ req.sliding /\ Discard(n_fit) > 0
    /\ n_past - Discard(n_fit) + n_fit <= MaxCL

\* slideWindowEvict: the surviving tail is prefilled again from its ids, while the
\* providers still slice what was staged for the prompt.
Evict(n_fit, g) ==
    /\ token_history' = SubSeq(token_history, 1, EffectiveKeep)
    /\ fed' = SubSeq(fed, 1, EffectiveKeep)
    /\ todo' = SubSeq(token_history, EffectiveKeep + Discard(n_fit) + 1, n_past)
    /\ goal' = g /\ pc' = "chunk"
    /\ damage' = damage \cup {"evicted"}
    /\ UNCHANGED <<bundle, providers, req, next_token, step, file>>

\* Mutant: the tokens already in the context are forgotten.
PromptFitsAlone == Len(req.items) <= MaxCL

PromptFits == n_past + Len(req.items) <= MaxCL

FitPrompt ==
    /\ pc = "fit"
    /\ \/ /\ PromptFits
          /\ pc' = "chunk" /\ goal' = "prompt" /\ todo' = req.items
          /\ UNCHANGED <<bundle, context, providers, req, next_token, step, file, damage>>
       \/ ~PromptFits /\ CanSlide(Len(req.items)) /\ Evict(Len(req.items), "evict_prompt")
       \/ ~PromptFits /\ ~CanSlide(Len(req.items)) /\ Unwind(FALSE)

PromptEvicted ==
    /\ pc = "chunk" /\ todo = <<>> /\ goal = "evict_prompt"
    /\ \/ /\ PromptFits
          /\ todo' = req.items /\ goal' = "prompt"
          /\ UNCHANGED <<bundle, context, providers, pc, req, next_token, step, file, damage>>
       \/ ~PromptFits /\ Unwind(FALSE)

\* One chunk of prefillChunks through all shards.
PrefillChunk ==
    /\ pc = "chunk" /\ todo # <<>>
    /\ LET n == Min2(Len(todo), SeqLenPrefill)
           chunk == SubSeq(todo, 1, n)
       IN  /\ token_history' = token_history \o chunk
           /\ fed' = fed \o [j \in 1 .. n |-> [emb  |-> PrefillEmbedding(chunk, j),
                                               pos  |-> PrefillPosition(j),
                                               deep |-> PrefillDeepstack(j)]]
           /\ todo' = SubSeq(todo, n + 1, Len(todo))
    /\ UNCHANGED <<bundle, providers, pc, req, goal, next_token, step, file, damage>>

PrefillFails ==
    /\ pc = "chunk" /\ todo # <<>> /\ Faults
    /\ Unwind(FALSE)

PromptDone ==
    /\ pc = "chunk" /\ todo = <<>> /\ goal = "prompt"
    /\ next_token' \in Text \cup Eos
    /\ pc' = "decode"
    /\ UNCHANGED <<bundle, context, providers, req, todo, goal, step, file, damage>>

\* The loop of generate() goes on with a token that is not an end of sequence.
GoesOn == pc = "decode" /\ step < req.max_tokens /\ next_token \notin Eos

\* A decode step: the token's own embedding, a counted position, no features.
Decode ==
    /\ GoesOn /\ n_past + 1 <= MaxCL
    /\ token_history' = Append(token_history, [tok |-> next_token, means |-> next_token])
    /\ fed' = Append(fed, [emb |-> next_token, pos |-> CountedPosition(1), deep |-> None])
    /\ next_token' \in Text \cup Eos
    /\ step' = step + 1
    /\ UNCHANGED <<bundle, providers, pc, req, todo, goal, file, damage>>

\* No room: slide, or throw.
DecodeFull ==
    /\ GoesOn /\ n_past + 1 > MaxCL
    /\ IF CanSlide(1) THEN Evict(1, "evict_decode") ELSE Unwind(TRUE)

DecodeEvicted ==
    /\ pc = "chunk" /\ todo = <<>> /\ goal = "evict_decode"
    /\ pc' = "decode"
    /\ UNCHANGED <<bundle, context, providers, req, todo, goal, next_token, step, file, damage>>

DecodeFails == GoesOn /\ Faults /\ Unwind(TRUE)

\* The loop ends (EOS, max_tokens or the callback); clearBuffer, clearPositions.
Return ==
    /\ pc = "decode"
    /\ Leave
    /\ emb' = Unstaged
    /\ mrope' = [mrope EXCEPT !.rows = <<>>, !.at = 0]
    /\ deepstack' = Untold
    /\ UNCHANGED <<bundle, context, file, damage>>

\* Qwen3-VL overrides resetKVCache to start its positions over; Qwen2.5-VL does not.
DeltasAfterReset == IF family = "qwen3" THEN 0 ELSE mrope.deltas

ResetKVCache ==
    /\ pc = "idle"
    /\ token_history' = <<>> /\ fed' = <<>>
    /\ IF family = "qwen3"
         THEN /\ mrope' = [rows |-> <<>>, at |-> 0, deltas |-> DeltasAfterReset]
              /\ deepstack' = Untold
         ELSE UNCHANGED <<mrope, deepstack>>
    /\ damage' = IF family = "qwen2_5" /\ mrope.deltas # 0 THEN {"reset"} ELSE {}
    /\ UNCHANGED <<bundle, emb, pc, req, todo, goal, next_token, step, file>>

\* saveKVCacheToFile: the history and the cache, not mrope_deltas_.
SaveKVCache ==
    /\ pc = "idle" /\ token_history # <<>>
    /\ file' = [history |-> token_history, fed |-> fed, deltas |-> mrope.deltas, damage |-> damage]
    /\ UNCHANGED <<bundle, context, providers, pc, req, todo, goal, next_token, step, damage>>

LoadKVCache ==
    /\ pc = "idle" /\ file # None
    /\ token_history' = file.history /\ fed' = file.fed
    /\ damage' = file.damage \cup
                   (IF file.deltas = mrope.deltas THEN {} ELSE {"loaded"})
    /\ UNCHANGED <<bundle, providers, pc, req, todo, goal, next_token, step, file>>

Next ==
    \/ \E r \in Request : Generate(r)
    \/ FitPrompt \/ PromptEvicted \/ PrefillChunk \/ PrefillFails \/ PromptDone
    \/ Decode \/ DecodeFull \/ DecodeEvicted \/ DecodeFails \/ Return
    \/ ResetKVCache \/ SaveKVCache \/ LoadKVCache

Spec == Init /\ [][Next]_vars
-----------------------------------------------------------------------------
(* Properties.                                                             *)

\* Items, inputs and staged rows have the shapes the providers rely on: rows are
\* staged together, and the history and what was fed have one length.
TypeOK ==
    /\ family \in Families /\ grid \in Grids
    /\ Len(fed) = n_past /\ n_past <= MaxCL
    /\ emb.at \in 0 .. MaxCL /\ mrope.at \in 0 .. MaxCL /\ deepstack.at \in 0 .. MaxCL
    /\ (emb.rows = <<>>) = (mrope.rows = <<>>) \/ pc = "idle"
    /\ mrope.deltas \in Int
    /\ pc \in {"idle", "fit", "chunk", "decode"}
    /\ goal \in {"prompt", "evict_prompt", "evict_decode"}
    /\ damage \subseteq Harms

\* For every frame, window size and ragged edge, the feature that comes back for a
\* group is computed from its own patches, rotated to their own places, attending to
\* its own window and nothing else: the index, its reverse, the rotation table and the
\* mask agree with one another and with the compiled ViT.
FeaturesInPlace == \A g \in Groups(grid[1], grid[2]) : encoder[g] = g

\* Every token entered the network as what it means: a text token as its own
\* embedding, an image's pad token as the feature of its own group, and in Qwen3-VL
\* with that group's features of the intermediate layers; through window order, scatter,
\* staging and chunks, over any number of turns, and after a turn that was abandoned with
\* its rows staged.  Only an eviction replays tokens as something else.
FedAsPrompted ==
    "evicted" \notin damage =>
        \A i \in 1 .. n_past :
            /\ fed[i].emb = token_history[i].means
            /\ fed[i].deep = IF family = "qwen3" /\ token_history[i].tok = ImagePad
                               THEN token_history[i].means ELSE None

\* The first position past the first n tokens, for n from 0 on.
Frontiers ==
    LET f[i \in 0 .. n_past] ==
            IF i = 0 THEN <<0>>
            ELSE LET g == f[i - 1]
                 IN  Append(g, Max2(Last(g), 1 + Max({fed[i].pos[d] : d \in 1 .. 3})))
    IN  f[n_past]
Frontier(n) == Frontiers[n + 1]

\* Text stands in all three dimensions one past everything before it, an image's groups
\* in a box that begins there.
PositionsInPlace ==
    LET front == Frontiers
        at(i) == token_history[i].means[2]   \* the group of a pad token
    IN  \A i \in 1 .. n_past :
            fed[i].pos =
              IF token_history[i].tok = ImagePad
                THEN [d \in 1 .. 3 |->
                        front[i - at(i)] + BoxCell(<<1, grid[1], grid[2]>>, at(i))[d]]
                ELSE [d \in 1 .. 3 |-> front[i]]

\* M-RoPE across turns, images, chunks and decode steps: the positions staged with n_past
\* and mrope_deltas_ added, sliced by n_past, and those a decode step counts are one
\* sequence.  Not once one of Harms has happened: an image prompt was rejected or failed,
\* Qwen2.5-VL was reset after an image, a cache was loaded under other deltas than it was
\* saved under, or tokens were evicted.  Prompts of text may fail.
PositionsContinue == damage = {} => PositionsInPlace

\* Documentation of mrope_deltas_ (vlm_input_provider.h): "Accumulated position offset
\* across conversation turns".  A prompt that was rejected or whose prefill failed is no
\* turn of the conversation, and VLMPipeline::reset "resets to the start of a new
\* conversation" (vlm_pipeline.h): neither ought to leave an offset to the next turn.
OffsetsOfThisConversation == damage \subseteq {"abandoned", "reset"} => PositionsInPlace
=============================================================================
