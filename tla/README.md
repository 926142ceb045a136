# A TLA+ model of the GenieX QAIRT plugin

This directory holds TLA+ modules that model the LLM runtime under `core/`, TLC
configurations that check them on small instances, and proofs checked by TLAPS.
Paths are relative to the repository root; `llm_model.cpp` without a directory is
`core/src/llm/llm_model.cpp`.

## The system

| Part | State | Operations | Interacts with |
|---|---|---|---|
| `ThreadPool` (`core/src/threadpool.cpp`) | job queue, `outstanding_`, `first_error_`, workers, spinners | `start`, `stop`, `enqueue`, `wait`, `loop`, `startClockKeeper`, `stopClockKeeper` | owned by `LLMModel` as `decode_pool_` |
| `LLMModel` (`core/src/llm/llm_model.cpp`) | `n_past_`, `active_cl_idx_`, `token_history_`, the KV input buffers, the sampler | `generate`, `resetKVCache`, `saveKVCacheToFile`, `loadKVCacheFromFile` | graphs (execute, tensors), pool jobs, the token callback, disk |
| KV layout (`copyKV`, `reshapeKV`, `promoteCL`) | one flat buffer per tensor, shared by all context-length and phase variants | strided copy, in-place restride | called by `LLMModel` |
| Model loading (`core/src/model.cpp`, `onInitialized`, `inferSpecFromGraphs`) | graphs sorted by phase, shard and context length; wiring | `initialize` | `QnnApi` |
| Pipelines (`core/src/pipeline`, `examples/auto_llm`) | tokenizer, processor, the model, `ready`; in auto_llm the message list | `create`, `generate`, `reset`, KV save/load | `LLMModel`, `VLMModel`, user callback |
| `VLMModel` (`core/src/vlm`, `models/qwen*_vl`) | staged embeddings, positions and visual mask, position deltas | `generate` with image features, `resetKVCache` | extends `LLMModel`; its input providers write the graphs' inputs |
| Vision encoders (`core/src/vlm/vit_utils.cpp`, `models/qwen*_vl`) | none between calls | `encode` | called by `VLMModel::generate` |
| `SSDModel` (`models/llama3_2_ssd`) | forecast prefix, KV buffers, `n_past_` | `generate` by speculative decoding, `resetKVCache` | extends `LLMModel`, replaces its `generate` |
| Continuous batching (`examples/continuous_batching/common/cb`) | sessions, KV segments of one shared cache | admit, extend, release, compact, batch step | `CBLLMModel` |
| `qnn-api/` | SDK wrapper | graph loading, buffers, execute | taken over from the QAIRT SDK |

What is hard here: decode overlaps the KV write-back of a shard with the execution
of the next one, on pool threads that read members (`active_cl_idx_`, the graph's
output buffer) at the time they run; the same physical buffer is reinterpreted at
four or more strides and moved in place; eviction rewinds the context and replays
it in the middle of the decode loop; and an exception can leave `generate()` between
any two of these steps.

What makes each part correct:

* the pool: `wait()` is a barrier, reports the first exception once, and ends;
  `stop()` ends; no job is lost or run twice;
* the KV layout: restriding preserves every valid token of every row; writes stay in
  their row;
* `LLMModel`: between calls the cache is exactly the image of `token_history_` at the
  prefill stride; every token is sampled from exactly that history; the history is a
  bounded window whose anchored prefix survives eviction; `generate()` ends;
* continuous batching: the segments of sessions are disjoint, moves preserve them, and
  a session's output does not depend on its neighbours;
* speculative decoding: each accepted token is the network's choice after exactly the cached
  text and the tokens accepted before it, the cache holds exactly the accepted branch, and it
  goes on with what is emitted; that the cached text is prompt and output, each token once,
  would make it serial decoding, and is where the code falls short;
* the vision encoders: each patch's feature comes back in the place of its patch;
* `VLMModel`: every token of a prompt is fed its own embedding, position and DeepStack
  row, over chunks and turns, and positions go on without a gap (until a prompt with an image
  is abandoned, Qwen2.5-VL is reset after one, a file is loaded under other deltas, or tokens
  are evicted: there they do not);
* the pipelines: the context is the transcript, BOS stands once at its front, the sampler
  has heard this conversation and no other, and the reported reason is the true one.

## Modules

| Module | Models | Extends |
|---|---|---|
| `JobBarrier` | what the pool promises, abstractly | |
| `ThreadPool` | `threadpool.cpp`, one action per critical section, explicit condition variables with lost and spurious wake-ups | instantiates `JobBarrier` |
| `ThreadPoolProofs` | proofs about `ThreadPool` | `ThreadPool` |
| `KVBuffer` | the layout of a KV tensor: `copyKV` and the effect of `reshapeKV` | |
| `ReshapeKV` | `reshapeKV` memmove by memmove | `KVBuffer` |
| `ReshapeKVProofs` | proofs about `ReshapeKV` | `ReshapeKV` |
| `TokenWindow` | what `LLMModel` promises about the context, abstractly | |
| `MinMax`, `SlidingWindow` | minimum and maximum; `computeSlideDiscard`, shared by three modules | |
| `LLMModel` | `llm_model.cpp`: generate, eviction, promotion, write-back jobs, reset, save, load | `KVBuffer`, `SlidingWindow`, instantiates `TokenWindow` |
| `LLMModelProofs` | proofs about `LLMModel` | `LLMModel`, `SharedFacts` |
| `KVCacheManager` | the segment arithmetic of continuous batching, as operators | |
| `CBLLMModel` | `Scheduler` and `generateBatch` on top of it | `KVBuffer`, `KVCacheManager` |
| `DraftTree` | the shape of a draft tree: ancestors, mask, depths, candidates | |
| `SSDModel` | `ssd_model.cpp`: prefill, initial pass, draft, verify, selective KV update, restore | `DraftTree`, `KVBuffer` |
| `VisionWindows` | `vit_utils.cpp` by row: window index and reverse, block mask, rotation table | |
| `VisionEncoder` | both `encode()` functions around an external ViT | `VisionWindows` |
| `MRoPEPositions` | `computeMRoPEPositions` | |
| `VLMModel` | `vlm_model.cpp`, the three providers, both families' positions and resets | `VisionEncoder`, `MRoPEPositions`, `SlidingWindow` |
| `Pipeline` | `LLMPipeline`, `VLMPipeline` and auto_llm's pipeline, with the sampler's lifecycle, over a token window | `SlidingWindow`, instantiates `TokenWindow` |
| `PipelineProofs`, `SSDModelProofs`, `VLMModelProofs`, `CBLLMModelProofs` | proofs about `Pipeline`, `SSDModel`, `VLMModel` with its encoders, and `CBLLMModel` with its segments | their module, `SharedFacts` |
| `SharedFacts` | lemmas on sequences, buffers, numbers and recursion that several proofs cite | `KVBuffer`, `SlidingWindow` |
| `MCReshapeKV`, `MCLLMModel`, `MCCBLLMModel`, `MCSSDModel`, `MCVLMModel`, `MCPipeline` | small instances for TLC | |

The layers rest on one another. `ThreadPool` is shown to implement `JobBarrier`, and
`LLMModel` uses the pool only as that barrier: its `jobs` are a set, `PoolWait` is
`jobs = {}`. `ReshapeKV` is shown to compute `KVBuffer!Restride`, and `LLMModel` and
`CBLLMModel` use that in one step; this is sound because both only restride when no
write-back is in flight. `LLMModel` is shown to implement `TokenWindow`, and `Pipeline`
takes the model at that word: its context is a window of tokens, and it is shown to make
of it nothing but a `TokenWindow` again. `VLMModel` repeats the control of
`LLMModel::generate` without the KV cache, because the providers only see `n_past_` and
the chunks, and adds what is staged beside it.

### How the state corresponds to the code

**`ThreadPool`**: `jobs`, `outstanding`, `terminate`, `poll`, `first_error`, `threads`,
`spinners` and `spinners_stop` are the members of that name with a trailing underscore.
`pc[w]` is a worker's place in `loop()`, `cur[w]` the job it popped. `caller` is the
place of the calling thread, which is one thread, as in `LLMModel`. `Sleep` and
`WaitSleep` are the two waits with a false predicate; a notification moves a sleeper
back to its test, and so does a spurious wake-up.

**`LLMModel`**: the members `n_past`, `active_cl`, `token_history`; `kv[s]`, the one
buffer that all variants of shard `s` share; `out[s]`, the output of its decode graph,
which the jobs read; and the locals of `generate()`. The network is abstract: a KV
entry *is* the context it was computed from (row and token prefix), and a shard's
result is `Junk` when the entries it attends to are not the entries of exactly that
context. So a stale entry, a wrong stride, an evicted token or a missing write-back
anywhere shows as `logits # token_history`. `damage` is a history variable: what the
code did to the cache that it does not repair (a row overrun, a truncation, an
exception between two restrides, a job in flight after one, a partial load).
Properties about contents are stated for a cache with no damage, and separate
properties and runs say when damage can occur.

**`CBLLMModel`**: `sessions` is `Scheduler::sessions_`, `segments` is
`KVCacheManager::segments_`, `moves` the list of `MoveOp`s still to be applied by
`moveKVBuffer`, and `batch`, `lens`, `in_start`, `kv_segs` the `CBStepContext`. `act`
holds, per input row, the context that row stands for.

**`SSDModel`**: `n_past`, `kv` (one tensor of `Rows` rows) and the locals of `generate()`;
`context` is the text the accepted entries stand for. `pc` follows `generate()`, with one
`VerifyNode` step per tree node. The network is a function of the context a row attends
to: `Rankings` gives every order in which the tokens may be ranked there, and `basis`
records the contexts the accepted tokens were chosen after, `drafts` those the forecast
tokens saw. `damage` says when a row was overrun or truncated, or a call left between two
strides.

**`VLMModel`**: `token_history` pairs each token with what it means (itself, or the
feature of a group of patches), `fed` records what the graph was given for it: embedding,
position, DeepStack row. `emb`, `mrope`, `deepstack` are the providers with the offset
they were staged at. `encoder` is the outcome of `encode()` for the frame at hand, per
merged group of patches, computed by `VisionEncoder`: the ViT is external and is taken to
mix the rows its mask and order let it mix, so a feature computed from a neighbour's
patch, at a wrong angle or across a window border differs from the group's own.
`damage` collects the four things (`Harms`) after which positions are not asked to go on: a
prompt with an image `"abandoned"`, whose deltas stay; a Qwen2.5-VL `"reset"` after an image,
which keeps them; a file `"loaded"` under other deltas (it does not hold `mrope_deltas_`);
and tokens `"evicted"` and replayed.

**`Pipeline`**: `kind` chooses the front end. `sampler` holds the configuration it was
made with and everything it has been told (`seen`), `heard` everything it could have been
told in this conversation. `turns` is the transcript from the caller's side; `messages`
is auto_llm's list. `ended` is why the loop really ended, to compare with the reason
reported.

Pairs of key and value tensors differ only in which dimension is the row, so one
tensor per shard stands for all of its layers; cells are tokens, not bytes.

## Runs

| Run | Question | Instance |
|---|---|---|
| `pool` | does the pool count, wake, stop and implement the barrier | 2 workers, 2 jobs, 1 spinner |
| `reshape` | do the loops compute the restride | up to 4 rows, strides and valid counts up to 5 |
| `llm_decode` | multi-turn generation with overlap, window on and off, LM head shard | context lengths 4 and 6, chunks of 2, 3 shards, 2 rows |
| `llm_faults` | failing graphs, callbacks and disks, save, load, reset | context lengths 4 and 6, 2 shards |
| `cb` | three sessions sharing a cache | cache rows of 3 and 13 tokens, steps of 4 |
| `ssd` | does each accepted token follow the cached text, and the cache what is emitted | tree of 2 and 1 branches, 3 tokens, chunks of 16, rows of 22 and 23 |
| `vlm` | encoders, staging and positions of both families | frames up to 5 by 4 groups, windows of 2 by 2 groups, prompts with one and two images, chunks of 4, context 11 |
| `pipeline` | the three front ends and the sampler | one message of two tokens, two turns, context 5 |

Why these bounds are enough to be interesting: two workers and two jobs are the least
for a wake-up to reach the wrong thread and for a second exception. Two rows are the least for a
row to run into its neighbour, and two context lengths the least for a promotion. With
chunks of two a prompt spans chunks, and with a largest context of 6 tokens a
conversation reaches every variant, the limit and several evictions within two or three turns. Histories are bounded by the
largest context length, so no further bound is needed there. In `cb` the prompts of
1, 5 and 1 tokens make one prompt span steps, a session join while others
decode, three segments move at once, and sessions leave from the front, the middle and
the end; the largest cache just holds all of them. `llm_faults` has a constraint: it
does not follow `generate()` on a cache already known to be damaged.

`ssd` has the least tree with a node whose parent is not the root and a chain of two
forecast tokens; a conversation starts with a prompt of two chunks and goes on with short
ones to the end of the prefill rows and of the decode rows (constraint `LongFirst`).
`vlm` encodes every frame once, in the initial states, and holds conversations about the
two smallest ragged ones (`TalksAboutSmallFrames`); its other constraints stop at the
first eviction into the prompt, after the deltas of a few images, and at saves that add
nothing. `pipeline` bounds the turns by `MaxTurns`, creations to an empty context
(`MayCreate`) and saves to contexts of three or four tokens (`MaySave`).

### What the runs examine

* `ThreadPool`: `OutstandingCounts`, `NoLostWakeup`, `ImplementsBarrier`, and under
  fairness `WaitReturns`, `StopReturns`.
* `ReshapeKV`: `ValidTokensPreserved` during the loops, `ComputesRestride` at their end.
* `LLMModel`: `HistoryMatches` and `WithinContext` about the counts; `KVMatchesHistory`
  (between calls the cache is the image of the history) and `SampledFromHistory` (every
  token is computed from exactly the history) about the contents; `AnchorKept` and
  `ImplementsWindow` about eviction; `SafeBelowPrefillCapacity` about when a row can be
  overrun or truncated at all; `GenerateReturns` about termination.
* `CBLLMModel`: `SegmentsMirrorSessions` (every slice of the shared cache holds its own
  session's entries), `SampledFromOwnContext`, `FedInOrder`, and `EverySessionCompletes`.
* `SSDModel`: `CacheMirrorsContext` (the cache holds exactly the accepted branch, and is
  overrun only beyond the prefill rows), `SampledFromContext` (each accepted token is chosen
  after the cached text, the root and the tokens accepted before it), `TreeContinuesOutput`
  (the cached text and the root go on with the emitted text, and where a call ends, at EOS or a
  stop, go beyond it by less than a branch), `WalkIsMaximal` (one breadth-first walk finds the
  whole matching branch), `DraftsFollowContext` (the forecasts belong to the accepted branch).
* `VLMModel`: `FeaturesInPlace` over all frames; `FedAsPrompted` (embedding and DeepStack
  rows) and `PositionsContinue` about what each token was fed, the latter until one of the
  four `Harms`.
* `Pipeline`: `SamplerHearsConversation`, `ContextIsTranscript`, `BosOnceAtFront`,
  `ReasonIsTrue`, `ImplementsWindow`.

### Fairness

`ThreadPool` assumes weak fairness of each worker's own steps, of the calling thread
while it is inside a call, and of spinner exits: the operating system runs runnable
threads. Sleeping threads need a notification; spurious wake-ups are allowed but never
assumed. `LLMModel` assumes weak fairness of the calling thread inside `generate()` and
of the jobs, the latter only when there are workers, which is what the fairness of
`ThreadPool`'s workers gives. `CBLLMModel` assumes it of the calling thread inside `generateBatch`.
Nothing is assumed of callers: they may never call again. `SSDModel`, `VLMModel` and
`Pipeline` are sequential code with loops counted by the request; only safety is asked of them.

## Where code and comments disagree

Each of these is a run that is expected to find its property violated. Each uses the least
instance that shows it: one kind of fault, one front end, prompts of one or a few tokens.

| Run | What the code says of itself | What it does |
|---|---|---|
| `prefill_capacity` | `llm_model.cpp:645`: ensure the prefill buffer can hold the chunk | at the largest variant nothing is left to promote to; the chunk runs past its row |
| `ssd_root` | `models/llama3_2_ssd/README.md:34`: the root of a tree was never processed as input | the initial pass commits the first token's KV (`ssd_model.cpp:611`) and the first tree has it for its root (line 616): later tokens are chosen after the prompt and the first token twice |
| `vlm_offsets` | `vlm_input_provider.h:94`: the offset accumulates across conversation turns; `vlm_pipeline.h:50`: `reset()` begins a new conversation | a prompt with an image that is rejected or fails has advanced `mrope_deltas_` (`qwen3_vl.cpp:216`, `qwen2_5_vl.cpp:162`) and nothing takes that back: the next turn is shifted. In Qwen2.5-VL, which has no `resetKVCache` of its own, neither does a reset |
| `chat_prefix` | `auto_llm.cpp:152`: the cache holds the prefix matching `messages` | each turn feeds the whole rendered list on top of the cache, which already holds the earlier turns |

Seen while modelling, without a run of their own:

* `threadpool.cpp:37` says `stop()` resets the state for reuse; a recorded exception
  survives it and is thrown by the first `wait()` of the next life.
* `llm_model.cpp:717` says the buffer is left at the prefill stride by the previous call;
  after an exception in the decode loop it is not. `LLMModel` marks such a cache.
* `llm_model.h:150` says the history and `n_past_` always agree; loading a file that ends
  early leaves them out of step (`llm_model.cpp:993`). `LLMModel` marks this, too.
* `types.h:56` says zero workers mean serial decode; with the default clock keeper a pool
  without workers is created (`llm_model.cpp:364`) and the first barrier never ends.
* `cb_llm_model.h:220` picks the smallest context length that fits; when none fits, the
  step runs in the largest one anyway (line 226).
* `llm_model.cpp:811`: the promotion before the final restride is a no-op at the largest
  variant, so beyond its prefill capacity the restride truncates the history (same
  cause as `prefill_capacity`).
* `llm_model.cpp:768` lets the context reach the largest context length, but decode rows
  hold `seq_len_decode` tokens less: the last permitted write is past its row.
* After an exception in the decode loop the clock keeper keeps spinning until the end of
  the next call (`threadpool.h:25` describes it as bounded by the decode window).
* `threadpool.h:38` says `stop()` does not drain; the worker loop does drain the queue
  before it exits.
* `CBLLMModel::generate` ignores the callback's request to stop.
* The initial pass of `SSDModel` hangs all forecast tokens off the first token, so the deeper
  levels of the first tree are drafted without the chain between.
* `SSDModel` tests the capacity against the context length (`ssd_model.cpp:627`), the rows
  hold `seq_len_decode` tokens less; the initial pass and the prefill have no test, and
  the restore at the end cuts what the prefill rows cannot hold.
* `SSDModel` may emit more than `max_tokens`: the test is made between passes, which emit
  several tokens (line 675). A stop in the middle of a branch leaves the rest of the branch
  in the cache. `token_history_` stays empty, and `n_past_` counts the forecast prefix also
  when loading it failed (line 81).
* `llm_pipeline.cpp:199` infers the reason from counts: an `SSDModel` that leaves its loop
  for lack of room is reported as "eos".
* A failed second `create()` leaves `isReady()` true while the model is gone; `generate`
  tests both, auto_llm's `isReady` all three parts.
* The sampler hears rejected prompts, and at the length limit one sample that is never
  fed; a changed configuration starts a sampler that has not heard the earlier turns, and
  a load keeps the one of the old conversation.
* With a sliding window and `n_keep` 0 an eviction drops BOS, and it is not put back.
* `vlm_input_provider.h:51` says staged rows are anchored to their KV positions; an eviction
  in the middle of a turn re-prefills tokens below the anchor, for which no row is staged
  (`vlm_input_provider.cpp:115`, `:257`; only DeepStack guards, at `:307`).
* `DeepstackInputProvider::clear` empties the levels, so the loop that zeroes the slots
  after an image (`:333`) runs over none; the mask is still written.

## What is proved

Proofs are checked by TLAPS for every value of the constants, under the `ASSUME`s of the
modules that declare them (finite sets of threads and jobs; at least one context length,
in ascending order; `0 < seq_len_decode <= seq_len_prefill <` the first context length;
a tree with at least one level and fewer branches than tokens; non-empty prompts; the
markers `None` and `Junk` are no tokens; the vision-start and pad tokens are distinct and
are neither text nor sampled). Four further conditions appear in the statements
themselves: `FilesWhole`, `Faults = {}` (of one theorem), `PlainMessages` and
`PromptsEndInText`, explained below. Beside them stand the history variables a property itself
excludes (`damage`, `overflow`, an eviction).

* **`ThreadPoolProofs`** (`PoolTypeCorrect`, `PoolCounts`, `PoolLosesNoWakeup`,
  `PoolImplementsBarrier`). The inductive invariant `WakeInv` adds to the properties that
  `terminate_` is up exactly between two points of `stop()`, and that a worker exits only when nothing is queued
  and nobody can enqueue any more. Without the last, a worker that exited could have been
  the one that a queued job's notification went to. The refinement also needs that no job is in the system
  twice, because `JobBarrier` counts jobs as a set.
* **`ReshapeKVProofs`** (`ReshapeTypeCorrect`, `ReshapePreservesTokens`,
  `ReshapeComputesRestride`). The loop invariant says, for the direction at hand, which
  rows are already at the new stride and that the rows not yet moved are untouched. Expanding
  from the last row down, everything below the row at hand is still original because
  `r * new >= r * old`; contracting from the first row up, everything above it, because
  `(r + 1) * new <= (r + 1) * old`.
* **`LLMModelProofs`**.
  * *Counts* (`ContextHistoryMatches`, `ContextBounded`, `ContextAnchorKept`).
    `n_past <= MaxCL` alone is not inductive: chunks are added long after the test in
    `generate()`. `ContextInv` carries the tested room along: while a chunk is under way
    `n_past + Len(todo) <= MaxCL`, and between the barrier and the end of a decode step
    `n_past + 1 <= MaxCL`. An eviction re-establishes the first because
    `computeSlideDiscard` never discards more than lies above the anchor.
  * *Types* (`ModelTypeCorrect`): with the strides of every variant and the addresses of
    every write-back.
  * *Contents* (`CacheMatchesHistory`, `SamplesFollowHistory`). `CacheSound` says, for each
    place of `generate()`, what each shard's buffer holds at the stride of that place: before
    and behind the shard under way during a chunk (`PrefillSound`); in the decode loop
    everything but the cells that a write-back job still in flight owes, and that job's
    source is the graph output of its own step (`DecodeSound`); jobs are in flight only
    there (`QuietInv`). These two hold with failing disks as well: whatever a short file
    leaves behind is marked as damage.
  * *Refinement* (`ModelImplementsWindow`). The window's text is `token_history` followed by
    what an eviction still has to prefill again, so that the chunks of the replay are
    stutters and the eviction is one step of `TokenWindow`.
  * *Room* (`SafeBelowCapacity`, `IntactCacheIsSafe`). `CapacityInv` says that the active
    variant has room for what the step at hand demands, in the layout of that place (prefill
    between calls and while a prompt is fed, decode in the loop), unless there is no larger
    variant; that a write-back in flight is for a row within that; and the same of a saved
    file. So a chunk, a decode step or a restride that still overruns or cuts is one on the
    largest variant, with a context longer than its prefill layout. `Finish` is where this
    is not obvious: it promotes for the prefill layout while the cache is in the decode one.
    With failures it holds of contexts that are `Intact`: an exception in a decode step
    leaves a decode layout behind that the next call takes for a prefill one, and a short
    file a variant that does not go with its contents. Where nothing fails every
    context is intact, and the theorem is the property the runs check.

  `FilesWhole` excludes saves that fail part-way: loading such a file breaks
  `HistoryMatches` (see above), and with it everything that counts on it. Graph and
  callback failures are included everywhere.
* **`PipelineProofs`** (`ConversationTypeCorrect`, `ConversationImplementsWindow`,
  `ReasonsAreTrue`, `BosKeptAtFront`, `ContextIsTheTranscript`, `SamplerHearsTheConversation`).
  The reason needs `StopInv`, which relates the counts it is inferred from to what really
  ended the loop. For BOS the prompt that waits is followed from `generate()` on
  (`PromptInv`): it begins with BOS only if nothing is before it. `PlainMessages` asks that
  no user types BOS; one who does gets it wherever they put it. The transcript needs the reply
  so far at each point of the loop (`TranscriptInv`): one token is out of the sampler
  and not yet in the context between the sample and the feed. What the sampler has heard is
  shown with explicit embeddings of one sequence in another (`Embeds`), because it hears
  rejected prompts beside what enters the context.
* **`SSDModelProofs`** (`SSDTypeCorrect`, `WalkFindsLongestBranch`, `TreesContinueTheOutput`,
  `CacheHoldsTheAcceptedText`, `ChoicesFollowTheCachedText`, `DraftsComeFromForecasts`), for
  every tree, with no further conditions.
  * First the tree itself, as lemmas: breadth-first numbering puts a node before its
    children and a level before the next, a node's branch is its parent's and itself, and the
    forecast rows of a node are a chain that begins at it. That a child comes after its
    parent, and a level's nodes in the order of their parents, is what lets one pass of
    `verifyDraftTree` find the longest branch: `Path` says that no node the walk has passed
    extends the accepted branch, which survives the acceptance of a further node because that
    node's children are all still to come.
  * `RowsSound` says what the graph computed for each row of the tree, from the mask and
    `CacheSound`; `Agreed` that the accepted nodes drafted exactly the tokens accepted; from
    both, the row of the last accepted node was computed from the accepted text and nothing
    else. `selectiveKVUpdate` then extends `CacheSound` by the accepted rows in
    order, because every one of them holds the entry of its own branch.
  * `ChoicesFollowTheCachedText` is about the cached text, which has the first token twice
    (`ssd_root`). It says that drafts and masks have no part in a choice, not that the reply
    is that of serial decoding.
  * `TreesContinueTheOutput` follows the cached and the emitted text side by side (`Continued`).
    A commit has cached all accepted tokens before it emits them one by one until EOS, a stop or
    the last. EOS is only ever the last (`EndsLast`), so unless the callback cuts it
    short, what is emitted is all of them but an EOS.
* **`VLMModelProofs`** (`EncodersKeepPlaces`, `VLMTypeCorrect`, `PromptsAreFedAsMeant`,
  `PositionsAreRight`).
  * *The encoder*, for every frame, merge and window size. `computeWindowIndex` visits the
    cells of a padded frame in an order that is a lexicographic order of digits, so the place of
    a group in the index is its `Rank`, the number of real cells visited before it. From that:
    the index is a permutation, `argsort` of it is the rank, and the rotation rows and patches
    that travel with it stay with their group. The cumulated lengths of the windows count the same
    cells, also those of windows that ragged edges leave empty or that repeat a boundary
    (`MaskIsWindow`), so a group sees its own window and nothing else.
  * *The prompt* (`PromptAligned`): in the expanded prompt the n-th pad token means the n-th
    feature that `encodeVision` returns. This is kept by concatenation (`AlignedConcat`), which
    carries it over any sequence of texts and images, and it is what `maskedScatter` and the
    counting of consumed features by `DeepstackInputProvider` rely on.
  * *The turn* (`VLMInv`): `FedAsPrompted` is not inductive, because a chunk is fed from rows that
    were staged earlier. Until an eviction, what is staged belongs to the prompt of this turn and
    what is still to be fed is the prompt from `n_past` minus the anchor on (`InStep`); after
    an abandoned turn its rows are still there, and the next `generate` replaces them all.
  * *The positions* (`PositionsInv`), for any number of images and turns and any frame, until one
    of the four `Harms`; the run `vlm_offsets` shows that the exclusion is
    needed. The pad
    tokens of a prompt follow their vision-start tokens, in order and nowhere else (`Formed`),
    so `computeMRoPEPositions` never leaves a box half filled: at each of its steps the counter is
    at the front, the first position past all before it, or waits past the box while the
    pad tokens move the front up to it, by at most one each (`Scanned`). `Placed` says of a
    sequence of tokens that each stands at its front or in its box; it is kept when a part of
    another such sequence, moved on by a constant, is put behind (`PlacedGrow`), which is
    what staging and slicing do, chunk by chunk (`UnderWay`), and by a counted decode position
    (`SettledNext`). The two meet because the front of a whole context is `n_past +
    mrope_deltas_` (`Settled`). That needs `PromptsEndInText`: the deltas go by the last
    temporal position (`DeltaIsLead`), and an image at the very end of a prompt would leave it
    short of its box. Chat templates close the user's message and open the assistant's behind the
    last image. An abandoned prompt whose delta is 0, such as one
    of text alone, does no harm (`UnderWayInStep`): a front that moves by at most one a token and
    ends level with the count was level all along.
* **`CBLLMModelProofs`** (`FedNextTokens`, `CBTypeCorrect`, `SegmentsHoldSessions`,
  `SampledFromItself`), for any number of sessions, shards, rows and context lengths. The
  invariant `CBInv` speaks of every point of `generateBatch`:
  * *Order* (`SessionsInOrder`, `BatchInOrder`), on which `FedInOrder` rests alone: between
    steps an active session has processed part of its prompt, or everything but the token it
    sampled last (`Ready`); those of a batch that are still to be sampled have processed everything
    (`Stepped`). The sessions of a batch occupy disjoint rows of the input.
  * *Segments* (`SegmentsInOrder`): a session that has begun has one segment, as long as what it
    has processed, and the segments lie one behind the other without a hole (`Laid`). While a
    step is under way each is as wide as it will be when its tokens are added. This is what
    `shiftForGrowth` and `compact` must establish, and neither is correct without it. `Laid` also
    implies that every segment in place has entries, which `compact` needs: it leaves an
    empty segment where it is.
  * *Moves* (`MovesInOrder`): a move that is still to be made takes some segment to its start, and
    no move writes where a later one reads. From right to left that holds for the
    growing shift, because segments only go right and never past the next; from left to right
    for `compact`.
  * *Contents* (`Contents`): the entries of each session are at its segment's start, or where
    the move that brings them there will read them (`Held`). Making one move keeps it
    (`MoveHeld`), so does restriding to a larger cache (`PrepareContents` makes the promotion and
    the shift in the order of the code). During a step the shards that have run have the new
    entries too, written to slots that belong to no other segment, and an input row holds the
    hidden state of its own session's context: the columns its mask opens are exactly its own
    segment and its own rows before it (`SeesOwn`).

  Everything about contents is under `~overflow`: sessions that together outgrow the largest cache
  are not refused by the code, and what they then read is outside any claim (see the hazards).
* **`SharedFacts`**: lemmas on slices, concatenations and flattenings, on finite sets and
  counting, on cells of strided buffers, on `computeSlideDiscard`, and the principles of
  induction and recursion below.

*Induction over data.* The library's induction theorems take an operator as a parameter,
which the provers cannot instantiate. `SharedFacts` therefore derives induction over the
numbers and definition by recursion in first-order form, from the well-foundedness of `<`
over `Nat` (`Induction`, `StrongInduction`, `Recursion`, `FlatteningsExist`), and
`SSDModelProofs` descent along a tree (`Descent`). What a recursive function of
the model computes for every input (`Grown`, `Branch`, `FlattenSeq`, the rendering of a
chat) is proved with these.

### Only model-checked

Every invariant and every action property of the passing runs is a theorem. Liveness
properties are not: fairness and `ENABLED` are outside what the prover handles. Conversely,
decoding without a pool (no workers and no clock keeper), where each write-back is made on the
spot, is not in the instances of `LLMModel`; the theorems hold for any number of workers and
clock keepers.

## Not modelled

* Element types, quantisation and the numbers in masks, rotation tables and logits: floating
  point is out of TLC's reach, and which positions and columns they stand for is modelled.
* Start-up (`LLMModel::onInitialized`, `inferSpecFromGraphs`, `buildConnections`): a pure
  function of the names and shapes in the loaded files. It sorts the graphs by phase, shard
  and context length and finds them by index, which is right for a complete bundle with two
  sequence lengths; nothing tests that a bundle is complete. The spec loader, metadata
  parsing, runtime paths and logging are input and output.
* `qnn-api`, `json.hpp`, `fmt` and the HTP headers: the SDK wrapper and vendored code, which
  are most of the repository's lines. `execute` appears as a step that may fail.
* The geniex-proc tokenizer, image processor and sampler, which are outside the repository:
  tokens are arbitrary, rendering of a chat is `Render`, expansion of images is `Expand`.
* CPU affinity, timing, terminal output, argument parsing.
* Empty prompts: one makes `last_chunk_size - 1` underflow (`llm_model.cpp:736`), and what is
  read then lies outside any buffer. No program of the repository submits one.
* Exceptions of the tokenizer and of the vision encoder (it runs before anything is staged,
  so one leaves the model as it was); audio segments, which no model passes; prompts that end in an
  image; Qwen3-VL's own inferSpecFromGraphs and the interpolation of position embeddings.

## Plan

1. Start-up as a module of its own: the order of the graphs and their wiring, for complete
   and incomplete bundles.
2. The attention mask of `llm_utils.cpp` against a reference definition.
