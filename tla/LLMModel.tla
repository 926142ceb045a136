------------------------------ MODULE LLMModel ------------------------------
(***************************************************************************)
(* geniex::LLMModel (core/src/llm/llm_model.cpp): the context of one       *)
(* conversation (token_history_, n_past_), the KV cache that mirrors it in *)
(* the graphs' shared input buffers, and generate() with everything it     *)
(* does to them: chunked prefill, promotion to a larger context-length     *)
(* variant, restriding between the prefill and the decode layout, KV       *)
(* write-back by pool jobs that overlap the next shard, sliding-window     *)
(* eviction, resetKVCache, saveKVCacheToFile and loadKVCacheFromFile.      *)
(*                                                                         *)
(* The network is abstract.  What a shard computes for a token depends on  *)
(* the KV entries it attends to; an entry is therefore modelled by the     *)
(* very context it was computed from, and is Junk when that context was    *)
(* not intact.  Which token the network then prefers is arbitrary.         *)
(***************************************************************************)
EXTENDS KVBuffer, SlidingWindow, Sequences, FiniteSets

CONSTANTS
    Token, Eos,       \* token ids; spec_.eos_token_ids
    ContextLengths,   \* spec_.context_lengths, ascending
    SeqLenPrefill,    \* spec_.seq_len_prefill
    SeqLenDecode,     \* spec_.seq_len_decode
    NumShards,        \* shard_count_
    KVShards,         \* the shards that have KV pairs
    LmHeadOnly,       \* the shards with lm_head_only set
    Rows,             \* rows of a KV tensor
    DecodeWorkers,    \* n_decode_workers
    ClockKeepers,     \* clock_keeper_threads_
    Prompts,          \* the prompts callers pass to generate()
    MaxTokens,        \* the values of gen_cfg.max_tokens
    NKeeps,           \* the values of gen_cfg.sliding_window_n_keep
    Sliding,          \* the values of gen_cfg.sliding_window
    Faults,           \* which external calls may fail: "execute", "callback", "disk"
    Persistence,      \* whether callers save and load the cache
    Zero, Junk, None

NumCL == Len(ContextLengths)
Shard == 1 .. NumShards
MaxCL == ContextLengths[NumCL]
PrefillKV(cl) == ContextLengths[cl] - SeqLenPrefill
DecodeKV(cl) == ContextLengths[cl] - SeqLenDecode
Addr == 0 .. Rows * DecodeKV(NumCL) - 1
Row == 0 .. Rows - 1
Cell == {Zero, Junk} \cup (Row \X Seq(Token))

\* The file holds the members and the KV inputs of the prefill graphs, hence the
\* part of the buffer the largest of them covers.
SavedAddr == 0 .. Rows * PrefillKV(NumCL) - 1
AllParts == {"members", "history", "kv"}
Damages == {"truncated", "overrun", "inflight", "abandoned", "badload"}
SavedFile ==
    [parts : SUBSET AllParts, n_past : Nat, active_cl : 1 .. NumCL, history : Seq(Token),
     kv : [KVShards -> [SavedAddr -> Cell]], damage : SUBSET Damages]

ASSUME ModelAssumption ==
    /\ Eos \subseteq Token
    /\ ContextLengths \in Seq(Nat) /\ ContextLengths # <<>>
    /\ \A c \in 1 .. Len(ContextLengths) - 1 : ContextLengths[c] < ContextLengths[c + 1]
    /\ SeqLenDecode \in Nat \ {0} /\ SeqLenPrefill \in Nat
    /\ SeqLenDecode <= SeqLenPrefill /\ SeqLenPrefill < ContextLengths[1]
    /\ NumShards \in Nat \ {0} /\ Rows \in Nat \ {0}
    /\ KVShards \subseteq 1 .. NumShards
    /\ LmHeadOnly \subseteq (1 .. NumShards) \ KVShards
    /\ DecodeWorkers \in Nat /\ ClockKeepers \in Nat
    /\ Prompts \subseteq Seq(Token) \ {<<>>}
    /\ MaxTokens \subseteq Int /\ NKeeps \subseteq Int /\ Sliding \subseteq BOOLEAN
    /\ Faults \subseteq {"execute", "callback", "disk"}
    /\ Persistence \in BOOLEAN
    /\ None \notin Token \cup Seq(Token) \cup SavedFile /\ Junk \notin Seq(Token)

VARIABLES
    n_past, active_cl, token_history,    \* members
    kv,        \* kv[s]: the KV input buffer all variants of shard s share
    out,       \* out[s]: the KV output of shard s's decode graph
    jobs,      \* write-back jobs enqueued and not finished
    keeper,    \* the clock keeper spins
    pc,        \* where generate() is
    req,       \* the arguments of generate()
    todo,      \* tokens prefillChunks still has to process
    goal,      \* whom prefillChunks works for
    shard,     \* the loop variable of the shard loops
    act,       \* the hidden state handed to the next shard, as its context
    logits,    \* the context behind the logits of the last shard
    next_token, step,
    file,      \* the saved KV-cache file
    damage     \* what has befallen the KV cache (history variable)

model  == <<n_past, active_cl, token_history>>
locals == <<req, next_token, step>>
chunkv == <<todo, goal, shard, act>>
vars == <<n_past, active_cl, token_history, kv, out, jobs, keeper, pc, req, todo,
          goal, shard, act, logits, next_token, step, file, damage>>

\* decode_pool_ exists when there are workers or spinners to run.
HasPool == DecodeWorkers > 0 \/ ClockKeepers > 0

Request == [prompt : Prompts, max_tokens : MaxTokens, sliding : Sliding, n_keep : NKeeps]

\* The KV entry of row r for the last token of context c, or Junk.
Entry(r, c) == IF c = Junk THEN Junk ELSE <<r, c>>
Prefix(c, n) == SubSeq(c, 1, n)

\* With n_past tokens behind it, shard s reads context c from its cache: every
\* row holds, at the stride the graph uses, the entries of c's first tokens, and
\* the mask (min(n_past, kv_len)) lets it see them all.
CacheHolds(s, stride, c) ==
    /\ n_past <= stride
    /\ \A r \in Row, i \in 0 .. n_past - 1 :
          kv[s][r * stride + i] = Entry(r, Prefix(c, i + 1))

\* The hidden state shard s hands on: intact if what came in was and, for a shard
\* with a cache, if the cache holds the rest of the context.
ShardOut(s, stride) ==
    IF \/ s \notin KVShards
       \/ act # Junk /\ Len(act) >= n_past /\ CacheHolds(s, stride, Prefix(act, n_past))
      THEN act ELSE Junk

\* updateKV(s, phase, off, n): the n entries computed for context c, written at off.
UpdateKV(s, stride, off, n, c) ==
    IF s \notin KVShards THEN kv
    ELSE [kv EXCEPT ![s] =
            CopyTokens(@, Rows, stride, off, n,
              [p \in Row \X (0 .. n - 1) |->
                 IF c = Junk THEN Junk ELSE Entry(p[1], Prefix(c, Len(c) - n + p[2] + 1))])]

\* reshapeKV on every shard.
RestrideAll(k, old, new, n_valid) ==
    [s \in KVShards |-> Restride(k[s], Rows, old, new, n_valid, Zero)]

Loses(old, new, n_valid) == IF old # new /\ CopyLen(old, new, n_valid) < n_valid
                              THEN {"truncated"} ELSE {}
Overruns(stride, off, n) == IF FitsRow(stride, off, n) THEN {} ELSE {"overrun"}

\* promoteCL(required, reserved, _): the variant it settles on.
PromotedCL(required, reserved) ==
    CHOOSE c \in active_cl .. NumCL :
        /\ c = NumCL \/ ContextLengths[c] - reserved >= required
        /\ \A d \in active_cl .. c - 1 : ContextLengths[d] - reserved < required

\* Mutant: the variant is switched without restriding the buffers.
PromotedKVNoReshape(required, reserved, stride_reserved) == kv

\* The KV buffers after promoteCL(required, reserved, stride_reserved).
PromotedKV(required, reserved, stride_reserved) ==
    LET cl == PromotedCL(required, reserved)
    IN  IF cl = active_cl THEN kv
        ELSE RestrideAll(kv, ContextLengths[active_cl] - stride_reserved,
                         ContextLengths[cl] - stride_reserved, n_past)

\* What promoteCL cuts off when the context does not fit the old stride.
PromoteLoses(required, reserved, stride_reserved) ==
    LET cl == PromotedCL(required, reserved)
    IN  IF cl = active_cl THEN {}
        ELSE Loses(ContextLengths[active_cl] - stride_reserved,
                   ContextLengths[cl] - stride_reserved, n_past)

Init ==
    /\ n_past = 0 /\ active_cl = 1 /\ token_history = <<>>
    /\ kv = [s \in KVShards |-> [a \in Addr |-> Zero]]
    /\ out = [s \in Shard |-> Junk]
    /\ jobs = {} /\ keeper = FALSE
    /\ pc = "idle" /\ req = None
    /\ todo = <<>> /\ goal = "prompt" /\ shard = 1 /\ act = <<>> /\ logits = <<>>
    /\ next_token = None /\ step = 0
    /\ file = None
    /\ damage = {}

\* generate() returns or throws: its locals die.  The decode outputs matter only
\* to a job still in flight.
Leave ==
    /\ pc' = "idle" /\ req' = None
    /\ todo' = <<>> /\ goal' = "prompt" /\ shard' = 1 /\ act' = <<>> /\ logits' = <<>>
    /\ next_token' = None /\ step' = 0
    /\ out' = IF jobs = {} THEN [s \in Shard |-> Junk] ELSE out
-----------------------------------------------------------------------------
(* generate(): the prompt.                                                 *)

\* Mutant: a negative sliding_window_n_keep is not raised to zero.
EffectiveKeepUnclamped(r) == IF r.sliding THEN Min2(r.n_keep, MaxCL) ELSE 0

\* The n_keep generate() works with.
EffectiveKeep(r) == IF r.sliding THEN Min2(Max2(r.n_keep, 0), MaxCL) ELSE 0

Generate(r) ==
    /\ pc = "idle"
    /\ req' = [r EXCEPT !.n_keep = EffectiveKeep(r)]
    /\ pc' = "fit"
    /\ UNCHANGED <<model, kv, out, jobs, keeper, chunkv, logits, next_token, step, file,
                   damage>>

\* prefillChunks(tokens) is entered on behalf of g.
Prefill(tokens, g) ==
    /\ pc' = "chunk" /\ todo' = tokens /\ goal' = g
    /\ UNCHANGED <<shard, act>>

Discard(n_fit) == ComputeSlideDiscard(n_past, n_fit, MaxCL, req.n_keep)

\* try_slide's conditions.
CanSlide(n_fit) ==
    /\ req.sliding
    /\ Discard(n_fit) > 0
    /\ n_past - Discard(n_fit) + n_fit <= MaxCL

\* slideWindowEvict up to its call of prefillChunks: go to the prefill stride
\* keeping the anchored prefix, forget the rest, and re-prefill the surviving tail.
\* With nothing anchored no cached entry is relied on any more.
EvictTo(at_decode_stride, g, kept, tail) ==
    LET old == DecodeKV(active_cl)
        new == PrefillKV(active_cl)
        cut == IF at_decode_stride THEN Loses(old, new, req.n_keep) ELSE {}
    IN  /\ kv' = IF at_decode_stride THEN RestrideAll(kv, old, new, req.n_keep) ELSE kv
        /\ damage' = IF req.n_keep = 0 THEN damage \cap {"inflight", "badload"}
                     ELSE damage \cup cut
        /\ n_past' = req.n_keep
        /\ token_history' = kept
        /\ Prefill(tail, g)
        /\ UNCHANGED active_cl

SurvivingTail(n_fit, last) == SubSeq(token_history, req.n_keep + Discard(n_fit) + 1, last)

\* Mutant: token_history_ is not cut back before the tail is prefilled again.
EvictNoResize(n_fit, at_decode_stride, g) ==
    EvictTo(at_decode_stride, g, token_history, SurvivingTail(n_fit, n_past))

\* Mutant: the kept prefix is taken from the newest tokens instead of the oldest.
EvictWrongAnchor(n_fit, at_decode_stride, g) ==
    EvictTo(at_decode_stride, g, SubSeq(token_history, n_past - req.n_keep + 1, n_past),
            SurvivingTail(n_fit, n_past))

\* Mutant: the surviving tail misses the newest token.
EvictShortTail(n_fit, at_decode_stride, g) ==
    EvictTo(at_decode_stride, g, Prefix(token_history, req.n_keep), SurvivingTail(n_fit, n_past - 1))

Evict(n_fit, at_decode_stride, g) ==
    EvictTo(at_decode_stride, g, Prefix(token_history, req.n_keep), SurvivingTail(n_fit, n_past))

\* Mutant: the tokens already in the context are forgotten by the size check.
PromptFitsAlone == Len(req.prompt) <= MaxCL

PromptFits == n_past + Len(req.prompt) <= MaxCL

\* The prompt fits, is made to fit, or is rejected.
FitPrompt ==
    /\ pc = "fit"
    /\ \/ /\ PromptFits
          /\ Prefill(req.prompt, "prompt")
          /\ UNCHANGED <<model, kv, out, locals, logits, damage>>
       \/ /\ ~PromptFits /\ CanSlide(Len(req.prompt))
          /\ Evict(Len(req.prompt), FALSE, "evict_prompt")
          /\ UNCHANGED <<out, locals, logits>>
       \/ /\ ~PromptFits /\ ~CanSlide(Len(req.prompt))
          /\ Leave
          /\ UNCHANGED <<model, kv, damage>>
    /\ UNCHANGED <<jobs, keeper, file>>

\* The eviction for the prompt is done; generate() tests again.
PromptEvicted ==
    /\ pc = "chunk" /\ todo = <<>> /\ goal = "evict_prompt"
    /\ IF PromptFits
         THEN Prefill(req.prompt, "prompt") /\ UNCHANGED <<out, locals, logits>>
         ELSE Leave
    /\ UNCHANGED <<model, kv, jobs, keeper, file, damage>>

-----------------------------------------------------------------------------
(* prefillChunks().                                                        *)

Chunk == Prefix(todo, Min2(Len(todo), SeqLenPrefill))

FinalChunk == Len(todo) <= SeqLenPrefill

\* Mutant: promoteCL is asked only for what is there already.
ChunkRequiresPast == n_past

\* The capacity prefillChunks asks promoteCL for.
ChunkRequires == n_past + Len(Chunk)

\* A chunk begins: promoteCL, then the tokens enter the first shard.
BeginChunk ==
    /\ pc = "chunk" /\ todo # <<>>
    /\ active_cl' = PromotedCL(ChunkRequires, SeqLenPrefill)
    /\ kv' = PromotedKV(ChunkRequires, SeqLenPrefill, SeqLenPrefill)
    /\ damage' = damage \cup PromoteLoses(ChunkRequires, SeqLenPrefill, SeqLenPrefill)
    /\ pc' = "shard" /\ shard' = 1
    /\ act' = token_history \o Chunk
    /\ UNCHANGED <<n_past, token_history, out, jobs, keeper, req, todo, goal, logits,
                   next_token, step, file>>

\* One shard runs on the chunk and its KV goes back into its cache; an LM head is
\* skipped unless the chunk is the last.  After the last shard the chunk counts.
PrefillShard ==
    /\ pc = "shard"
    /\ LET skip == ~FinalChunk /\ shard \in LmHeadOnly
           stride == PrefillKV(active_cl)
           o == ShardOut(shard, stride)
           n == Len(Chunk)
       IN  /\ act' = IF skip THEN act ELSE o
           /\ kv' = IF skip THEN kv ELSE UpdateKV(shard, stride, n_past, n, o)
           /\ damage' = damage \cup (IF shard \in KVShards
                                      THEN Overruns(stride, n_past, n) ELSE {})
           /\ IF shard < NumShards
                THEN /\ shard' = shard + 1
                     /\ UNCHANGED <<pc, n_past, token_history, todo, logits>>
                ELSE /\ pc' = "chunk" /\ shard' = 1
                     /\ logits' = IF skip THEN logits ELSE o
                     /\ n_past' = n_past + n
                     /\ token_history' = token_history \o Chunk
                     /\ todo' = SubSeq(todo, n + 1, Len(todo))
    /\ UNCHANGED <<active_cl, out, jobs, keeper, req, goal, next_token, step, file>>

\* execute() fails on the prefill graph: the exception leaves generate().
PrefillFails ==
    /\ pc = "shard" /\ "execute" \in Faults
    /\ Leave
    /\ UNCHANGED <<model, kv, jobs, keeper, file, damage>>

\* The prompt is in: switch to the decode stride, sample the first token, start
\* the clock keeper.
PromptDone ==
    /\ pc = "chunk" /\ todo = <<>> /\ goal = "prompt"
    /\ kv' = RestrideAll(kv, PrefillKV(active_cl), DecodeKV(active_cl), n_past)
    /\ damage' = damage \cup Loses(PrefillKV(active_cl), DecodeKV(active_cl), n_past)
    /\ next_token' \in Token
    /\ step' = 0
    /\ keeper' = (keeper \/ ClockKeepers > 0)
    /\ pc' = "top"
    /\ UNCHANGED <<model, out, jobs, req, chunkv, logits, file>>
-----------------------------------------------------------------------------
(* generate(): the decode loop.                                            *)

\* The loop ends at max_tokens or at an end-of-sequence token; otherwise the
\* token is emitted and the callback asks to go on or to stop.
DecodeTop ==
    /\ pc = "top"
    /\ \/ step < req.max_tokens /\ next_token \notin Eos /\ pc' = "barrier"
       \/ pc' = "drain"
    /\ UNCHANGED <<model, kv, out, jobs, keeper, locals, chunkv, logits, file, damage>>

\* An exception leaves the decode loop: nothing restores the stride, waits for
\* the jobs or stops the clock keeper.
Abandon ==
    /\ Leave
    /\ damage' = damage \cup {"abandoned"} \cup (IF jobs = {} THEN {} ELSE {"inflight"})
    /\ UNCHANGED <<model, kv, jobs, keeper, file>>

CallbackThrows ==
    /\ pc = "top" /\ "callback" \in Faults
    /\ step < req.max_tokens /\ next_token \notin Eos
    /\ Abandon

\* Mutant: nobody waits for the write-backs.
PoolWaitDropped == TRUE

\* decode_pool_->wait() returns once every enqueued job has finished (module
\* JobBarrier, which ThreadPool implements); KV copies do not throw.
PoolWait == jobs = {}

\* decode_pool_->wait(), then room for one more token.
DecodeBarrier ==
    /\ pc = "barrier"
    /\ PoolWait
    /\ \/ /\ n_past + 1 <= MaxCL
          /\ pc' = "promote"
          /\ UNCHANGED <<model, kv, out, locals, chunkv, logits, damage, jobs, keeper, file>>
       \/ /\ n_past + 1 > MaxCL /\ CanSlide(1)
          /\ Evict(1, TRUE, "evict_decode")
          /\ UNCHANGED <<out, locals, logits, jobs, keeper, file>>
       \/ /\ n_past + 1 > MaxCL /\ ~CanSlide(1)
          /\ Abandon

\* The eviction inside the loop is done: back to the decode stride, test again.
DecodeEvicted ==
    /\ pc = "chunk" /\ todo = <<>> /\ goal = "evict_decode"
    /\ kv' = RestrideAll(kv, PrefillKV(active_cl), DecodeKV(active_cl), n_past)
    /\ LET cut == Loses(PrefillKV(active_cl), DecodeKV(active_cl), n_past)
       IN  IF n_past + 1 <= MaxCL
             THEN /\ pc' = "promote" /\ damage' = damage \cup cut
                  /\ UNCHANGED <<out, locals, chunkv, logits>>
             ELSE Leave /\ damage' = damage \cup cut \cup {"abandoned"}
    /\ UNCHANGED <<model, jobs, keeper, file>>

DecodePromote ==
    /\ pc = "promote"
    /\ active_cl' = PromotedCL(n_past + 1, SeqLenDecode)
    /\ kv' = PromotedKV(n_past + 1, SeqLenDecode, SeqLenDecode)
    /\ damage' = damage \cup PromoteLoses(n_past + 1, SeqLenDecode, SeqLenDecode)
    /\ pc' = "decode" /\ shard' = 1
    /\ act' = Append(token_history, next_token)
    /\ UNCHANGED <<n_past, token_history, out, jobs, keeper, locals, todo, goal, logits,
                   file>>

\* One shard runs on the token; its write-back is enqueued, or done on the spot
\* when there is no pool.  After the last shard the token counts and the next one
\* is sampled.
DecodeShard ==
    /\ pc = "decode"
    /\ LET stride == DecodeKV(active_cl)
           o == ShardOut(shard, stride)
       IN  /\ act' = o
           /\ out' = [out EXCEPT ![shard] = o]
           /\ IF HasPool
                THEN /\ jobs' = jobs \cup {[shard |-> shard, off |-> n_past]}
                     /\ UNCHANGED <<kv, damage>>
                ELSE /\ kv' = UpdateKV(shard, stride, n_past, 1, o)
                     /\ damage' = damage \cup (IF shard \in KVShards
                                                THEN Overruns(stride, n_past, 1) ELSE {})
                     /\ UNCHANGED jobs
           /\ IF shard < NumShards
                THEN /\ shard' = shard + 1
                     /\ UNCHANGED <<pc, n_past, token_history, next_token, step, logits>>
                ELSE /\ pc' = "top" /\ shard' = 1
                     /\ logits' = o
                     /\ n_past' = n_past + 1
                     /\ token_history' = Append(token_history, next_token)
                     /\ next_token' \in Token
                     /\ step' = step + 1
    /\ UNCHANGED <<active_cl, keeper, req, todo, goal, file>>

DecodeFails ==
    /\ pc = "decode" /\ "execute" \in Faults
    /\ Abandon

\* Mutant: a finished job is never counted as finished.
RunJobNotCounted(j) ==
    /\ j \in jobs /\ DecodeWorkers > 0
    /\ kv' = UpdateKV(j.shard, DecodeKV(active_cl), j.off, 1, out[j.shard])
    /\ UNCHANGED <<model, out, jobs, keeper, pc, locals, chunkv, logits, file, damage>>

\* A pool worker runs one write-back.  The lambda captured the shard and the
\* offset; the stride and the source are those of the active variant right now.
RunJob(j) ==
    /\ j \in jobs /\ DecodeWorkers > 0
    /\ jobs' = jobs \ {j}
    /\ kv' = UpdateKV(j.shard, DecodeKV(active_cl), j.off, 1, out[j.shard])
    /\ damage' = damage \cup (IF j.shard \in KVShards
                               THEN Overruns(DecodeKV(active_cl), j.off, 1) ELSE {})
    /\ UNCHANGED <<model, out, keeper, pc, locals, chunkv, logits, file>>

\* After the loop: drain the jobs, stop the clock keeper, promote so that the
\* prefill stride can hold the context, restride, return.
Finish ==
    /\ pc = "drain"
    /\ PoolWait
    /\ keeper' = FALSE
    /\ LET cl == PromotedCL(n_past, SeqLenPrefill)
           promoted == PromotedKV(n_past, SeqLenPrefill, SeqLenDecode)
       IN  /\ active_cl' = cl
           /\ kv' = RestrideAll(promoted, DecodeKV(cl), PrefillKV(cl), n_past)
           /\ damage' = damage \cup PromoteLoses(n_past, SeqLenPrefill, SeqLenDecode)
                               \cup Loses(DecodeKV(cl), PrefillKV(cl), n_past)
    /\ Leave
    /\ UNCHANGED <<n_past, token_history, jobs, file>>
-----------------------------------------------------------------------------
(* The other operations of the class.                                      *)

\* Late jobs may still write into the fresh buffers.
ResetKVCache ==
    /\ pc = "idle"
    /\ n_past' = 0 /\ active_cl' = 1 /\ token_history' = <<>>
    /\ kv' = [s \in KVShards |-> [a \in Addr |-> Zero]]
    /\ damage' = IF jobs = {} THEN {} ELSE {"inflight"}
    /\ UNCHANGED <<out, jobs, keeper, pc, locals, chunkv, logits, file>>

\* Mutant: the active variant is not saved.
ImageNoCL(parts) ==
    [parts |-> parts, n_past |-> n_past, active_cl |-> 1, history |-> token_history,
     kv |-> [s \in KVShards |-> [a \in SavedAddr |-> kv[s][a]]], damage |-> damage]

Image(parts) ==
    [parts |-> parts, n_past |-> n_past, active_cl |-> active_cl,
     history |-> token_history,
     kv |-> [s \in KVShards |-> [a \in SavedAddr |-> kv[s][a]]], damage |-> damage]

\* A write error leaves a file that ends after one of its parts.
SaveKVCacheToFile ==
    /\ pc = "idle" /\ Persistence
    /\ \/ file' = Image(AllParts)
       \/ /\ "disk" \in Faults
          /\ \E parts \in {{}, {"members"}, {"members", "history"}} : file' = Image(parts)
    /\ UNCHANGED <<model, kv, out, jobs, keeper, pc, locals, chunkv, logits, damage>>

\* Members are assigned while reading; what a short file does not provide is left
\* (n_past_, active_cl_idx_), emptied (token_history_) or zero bytes (the cache).
\* The error is thrown only at the end.
LoadKVCacheFromFile ==
    /\ pc = "idle" /\ Persistence /\ file # None
    /\ LET has(part) == part \in file.parts
       IN  /\ n_past' = IF has("members") THEN file.n_past ELSE n_past
           /\ active_cl' = IF has("members") THEN file.active_cl ELSE active_cl
           /\ token_history' = IF has("history") THEN file.history ELSE <<>>
           /\ kv' = [s \in KVShards |-> [a \in Addr |->
                       IF a \notin SavedAddr THEN kv[s][a]
                       ELSE IF has("kv") THEN file.kv[s][a] ELSE Junk]]
           /\ damage' = (IF file.parts = AllParts THEN file.damage ELSE {"badload"})
                           \cup (IF jobs = {} THEN {} ELSE {"inflight"})
    /\ UNCHANGED <<out, jobs, keeper, pc, locals, chunkv, logits, file>>
-----------------------------------------------------------------------------
GenerateStep ==
    \/ FitPrompt \/ PromptEvicted \/ BeginChunk \/ PrefillShard \/ PrefillFails
    \/ PromptDone \/ DecodeTop \/ CallbackThrows \/ DecodeBarrier \/ DecodeEvicted
    \/ DecodePromote \/ DecodeShard \/ DecodeFails \/ Finish

Next ==
    \/ \E r \in Request : Generate(r)
    \/ GenerateStep
    \/ \E j \in jobs : RunJob(j)
    \/ ResetKVCache
    \/ SaveKVCacheToFile
    \/ LoadKVCacheFromFile

Spec == Init /\ [][Next]_vars

\* The calling thread keeps running once inside generate(), and a pool that has
\* workers runs its jobs (a fair worker of ThreadPool).
FairSpec ==
    /\ Spec
    /\ WF_vars(GenerateStep)
    /\ WF_vars(\E j \in jobs : RunJob(j))
-----------------------------------------------------------------------------
(* Properties.                                                             *)

Context == {Junk} \cup Seq(Token)
PC == {"idle", "fit", "chunk", "shard", "top", "barrier", "promote", "decode", "drain"}

\* The members and locals of LLMModel keep their types; a request is being served
\* exactly when generate() is active.
TypeOK ==
    /\ n_past \in Nat /\ active_cl \in 1 .. NumCL /\ token_history \in Seq(Token)
    /\ kv \in [KVShards -> [Addr -> Cell]]
    /\ out \in [Shard -> Context]
    /\ jobs \in SUBSET [shard : Shard, off : Nat]
    /\ keeper \in BOOLEAN
    /\ pc \in PC
    /\ IF pc = "idle" THEN req = None
       ELSE req \in [prompt : Prompts, max_tokens : MaxTokens, sliding : Sliding, n_keep : 0 .. MaxCL]
    /\ todo \in Seq(Token) /\ goal \in {"prompt", "evict_prompt", "evict_decode"}
    /\ shard \in Shard /\ act \in Context /\ logits \in Context
    /\ next_token \in Token \cup {None} /\ step \in Nat
    /\ file \in SavedFile \cup {None} /\ damage \subseteq Damages

\* llm_model.h: "token_history_.size() == n_past_ always".
HistoryMatches == Len(token_history) = n_past

\* The checks in generate() keep the context within the largest context length,
\* through eviction, re-prefill, abandoned calls, resets and loads.
WithinContext == n_past <= MaxCL

\* Between calls every row of every shard's cache holds, at the stride the next
\* call will read it with, exactly the entries of the recorded history: promotion,
\* the two restrides, late write-backs and eviction cancel out.
KVMatchesHistory ==
    (pc = "idle" /\ damage = {}) =>
        \A s \in KVShards : CacheHolds(s, PrefillKV(active_cl), token_history)

\* Every sampled token was computed from exactly the recorded history: no shard
\* read its cache before the previous step's write-back, at a wrong stride, or
\* with an entry of a token that has been evicted.
SampledFromHistory == (pc = "top" /\ damage = {}) => logits = token_history

\* How much context the step at hand asks the cache to hold.
Demand == n_past + (IF pc = "shard" THEN Len(Chunk) ELSE IF pc = "decode" THEN 1 ELSE 0)

\* generate() overruns a row or truncates the cache only on a context longer than
\* the prefill capacity of the largest variant; below it, no sequence of calls does.
SafeBelowPrefillCapacity ==
    [][ (pc # "idle" /\ (damage' \ damage) \cap {"overrun", "truncated"} # {})
          => Demand > PrefillKV(NumCL) ]_vars

\* generate() never changes the first n_keep tokens of the history it found, the
\* anchored prefix of the sliding window.
AnchorKept ==
    [][ (pc # "idle" /\ req.sliding) =>
          LET k == Min2(req.n_keep, n_past)
          IN  /\ Len(token_history') >= k
              /\ Prefix(token_history', k) = Prefix(token_history, k) ]_vars

\* With its re-prefill hidden (the tail still to be re-prefilled counts as part of
\* the window), the model implements a plain bounded token window.
Window == INSTANCE TokenWindow
            WITH Capacity <- MaxCL,
                 window <- token_history \o
                             (IF goal = "prompt" THEN <<>> ELSE todo),
                 saved <- IF file = None THEN None ELSE file.history
ImplementsWindow == Window!WSpec

\* Every call of generate() ends.
GenerateReturns == pc # "idle" ~> pc = "idle"

(* A statement of a comment of the code.                                   *)

\* prefillChunks: "Ensure the prefill KV buffer (CL - seq_len_prefill) can hold
\* n_past + chunk_size after this chunk."
PrefillBufferHolds == pc = "shard" => FitsRow(PrefillKV(active_cl), n_past, Len(Chunk))
=============================================================================
