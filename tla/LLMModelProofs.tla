--------------------------- MODULE LLMModelProofs ---------------------------
(***************************************************************************)
(* For any context lengths, shards, prompts, requests, failures of graphs  *)
(* and callbacks, and any number of calls: the cache holds what the        *)
(* history says and every token is sampled from that history (whatever     *)
(* files are loaded), and, as long as cache files are written whole, the   *)
(* members keep their types, token_history_ is as long as n_past_, the     *)
(* context never outgrows the largest context length, the sliding window   *)
(* never touches its anchored prefix, and the whole is a token window. No  *)
(* row is overrun while the context fits the largest prefill layout.       *)
(***************************************************************************)
EXTENDS LLMModel, SharedFacts

\* Saved files are complete.
FilesWhole == "disk" \notin Faults

\* The request as generate() uses it, while a call is active.
ActiveRequest ==
    [prompt : Prompts, max_tokens : MaxTokens, sliding : Sliding, n_keep : 0 .. MaxCL]

\* The token the decode loop holds; an eviction for the loop happens inside it.
InLoop ==
    \/ pc \in {"top", "barrier", "promote", "decode"}
    \/ pc \in {"chunk", "shard"} /\ goal = "evict_decode"

ContextTypes ==
    /\ n_past \in Nat /\ token_history \in Seq(Token) /\ todo \in Seq(Token)
    /\ pc # "idle" => req \in ActiveRequest
    /\ InLoop => next_token \in Token

\* What was tested before still has room: the tokens being prefilled, and the token
\* of the decode step.
RoomLeft ==
    /\ n_past <= MaxCL
    /\ pc \in {"chunk", "shard"} => n_past + Len(todo) <= MaxCL
    /\ pc \in {"promote", "decode"} => n_past + 1 <= MaxCL

\* The context is well-formed.
ContextInv == ContextTypes /\ HistoryMatches /\ RoomLeft

\* A file that was written whole, of a context that no short file had spoilt.
SoundFile == file # None /\ file.parts = AllParts /\ "badload" \notin file.damage

\* Such a file holds a well-formed context.
FileSound ==
    SoundFile => /\ file.n_past \in Nat /\ file.n_past <= MaxCL
                 /\ file.history \in Seq(Token) /\ Len(file.history) = file.n_past

\* generate() leaves no locals behind.
Resting ==
    pc = "idle" => /\ req = None /\ todo = <<>> /\ goal = "prompt" /\ shard = 1 /\ act = <<>>
                   /\ logits = <<>> /\ next_token = None /\ step = 0

\* The inductive invariant: the context is well-formed until a short file is loaded.
ContextSound == Resting /\ ("badload" \notin damage => ContextInv) /\ FileSound

\* No short file is ever written, hence none is loaded.
NeverShort == "badload" \notin damage /\ (file # None => SoundFile)

ctx == <<n_past, token_history, todo, goal, pc, req, next_token>>
-----------------------------------------------------------------------------
(* Sequences, numbers.                                                     *)

LEMMA MaxCLType == MaxCL \in Nat
  BY ModelAssumption DEF MaxCL, NumCL

\* Appending leaves every prefix alone.
LEMMA PrefixOfConcat ==
    ASSUME NEW S, NEW s \in Seq(S), NEW t \in Seq(S), NEW k \in 0 .. Len(s)
    PROVE  Prefix(s \o t, k) = Prefix(s, k)
  <1>1. /\ s \o t \in Seq(S) /\ Len(s \o t) = Len(s) + Len(t)
        /\ \A i \in 1 .. Len(s) : (s \o t)[i] = s[i]
    BY ConcatProperties
  <1>2. /\ SubSeq(s \o t, 1, k) \in Seq(S) /\ Len(SubSeq(s \o t, 1, k)) = k
        /\ \A i \in 1 .. k : SubSeq(s \o t, 1, k)[i] = (s \o t)[i]
    BY <1>1, Slice
  <1>3. /\ SubSeq(s, 1, k) \in Seq(S) /\ Len(SubSeq(s, 1, k)) = k
        /\ \A i \in 1 .. k : SubSeq(s, 1, k)[i] = s[i]
    BY Slice
  <1>4. \A i \in 1 .. k : SubSeq(s \o t, 1, k)[i] = SubSeq(s, 1, k)[i]
    BY <1>1, <1>2, <1>3
  <1> QED BY <1>2, <1>3, <1>4, SeqEqual DEF Prefix

\* The chunk prefillChunks works on is the beginning of what is left to do.
LEMMA ChunkFacts ==
    ASSUME ContextTypes
    PROVE  /\ Chunk \in Seq(Token) /\ Len(Chunk) \in Nat /\ Len(Chunk) <= Len(todo)
           /\ SubSeq(todo, Len(Chunk) + 1, Len(todo)) \in Seq(Token)
           /\ Len(SubSeq(todo, Len(Chunk) + 1, Len(todo))) = Len(todo) - Len(Chunk)
  <1> DEFINE n == Min2(Len(todo), SeqLenPrefill)
  <1>1. todo \in Seq(Token) /\ Len(todo) \in Nat /\ SeqLenPrefill \in Nat
    BY ModelAssumption DEF ContextTypes
  <1>2. n \in Nat /\ n <= Len(todo)
    BY <1>1 DEF Min2
  <1>3. Chunk \in Seq(Token) /\ Len(Chunk) = n
    <2> HIDE DEF n
    <2>1. SubSeq(todo, 1, n) \in Seq(Token) /\ Len(SubSeq(todo, 1, n)) = n
      BY <1>1, <1>2, Slice
    <2> QED BY <2>1 DEF Chunk, Prefix, n
  <1> HIDE DEF n
  <1>4. /\ SubSeq(todo, n + 1, Len(todo)) \in Seq(Token)
        /\ Len(SubSeq(todo, n + 1, Len(todo))) = Len(todo) - n
    BY <1>1, <1>2, Slice
  <1> QED BY <1>2, <1>3, <1>4

\* What an active request looks like.
LEMMA RequestFacts ==
    ASSUME ContextTypes, pc # "idle"
    PROVE  /\ req.prompt \in Seq(Token) /\ Len(req.prompt) \in Nat
           /\ req.n_keep \in Nat /\ req.n_keep <= MaxCL
  BY ModelAssumption, MaxCLType DEF ContextTypes, ActiveRequest

\* What an eviction leaves and what it re-prefills, once try_slide has agreed to it.
LEMMA EvictFacts ==
    ASSUME ContextInv, pc # "idle", NEW n_fit \in Nat, CanSlide(n_fit)
    PROVE  LET kept == Prefix(token_history, req.n_keep)
               tail == SurvivingTail(n_fit, n_past)
           IN  /\ req.n_keep < n_past
               /\ kept \in Seq(Token) /\ Len(kept) = req.n_keep
               /\ tail \in Seq(Token)
               /\ req.n_keep + Len(tail) <= MaxCL - n_fit
  <1> DEFINE d == Discard(n_fit)
  <1>1. /\ n_past \in Nat /\ token_history \in Seq(Token) /\ Len(token_history) = n_past
        /\ req.n_keep \in Nat /\ MaxCL \in Nat
    BY RequestFacts, MaxCLType DEF ContextInv, ContextTypes, HistoryMatches
  <1>2. req.n_keep < n_past /\ d \in 1 .. n_past - req.n_keep
    BY <1>1, DiscardBounds DEF CanSlide, Discard
  <1>3. n_past - d + n_fit <= MaxCL
    BY DEF CanSlide
  <1> HIDE DEF d
  <1>4. /\ Prefix(token_history, req.n_keep) \in Seq(Token)
        /\ Len(Prefix(token_history, req.n_keep)) = req.n_keep
    BY <1>1, <1>2, Slice DEF Prefix
  <1>5. /\ SubSeq(token_history, req.n_keep + d + 1, n_past) \in Seq(Token)
        /\ Len(SubSeq(token_history, req.n_keep + d + 1, n_past)) = n_past - req.n_keep - d
    <2>1. req.n_keep + d + 1 \in Nat \ {0} /\ n_past <= Len(token_history)
      BY <1>1, <1>2
    <2>2. (IF req.n_keep + d + 1 <= n_past THEN n_past - (req.n_keep + d + 1) + 1 ELSE 0)
            = n_past - req.n_keep - d
      BY <1>1, <1>2
    <2> QED BY <1>1, <2>1, <2>2, Slice
  <1>6. SurvivingTail(n_fit, n_past) = SubSeq(token_history, req.n_keep + d + 1, n_past)
    BY DEF SurvivingTail, d
  <1>7. req.n_keep + Len(SurvivingTail(n_fit, n_past)) <= MaxCL - n_fit
    BY SMTT(40), <1>1, <1>2, <1>3, <1>5, <1>6
  <1> QED BY <1>2, <1>4, <1>5, <1>6, <1>7
-----------------------------------------------------------------------------
(* The invariant holds initially and every action preserves it.            *)

LEMMA InitContextInv == Init => ContextInv
  <1> SUFFICES ASSUME Init PROVE ContextInv  OBVIOUS
  <1>1. <<>> \in Seq(Token) /\ Len(<<>>) = 0
    OBVIOUS
  <1> QED BY <1>1, MaxCLType
        DEF Init, ContextInv, ContextTypes, InLoop, HistoryMatches, RoomLeft

\* An action that leaves these variables alone.
LEMMA UntouchedContext ==
    ASSUME ContextInv, UNCHANGED ctx
    PROVE  ContextInv'
  BY DEF ctx, ContextInv, ContextTypes, InLoop, HistoryMatches, RoomLeft

\* generate() is left with the context as it is.
LEMMA LeaveStep ==
    ASSUME ContextInv, Leave, UNCHANGED <<n_past, token_history>>
    PROVE  ContextInv'
  <1>1. <<>> \in Seq(Token) /\ todo' = <<>> /\ pc' = "idle"
    BY DEF Leave
  <1> QED BY <1>1
        DEF ContextInv, ContextTypes, InLoop, HistoryMatches, RoomLeft

\* prefillChunks is entered with tokens there is room for.
LEMMA PrefillStep ==
    ASSUME ContextInv, pc # "idle", NEW tokens \in Seq(Token), NEW g,
           Prefill(tokens, g), n_past + Len(tokens) <= MaxCL,
           g = "evict_decode" => next_token \in Token,
           UNCHANGED <<n_past, token_history, req, next_token>>
    PROVE  ContextInv'
  <1>1. todo' = tokens /\ pc' = "chunk" /\ goal' = g
    BY DEF Prefill
  <1> QED BY <1>1
        DEF ContextInv, ContextTypes, InLoop, HistoryMatches, RoomLeft

\* An eviction and the entry into its re-prefill.
LEMMA EvictStep ==
    ASSUME ContextInv, pc # "idle", NEW n_fit \in Nat, CanSlide(n_fit),
           NEW at_decode_stride, NEW g, Evict(n_fit, at_decode_stride, g),
           g = "evict_decode" => next_token \in Token,
           UNCHANGED <<req, next_token>>
    PROVE  ContextInv'
  <1> DEFINE kept == Prefix(token_history, req.n_keep)
             tail == SurvivingTail(n_fit, n_past)
  <1>1. /\ n_past' = req.n_keep /\ token_history' = kept
        /\ todo' = tail /\ pc' = "chunk" /\ goal' = g
    BY DEF Evict, EvictTo, Prefill
  <1>2. /\ req.n_keep < n_past /\ kept \in Seq(Token) /\ Len(kept) = req.n_keep
        /\ tail \in Seq(Token) /\ req.n_keep + Len(tail) <= MaxCL - n_fit
    BY EvictFacts
  <1>3. req.n_keep \in Nat /\ MaxCL \in Nat /\ n_past \in Nat /\ n_past <= MaxCL
    BY RequestFacts, MaxCLType DEF ContextInv, ContextTypes, RoomLeft
  <1> HIDE DEF kept, tail
  <1>4. Len(tail) \in Nat
    BY <1>2
  <1>5. ContextTypes'
    BY <1>1, <1>2, <1>3 DEF ContextInv, ContextTypes, InLoop
  <1>6. HistoryMatches' /\ RoomLeft'
    BY <1>1, <1>2, <1>3, <1>4 DEF HistoryMatches, RoomLeft
  <1> QED BY <1>5, <1>6 DEF ContextInv

\* The last shard of a chunk: the chunk moves from what is left to the history.
LEMMA ChunkStep ==
    ASSUME ContextInv, PrefillShard
    PROVE  ContextInv'
  <1> DEFINE rest == SubSeq(todo, Len(Chunk) + 1, Len(todo))
  <1>1. /\ pc = "shard" /\ UNCHANGED <<req, goal, next_token>>
        /\ \/ UNCHANGED <<pc, n_past, token_history, todo>>
           \/ /\ pc' = "chunk" /\ n_past' = n_past + Len(Chunk)
              /\ token_history' = token_history \o Chunk /\ todo' = rest
    BY DEF PrefillShard
  <1>2. CASE UNCHANGED <<pc, n_past, token_history, todo>>
    BY <1>1, <1>2, UntouchedContext DEF ctx
  <1>3. CASE /\ pc' = "chunk" /\ n_past' = n_past + Len(Chunk)
             /\ token_history' = token_history \o Chunk /\ todo' = rest
    <2>1. /\ Chunk \in Seq(Token) /\ Len(Chunk) \in Nat /\ Len(Chunk) <= Len(todo)
          /\ rest \in Seq(Token) /\ Len(rest) = Len(todo) - Len(Chunk)
      BY ChunkFacts DEF ContextInv
    <2> HIDE DEF rest
    <2>2. /\ token_history \in Seq(Token) /\ todo \in Seq(Token) /\ Len(todo) \in Nat
          /\ n_past \in Nat /\ Len(token_history) = n_past /\ MaxCL \in Nat
          /\ n_past + Len(todo) <= MaxCL
      BY <1>1, MaxCLType DEF ContextInv, ContextTypes, HistoryMatches, RoomLeft
    <2>3. /\ token_history \o Chunk \in Seq(Token)
          /\ Len(token_history \o Chunk) = n_past + Len(Chunk)
      BY ZenonT(40), <2>1, <2>2, ConcatProperties
    <2>4. ContextTypes'
      BY <1>1, <1>3, <2>1, <2>2, <2>3 DEF ContextInv, ContextTypes, InLoop
    <2>5. HistoryMatches' /\ RoomLeft'
      BY <1>3, <2>1, <2>2, <2>3 DEF HistoryMatches, RoomLeft
    <2> QED BY <1>1, <2>4, <2>5 DEF ContextInv
  <1> QED BY <1>1, <1>2, <1>3

\* The last shard of a decode step: the token joins the history.
LEMMA DecodeStep ==
    ASSUME ContextInv, DecodeShard
    PROVE  ContextInv'
  <1>1. /\ pc = "decode" /\ UNCHANGED <<req, goal, todo>>
        /\ \/ UNCHANGED <<pc, n_past, token_history, next_token>>
           \/ /\ pc' = "top" /\ n_past' = n_past + 1
              /\ token_history' = Append(token_history, next_token) /\ next_token' \in Token
    BY DEF DecodeShard
  <1>2. CASE UNCHANGED <<pc, n_past, token_history, next_token>>
    BY <1>1, <1>2, UntouchedContext DEF ctx
  <1>3. CASE /\ pc' = "top" /\ n_past' = n_past + 1
             /\ token_history' = Append(token_history, next_token) /\ next_token' \in Token
    <2>1. /\ token_history \in Seq(Token) /\ n_past \in Nat /\ next_token \in Token
          /\ Len(token_history) = n_past /\ MaxCL \in Nat /\ n_past + 1 <= MaxCL
      BY <1>1, MaxCLType DEF ContextInv, ContextTypes, InLoop, HistoryMatches, RoomLeft
    <2>2. /\ Append(token_history, next_token) \in Seq(Token)
          /\ Len(Append(token_history, next_token)) = n_past + 1
      BY <2>1
    <2>3. ContextTypes'
      BY <1>1, <1>3, <2>1, <2>2 DEF ContextInv, ContextTypes, InLoop
    <2>4. HistoryMatches' /\ RoomLeft'
      BY <1>3, <2>1, <2>2 DEF HistoryMatches, RoomLeft
    <2> QED BY <1>1, <2>3, <2>4 DEF ContextInv
  <1> QED BY <1>1, <1>2, <1>3

\* A request is accepted: its n_keep is brought into range.
LEMMA GenerateStepInv ==
    ASSUME ContextInv, NEW r \in Request, Generate(r)
    PROVE  ContextInv'
  <1>0. r.n_keep \in Int
    BY ModelAssumption DEF Request
  <1>1. EffectiveKeep(r) \in 0 .. MaxCL
    BY <1>0, MaxCLType DEF EffectiveKeep, Min2, Max2
  <1>2. [r EXCEPT !.n_keep = EffectiveKeep(r)] \in ActiveRequest
    BY <1>1 DEF Request, ActiveRequest
  <1>3. /\ pc' = "fit" /\ req' \in ActiveRequest
        /\ UNCHANGED <<n_past, token_history, todo, goal, next_token>>
    BY <1>2 DEF Generate, model, chunkv
  <1> QED BY <1>3
        DEF ContextInv, ContextTypes, InLoop, HistoryMatches, RoomLeft

\* The steps of a call of generate().
LEMMA CallStep ==
    ASSUME ContextInv, GenerateStep
    PROVE  ContextInv'
  <1> USE DEF model, locals, chunkv
  <1>0. /\ n_past \in Nat /\ MaxCL \in Nat
        /\ pc # "idle" => req.prompt \in Seq(Token) /\ Len(req.prompt) \in Nat
    BY RequestFacts, MaxCLType DEF ContextInv, ContextTypes
  <1>1. CASE FitPrompt
    <2>0. pc = "fit"
      BY <1>1 DEF FitPrompt
    <2>1. CASE PromptFits /\ Prefill(req.prompt, "prompt") /\ UNCHANGED <<model, locals>>
      BY <1>0, <2>0, <2>1, PrefillStep DEF PromptFits
    <2>2. CASE CanSlide(Len(req.prompt)) /\ Evict(Len(req.prompt), FALSE, "evict_prompt")
               /\ UNCHANGED locals
      <3>1. "evict_prompt" # "evict_decode" /\ pc # "idle" /\ Len(req.prompt) \in Nat
        BY <1>0, <2>0
      <3> QED BY <2>0, <2>2, <3>1, EvictStep
    <2>3. CASE Leave /\ UNCHANGED model
      BY <2>0, <2>3, LeaveStep
    <2> QED BY <1>1, <2>1, <2>2, <2>3 DEF FitPrompt
  <1>2. CASE PromptEvicted
    <2>1. CASE PromptFits
      BY <1>0, <1>2, <2>1, PrefillStep DEF PromptEvicted, PromptFits
    <2>2. CASE ~PromptFits
      BY <1>2, <2>2, LeaveStep DEF PromptEvicted
    <2> QED BY <2>1, <2>2
  <1>3. CASE BeginChunk
    BY <1>3 DEF BeginChunk, ContextInv, ContextTypes, InLoop, HistoryMatches, RoomLeft
  <1>4. CASE PrefillShard
    BY <1>4, ChunkStep
  <1>5. CASE PrefillFails
    BY <1>5, LeaveStep DEF PrefillFails
  <1>6. CASE PromptDone
    BY <1>6 DEF PromptDone, ContextInv, ContextTypes, InLoop, HistoryMatches, RoomLeft
  <1>7. CASE DecodeTop
    BY <1>7 DEF DecodeTop, ContextInv, ContextTypes, InLoop, HistoryMatches, RoomLeft
  <1>8. CASE CallbackThrows
    BY <1>8, LeaveStep DEF CallbackThrows, Abandon
  <1>9. CASE DecodeBarrier
    <2>0. pc = "barrier" /\ next_token \in Token
      BY <1>9 DEF DecodeBarrier, ContextInv, ContextTypes, InLoop
    <2>1. CASE n_past + 1 <= MaxCL /\ pc' = "promote" /\ UNCHANGED <<model, locals, chunkv>>
      BY <2>0, <2>1
        DEF ContextInv, ContextTypes, InLoop, HistoryMatches, RoomLeft
    <2>2. CASE CanSlide(1) /\ Evict(1, TRUE, "evict_decode") /\ UNCHANGED locals
      BY <2>0, <2>2, EvictStep
    <2>3. CASE Abandon
      BY <2>3, LeaveStep DEF Abandon
    <2> QED BY <1>9, <2>1, <2>2, <2>3 DEF DecodeBarrier
  <1>10. CASE DecodeEvicted
    <2>1. CASE n_past + 1 <= MaxCL
      BY <1>10, <2>1
        DEF DecodeEvicted, ContextInv, ContextTypes, InLoop, HistoryMatches, RoomLeft
    <2>2. CASE ~(n_past + 1 <= MaxCL)
      BY <1>10, <2>2, LeaveStep DEF DecodeEvicted
    <2> QED BY <2>1, <2>2
  <1>11. CASE DecodePromote
    BY <1>11
      DEF DecodePromote, ContextInv, ContextTypes, InLoop, HistoryMatches, RoomLeft
  <1>12. CASE DecodeShard
    BY <1>12, DecodeStep
  <1>13. CASE DecodeFails
    BY <1>13, LeaveStep DEF DecodeFails, Abandon
  <1>14. CASE Finish
    BY <1>14, LeaveStep DEF Finish
  <1> QED BY <1>1, <1>2, <1>3, <1>4, <1>5, <1>6, <1>7, <1>8, <1>9, <1>10, <1>11, <1>12, <1>13,
             <1>14 DEF GenerateStep

\* Only a short file spoils the context, and only a reset or another file makes up
\* for it.
LEMMA ShortFileStays ==
    ASSUME [Next]_vars, ~ResetKVCache, ~LoadKVCacheFromFile
    PROVE  "badload" \in damage' <=> "badload" \in damage
  <1> USE DEF Leave, Evict, EvictTo, Abandon, Loses, Overruns, PromoteLoses
  <1>1. CASE FitPrompt \/ PromptEvicted \/ BeginChunk \/ PrefillShard \/ PrefillFails \/ PromptDone
    BY <1>1 DEF FitPrompt, PromptEvicted, BeginChunk, PrefillShard, PrefillFails, PromptDone
  <1>2. CASE DecodeTop \/ CallbackThrows \/ DecodeBarrier \/ DecodeEvicted \/ DecodePromote
    BY <1>2 DEF DecodeTop, CallbackThrows, DecodeBarrier, DecodeEvicted, DecodePromote
  <1>3. CASE DecodeShard \/ DecodeFails \/ Finish
    BY <1>3 DEF DecodeShard, DecodeFails, Finish
  <1>4. ASSUME NEW j \in jobs, RunJob(j) PROVE "badload" \in damage' <=> "badload" \in damage
    BY <1>4 DEF RunJob
  <1>5. CASE SaveKVCacheToFile \/ UNCHANGED vars
    BY <1>5 DEF SaveKVCacheToFile, vars
  <1>6. ASSUME NEW r \in Request, Generate(r) PROVE "badload" \in damage' <=> "badload" \in damage
    BY <1>6 DEF Generate
  <1> QED BY <1>1, <1>2, <1>3, <1>4, <1>5, <1>6 DEF Next, GenerateStep

\* Nobody but SaveKVCacheToFile writes the file.
LEMMA FileStays ==
    ASSUME [Next]_vars, ~SaveKVCacheToFile
    PROVE  file' = file
  <1>1. CASE FitPrompt \/ PromptEvicted \/ BeginChunk \/ PrefillShard \/ PrefillFails \/ PromptDone
    BY <1>1 DEF FitPrompt, PromptEvicted, BeginChunk, PrefillShard, PrefillFails, PromptDone
  <1>2. CASE DecodeTop \/ CallbackThrows \/ DecodeBarrier \/ DecodeEvicted \/ DecodePromote
    BY <1>2 DEF DecodeTop, CallbackThrows, DecodeBarrier, DecodeEvicted, DecodePromote, Abandon
  <1>3. CASE DecodeShard \/ DecodeFails \/ Finish
    BY <1>3 DEF DecodeShard, DecodeFails, Finish, Abandon
  <1>4. ASSUME NEW j \in jobs, RunJob(j) PROVE file' = file
    BY <1>4 DEF RunJob
  <1>5. CASE ResetKVCache \/ LoadKVCacheFromFile \/ UNCHANGED vars
    BY <1>5 DEF ResetKVCache, LoadKVCacheFromFile, vars
  <1>6. ASSUME NEW r \in Request, Generate(r) PROVE file' = file
    BY <1>6 DEF Generate
  <1> QED BY <1>1, <1>2, <1>3, <1>4, <1>5, <1>6 DEF Next, GenerateStep

\* Outside generate() its locals are dead.
LEMMA RestingStep ==
    ASSUME Resting, [Next]_vars
    PROVE  Resting'
  <1> USE DEF Leave, Prefill, Evict, EvictTo, Abandon, Resting
  <1>1. CASE FitPrompt \/ PromptEvicted \/ BeginChunk \/ PrefillShard \/ PrefillFails \/ PromptDone
    BY <1>1 DEF FitPrompt, PromptEvicted, BeginChunk, PrefillShard, PrefillFails, PromptDone
  <1>2. CASE DecodeTop \/ CallbackThrows \/ DecodeBarrier \/ DecodeEvicted \/ DecodePromote
    BY <1>2 DEF DecodeTop, CallbackThrows, DecodeBarrier, DecodeEvicted, DecodePromote, locals, chunkv
  <1>3. CASE DecodeShard \/ DecodeFails \/ Finish
    BY <1>3 DEF DecodeShard, DecodeFails, Finish
  <1>4. ASSUME NEW j \in jobs, RunJob(j) PROVE Resting'
    BY <1>4 DEF RunJob, locals, chunkv
  <1>5. CASE ResetKVCache \/ LoadKVCacheFromFile \/ SaveKVCacheToFile \/ UNCHANGED vars
    BY <1>5 DEF ResetKVCache, LoadKVCacheFromFile, SaveKVCacheToFile, vars, locals, chunkv
  <1>6. ASSUME NEW r \in Request, Generate(r) PROVE Resting'
    BY <1>6 DEF Generate
  <1> QED BY <1>1, <1>2, <1>3, <1>4, <1>5, <1>6 DEF Next, GenerateStep

LEMMA NextContextSound ==
    ASSUME ContextSound, [Next]_vars
    PROVE  ContextSound'
  <1> USE DEF model, locals, chunkv
  <1>0. Resting'
    BY RestingStep DEF ContextSound
  <1>1. CASE ResetKVCache
    <2>1. <<>> \in Seq(Token) /\ Len(<<>>) = 0
      OBVIOUS
    <2>2. /\ pc' = "idle" /\ n_past' = 0 /\ token_history' = <<>> /\ todo' = <<>> /\ file' = file
      BY <1>1 DEF ResetKVCache, ContextSound, Resting
    <2>3. ContextInv'
      BY <2>1, <2>2, MaxCLType DEF ContextInv, ContextTypes, InLoop, HistoryMatches, RoomLeft
    <2> QED BY <1>0, <2>2, <2>3 DEF ContextSound, FileSound, SoundFile
  <1>2. CASE LoadKVCacheFromFile
    <2>0. /\ pc = "idle" /\ pc' = "idle" /\ file' = file /\ todo' = <<>> /\ file # None
      BY <1>2 DEF LoadKVCacheFromFile, ContextSound, Resting
    <2>1. ASSUME "badload" \notin damage' PROVE ContextInv'
      <3>1. SoundFile
        BY <1>2, <2>0, <2>1 DEF LoadKVCacheFromFile, SoundFile
      <3>2. n_past' = file.n_past /\ token_history' = file.history
        BY <1>2, <3>1 DEF LoadKVCacheFromFile, SoundFile, AllParts
      <3>3. /\ file.n_past \in Nat /\ file.n_past <= MaxCL
            /\ file.history \in Seq(Token) /\ Len(file.history) = file.n_past
        BY <3>1 DEF ContextSound, FileSound
      <3>4. <<>> \in Seq(Token)
        OBVIOUS
      <3> QED BY <2>0, <3>2, <3>3, <3>4 DEF ContextInv, ContextTypes, InLoop, HistoryMatches, RoomLeft
    <2> QED BY <1>0, <2>0, <2>1 DEF ContextSound, FileSound, SoundFile
  <1>3. CASE SaveKVCacheToFile
    <2>0. UNCHANGED <<n_past, token_history, todo, goal, pc, req, next_token, damage>>
      BY <1>3 DEF SaveKVCacheToFile
    <2>1. PICK parts : file' = Image(parts)
      BY <1>3 DEF SaveKVCacheToFile
    <2>2. /\ file'.damage = damage /\ file'.n_past = n_past /\ file'.history = token_history
      BY <2>1 DEF Image
    <2>3. FileSound'
      BY <2>2, <2>0 DEF ContextSound, ContextInv, ContextTypes, HistoryMatches, RoomLeft, FileSound, SoundFile
    <2>4. ASSUME ContextInv PROVE ContextInv'
      BY <2>0, <2>4 DEF ContextInv, ContextTypes, InLoop, HistoryMatches, RoomLeft
    <2> QED BY <1>0, <2>0, <2>3, <2>4 DEF ContextSound
  <1>4. CASE ~ResetKVCache /\ ~LoadKVCacheFromFile /\ ~SaveKVCacheToFile
    <2>1. FileSound'
      BY <1>4, FileStays DEF ContextSound, FileSound, SoundFile
    <2>2. SUFFICES ASSUME "badload" \notin damage' PROVE ContextInv'
      BY <1>0, <2>1 DEF ContextSound
    <2>3. ContextInv
      BY <1>4, <2>2, ShortFileStays DEF ContextSound
    <2>4. ASSUME NEW r \in Request, Generate(r) PROVE ContextInv'
      BY <2>3, <2>4, GenerateStepInv
    <2>5. CASE GenerateStep
      BY <2>3, <2>5, CallStep
    <2>6. ASSUME NEW j \in jobs, RunJob(j) PROVE ContextInv'
      BY <2>3, <2>6, UntouchedContext DEF RunJob, ctx
    <2>7. CASE UNCHANGED vars
      BY <2>3, <2>7, UntouchedContext DEF vars, ctx
    <2> QED BY <1>4, <2>4, <2>5, <2>6, <2>7 DEF Next
  <1> QED BY <1>1, <1>2, <1>3, <1>4

LEMMA NextNeverShort ==
    ASSUME FilesWhole, NeverShort, [Next]_vars
    PROVE  NeverShort'
  <1>1. CASE ResetKVCache
    BY <1>1 DEF ResetKVCache, NeverShort, SoundFile
  <1>2. CASE LoadKVCacheFromFile
    BY <1>2 DEF LoadKVCacheFromFile, NeverShort, SoundFile
  <1>3. CASE SaveKVCacheToFile
    <2>1. file' = Image(AllParts) /\ damage' = damage
      BY <1>3 DEF SaveKVCacheToFile, FilesWhole
    <2>2. file'.parts = AllParts /\ file'.damage = damage
      BY <2>1 DEF Image
    <2> QED BY <2>1, <2>2 DEF NeverShort, SoundFile
  <1>4. CASE ~ResetKVCache /\ ~LoadKVCacheFromFile /\ ~SaveKVCacheToFile
    BY <1>4, FileStays, ShortFileStays DEF NeverShort, SoundFile
  <1> QED BY <1>1, <1>2, <1>3, <1>4
-----------------------------------------------------------------------------
(* The anchored prefix.                                                    *)

\* What a step inside generate() makes of the history.
LEMMA HistoryStep ==
    ASSUME ContextInv, Next, pc # "idle"
    PROVE  \/ token_history' = token_history
           \/ token_history' = token_history \o Chunk
           \/ next_token \in Token /\ token_history' = Append(token_history, next_token)
           \/ req.n_keep < n_past /\ token_history' = Prefix(token_history, req.n_keep)
  <1> USE DEF model
  <1>0. Len(req.prompt) \in Nat
    BY RequestFacts DEF ContextInv
  <1>1. CASE FitPrompt
    BY <1>0, <1>1, EvictFacts DEF FitPrompt, Evict, EvictTo
  <1>2. CASE DecodeBarrier
    BY <1>2, EvictFacts DEF DecodeBarrier, Evict, EvictTo, Abandon
  <1>3. CASE DecodeShard
    <2>1. next_token \in Token
      BY <1>3 DEF DecodeShard, ContextInv, ContextTypes, InLoop
    <2> QED BY <1>3, <2>1 DEF DecodeShard
  <1>4. CASE PrefillShard
    BY <1>4 DEF PrefillShard
  <1>5. CASE PromptEvicted \/ BeginChunk \/ PrefillFails \/ PromptDone \/ DecodeTop
    BY <1>5 DEF PromptEvicted, BeginChunk, PrefillFails, PromptDone, DecodeTop
  <1>6. CASE CallbackThrows \/ DecodeEvicted \/ DecodePromote \/ DecodeFails \/ Finish
    BY <1>6 DEF CallbackThrows, DecodeEvicted, DecodePromote, DecodeFails, Finish, Abandon
  <1>7. ASSUME NEW j \in jobs, RunJob(j) PROVE token_history' = token_history
    BY <1>7 DEF RunJob
  <1>8. ~ResetKVCache /\ ~SaveKVCacheToFile /\ ~LoadKVCacheFromFile
    BY DEF ResetKVCache, SaveKVCacheToFile, LoadKVCacheFromFile
  <1>9. \A r \in Request : ~Generate(r)
    BY DEF Generate
  <1> QED BY <1>1, <1>2, <1>3, <1>4, <1>5, <1>6, <1>7, <1>8, <1>9 DEF Next, GenerateStep

LEMMA AnchorStep ==
    ASSUME ContextInv, Next, pc # "idle"
    PROVE  LET k == Min2(req.n_keep, n_past)
           IN  /\ Len(token_history') >= k
               /\ Prefix(token_history', k) = Prefix(token_history, k)
  <1> DEFINE k == Min2(req.n_keep, n_past)
  <1>1. /\ token_history \in Seq(Token) /\ Len(token_history) = n_past
        /\ n_past \in Nat /\ req.n_keep \in Nat
    BY RequestFacts DEF ContextInv, ContextTypes, HistoryMatches
  <1>2. k \in 0 .. Len(token_history)
    BY <1>1 DEF Min2
  <1> SUFFICES /\ Len(token_history') >= k
               /\ Prefix(token_history', k) = Prefix(token_history, k)
    OBVIOUS
  <1>3. CASE token_history' = token_history
    BY <1>1, <1>2, <1>3
  <1>4. CASE token_history' = token_history \o Chunk
    <2> HIDE DEF k
    <2>1. Chunk \in Seq(Token) /\ Len(Chunk) \in Nat
      BY ChunkFacts DEF ContextInv
    <2>2. Len(token_history \o Chunk) = Len(token_history) + Len(Chunk)
      BY <1>1, <2>1, ConcatProperties
    <2>3. Prefix(token_history \o Chunk, k) = Prefix(token_history, k)
      BY <1>1, <1>2, <2>1, PrefixOfConcat
    <2> QED BY <1>1, <1>2, <1>4, <2>1, <2>2, <2>3
  <1>5. CASE next_token \in Token /\ token_history' = Append(token_history, next_token)
    <2> HIDE DEF k
    <2>1. <<next_token>> \in Seq(Token) /\ Append(token_history, next_token) = token_history \o <<next_token>>
      BY SMTT(40), <1>1, <1>5
    <2>2. Len(Append(token_history, next_token)) = n_past + 1
      BY <1>1, <1>5
    <2>3. Prefix(token_history \o <<next_token>>, k) = Prefix(token_history, k)
      BY <1>1, <1>2, <2>1, PrefixOfConcat
    <2> QED BY <1>1, <1>2, <1>5, <2>1, <2>2, <2>3
  <1>6. CASE req.n_keep < n_past /\ token_history' = Prefix(token_history, req.n_keep)
    <2>1. k = req.n_keep
      BY <1>1, <1>6 DEF Min2
    <2> HIDE DEF k
    <2>2. /\ Prefix(token_history, k) \in Seq(Token)
          /\ Len(Prefix(token_history, k)) = k
      BY <1>1, <1>2, Slice DEF Prefix
    <2>3. Prefix(Prefix(token_history, k), k) = Prefix(token_history, k)
      <3>1. \A q \in Seq(Token) : SubSeq(q, 1, Len(q)) = q
        BY SubSeqFull
      <3> QED BY <2>2, <3>1 DEF Prefix
    <2> QED BY <1>2, <1>6, <2>1, <2>2, <2>3
  <1> QED BY <1>3, <1>4, <1>5, <1>6, HistoryStep
-----------------------------------------------------------------------------
LEMMA InitContextSound == Init => ContextSound /\ NeverShort
  BY InitContextInv DEF Init, ContextSound, Resting, FileSound, SoundFile, NeverShort

LEMMA SoundInvariant == Spec => []ContextSound
  <1>1. ContextSound /\ [Next]_vars => ContextSound'
    BY NextContextSound
  <1> QED BY <1>1, InitContextSound, PTL DEF Spec

LEMMA ContextInvariant == FilesWhole => (Spec => [](ContextInv /\ NeverShort))
  <1>1. FilesWhole /\ NeverShort /\ [Next]_vars => NeverShort'
    BY NextNeverShort
  <1>2. ContextSound /\ NeverShort => ContextInv
    BY DEF ContextSound, NeverShort
  <1> SUFFICES ASSUME FilesWhole PROVE Spec => [](ContextInv /\ NeverShort)
    OBVIOUS
  <1> QED BY <1>1, <1>2, SoundInvariant, InitContextSound, PTL DEF Spec

\* While files are written whole, token_history_ is as long as n_past_ says, through
\* chunks, evictions, exceptions, resets and loads (llm_model.h: "always").
THEOREM ContextHistoryMatches == FilesWhole => (Spec => []HistoryMatches)
  <1>1. ContextInv => HistoryMatches
    BY DEF ContextInv
  <1> QED BY <1>1, ContextInvariant, PTL

\* The tests in generate(), prefillChunks and slideWindowEvict keep the context
\* within the largest context length.
THEOREM ContextBounded == FilesWhole => (Spec => []WithinContext)
  <1>1. ContextInv => WithinContext
    BY DEF ContextInv, RoomLeft, WithinContext
  <1> QED BY <1>1, ContextInvariant, PTL

\* Whatever slideWindowEvict discards, the first n_keep tokens of the history that
\* generate() found stay what they are.
THEOREM ContextAnchorKept == FilesWhole => (Spec => AnchorKept)
  <1>1. ContextInv /\ [Next]_vars =>
          [(pc # "idle" /\ req.sliding) =>
             LET k == Min2(req.n_keep, n_past)
             IN  /\ Len(token_history') >= k
                 /\ Prefix(token_history', k) = Prefix(token_history, k)]_vars
    BY AnchorStep
  <1> QED BY <1>1, ContextInvariant, PTL DEF Spec, AnchorKept
-----------------------------------------------------------------------------
(* Variants and buffers.                                                   *)

\* A later variant has the larger context.
LEMMA Ascending ==
    ASSUME NEW c \in 1 .. NumCL, NEW d \in c .. NumCL
    PROVE  /\ ContextLengths[c] \in Nat /\ ContextLengths[d] \in Nat
           /\ ContextLengths[c] <= ContextLengths[d]
  <1> DEFINE Good == {n \in Nat : c + n <= NumCL => ContextLengths[c] <= ContextLengths[c + n]}
  <1>0. /\ NumCL \in Nat /\ \A e \in 1 .. NumCL : ContextLengths[e] \in Nat
        /\ \A e \in 1 .. NumCL - 1 : ContextLengths[e] < ContextLengths[e + 1]
    BY ModelAssumption DEF NumCL
  <1>1. 0 \in Good
    BY <1>0
  <1>2. ASSUME NEW n \in Nat, n \in Good PROVE n + 1 \in Good
    <2> SUFFICES ASSUME c + (n + 1) <= NumCL
                 PROVE  ContextLengths[c] <= ContextLengths[c + (n + 1)]
      OBVIOUS
    <2>1. c + n \in 1 .. NumCL - 1 /\ c + (n + 1) = (c + n) + 1
      BY <1>0
    <2>2. ContextLengths[c] <= ContextLengths[c + n]
      BY <1>0, <1>2, <2>1
    <2>3. ContextLengths[c + n] < ContextLengths[(c + n) + 1]
      BY <1>0, <2>1
    <2>4. /\ ContextLengths[c] \in Nat /\ ContextLengths[c + n] \in Nat
          /\ ContextLengths[(c + n) + 1] \in Nat
      BY <1>0, <2>1
    <2> QED BY <2>1, <2>2, <2>3, <2>4
  <1> HIDE DEF Good
  <1>3. Nat \subseteq Good
    BY <1>1, <1>2, Induction
  <1>4. d - c \in Nat /\ c + (d - c) = d /\ d <= NumCL
    BY <1>0
  <1>5. d - c \in Good
    BY <1>3, <1>4
  <1> QED BY <1>0, <1>4, <1>5 DEF Good

\* Every stride is positive and within the buffer's rows.
LEMMA StrideFacts ==
    ASSUME NEW c \in 1 .. NumCL
    PROVE  /\ PrefillKV(c) \in Nat \ {0} /\ DecodeKV(c) \in Nat \ {0}
           /\ DecodeKV(NumCL) \in Nat \ {0} /\ PrefillKV(NumCL) \in Nat \ {0}
           /\ PrefillKV(c) <= PrefillKV(NumCL) /\ PrefillKV(NumCL) <= DecodeKV(NumCL)
           /\ DecodeKV(c) <= DecodeKV(NumCL) /\ PrefillKV(c) <= DecodeKV(c)
  <1>1. NumCL \in Nat \ {0} /\ 1 \in 1 .. NumCL /\ c \in 1 .. c /\ NumCL \in c .. NumCL
    BY ModelAssumption, EmptySeq DEF NumCL
  <1>2. /\ ContextLengths[1] <= ContextLengths[c] /\ ContextLengths[c] <= ContextLengths[NumCL]
        /\ ContextLengths[1] \in Nat /\ ContextLengths[c] \in Nat /\ ContextLengths[NumCL] \in Nat
    BY <1>1, Ascending
  <1>3. /\ SeqLenDecode \in Nat \ {0} /\ SeqLenPrefill \in Nat
        /\ SeqLenDecode <= SeqLenPrefill /\ SeqLenPrefill < ContextLengths[1]
    BY ModelAssumption
  <1> QED BY <1>2, <1>3 DEF PrefillKV, DecodeKV

\* promoteCL settles on a variant no smaller than the active one, the largest if none has room.
LEMMA PromotedFacts ==
    ASSUME active_cl \in 1 .. NumCL, NEW required \in Nat, NEW reserved \in Nat
    PROVE  LET cl == PromotedCL(required, reserved)
           IN  cl \in active_cl .. NumCL /\ (cl = NumCL \/ ContextLengths[cl] - reserved >= required)
  <1> DEFINE Fits(c) == c = NumCL \/ ContextLengths[c] - reserved >= required
             T == {c \in active_cl .. NumCL : Fits(c)}
  <1>1. NumCL \in Nat /\ \A c \in active_cl .. NumCL : ContextLengths[c] \in Nat
    BY ModelAssumption DEF NumCL
  <1>2. T \in SUBSET Nat /\ NumCL \in T
    BY <1>1
  <1>3. PICK n \in T : \A m \in T : n <= m
    <2> HIDE DEF T
    <2> QED BY <1>2, Least
  <1>4. ASSUME NEW d \in active_cl .. n - 1 PROVE ContextLengths[d] - reserved < required
    <2>1. d \in active_cl .. NumCL /\ ~ (n <= d) /\ d # NumCL
      BY <1>1, <1>3
    <2>2. d \notin T
      BY <1>3, <2>1
    <2> QED BY <1>1, <2>1, <2>2
  <1>5. \E c \in active_cl .. NumCL :
          /\ c = NumCL \/ ContextLengths[c] - reserved >= required
          /\ \A d \in active_cl .. c - 1 : ContextLengths[d] - reserved < required
    BY <1>3, <1>4
  <1> QED BY <1>5 DEF PromotedCL

Buffers == [KVShards -> [Addr -> Cell]]
Strides == 1 .. DecodeKV(NumCL)

LEMMA RestrideAllType ==
    ASSUME NEW k \in Buffers, NEW old \in Strides, NEW new \in Strides, NEW n_valid \in Nat
    PROVE  RestrideAll(k, old, new, n_valid) \in Buffers
  <1> DEFINE max == DecodeKV(NumCL)
  <1>1. Rows \in Nat /\ max \in Nat /\ Zero \in Cell
    <2>1. NumCL \in 1 .. NumCL
      BY ModelAssumption, EmptySeq DEF NumCL
    <2> QED BY <2>1, ModelAssumption, StrideFacts DEF Cell
  <1>2. ASSUME NEW s \in KVShards
        PROVE  Restride(k[s], Rows, old, new, n_valid, Zero) \in [Addr -> Cell]
    <2>1. k[s] \in [0 .. Rows * max - 1 -> Cell]
      BY DEF Buffers, Addr
    <2>2. old \in 1 .. max /\ new \in 1 .. max
      BY DEF Strides
    <2> HIDE DEF max
    <2>3. Restride(k[s], Rows, old, new, n_valid, Zero) \in [0 .. Rows * max - 1 -> Cell]
      BY <1>1, <2>1, <2>2, RestrideType
    <2> QED BY <2>3 DEF Addr, max
  <1> QED BY <1>2 DEF RestrideAll, Buffers

\* The strides in use.
LEMMA StrideTypes ==
    ASSUME NEW c \in 1 .. NumCL
    PROVE  PrefillKV(c) \in Strides /\ DecodeKV(c) \in Strides
  BY StrideFacts DEF Strides

LEMMA PromotedKVType ==
    ASSUME active_cl \in 1 .. NumCL, kv \in Buffers, n_past \in Nat,
           NEW required \in Nat, NEW reserved \in {SeqLenPrefill, SeqLenDecode},
           NEW stride_reserved \in {SeqLenPrefill, SeqLenDecode}
    PROVE  /\ PromotedCL(required, reserved) \in 1 .. NumCL
           /\ PromotedKV(required, reserved, stride_reserved) \in Buffers
  <1> DEFINE cl == PromotedCL(required, reserved)
  <1>1. cl \in active_cl .. NumCL
    BY PromotedFacts, ModelAssumption
  <1> HIDE DEF cl
  <1>2. cl \in 1 .. NumCL
    BY <1>1
  <1>3. /\ ContextLengths[active_cl] - stride_reserved \in Strides
        /\ ContextLengths[cl] - stride_reserved \in Strides
    BY <1>2, StrideTypes DEF PrefillKV, DecodeKV
  <1>4. RestrideAll(kv, ContextLengths[active_cl] - stride_reserved,
                    ContextLengths[cl] - stride_reserved, n_past) \in Buffers
    BY <1>3, RestrideAllType
  <1> QED BY <1>2, <1>4 DEF PromotedKV, cl

\* An entry computed for context c or a beginning of it.
LEMMA EntryType ==
    ASSUME NEW c \in Seq(Token), NEW r \in Row, NEW i \in Nat, i <= Len(c)
    PROVE  Entry(r, Prefix(c, i)) \in Cell
  <1>1. SubSeq(c, 1, i) \in Seq(Token)
    BY Slice
  <1> QED BY <1>1 DEF Entry, Prefix, Cell

LEMMA UpdateKVType ==
    ASSUME kv \in Buffers, NEW s, NEW stride \in Strides, NEW off \in Nat, NEW n \in Nat,
           NEW c \in Context, c = Junk \/ n <= Len(c) + 1
    PROVE  UpdateKV(s, stride, off, n, c) \in Buffers
  <1> DEFINE src == [p \in Row \X (0 .. n - 1) |->
                       IF c = Junk THEN Junk ELSE Entry(p[1], Prefix(c, Len(c) - n + p[2] + 1))]
  <1>1. ASSUME NEW p \in Row \X (0 .. n - 1), c # Junk
        PROVE  Entry(p[1], Prefix(c, Len(c) - n + p[2] + 1)) \in Cell
    <2>1. c \in Seq(Token) /\ Len(c) \in Nat /\ n <= Len(c) + 1
      BY <1>1 DEF Context
    <2>2. p[1] \in Row /\ p[2] \in 0 .. n - 1
      BY <1>1
    <2>3. Len(c) - n + p[2] + 1 \in Nat /\ Len(c) - n + p[2] + 1 <= Len(c)
      BY <2>1, <2>2
    <2> QED BY <2>1, <2>2, <2>3, EntryType
  <1>2. src \in [Row \X (0 .. n - 1) -> Cell]
    BY <1>1 DEF Cell
  <1>3. /\ Addr \in SUBSET Nat /\ Rows \in Nat \ {0} /\ stride \in Nat \ {0}
    BY ModelAssumption DEF Addr, Strides
  <1> HIDE DEF src
  <1>4. ASSUME s \in KVShards PROVE CopyTokens(kv[s], Rows, stride, off, n, src) \in [Addr -> Cell]
    <2>1. kv[s] \in [Addr -> Cell]
      BY <1>4 DEF Buffers
    <2>2. src \in [(0 .. Rows - 1) \X (0 .. n - 1) -> Cell]
      BY <1>2 DEF Row
    <2> QED BY <1>3, <2>1, <2>2, CopyType
  <1>5. CASE s \notin KVShards
    BY <1>5 DEF UpdateKV
  <1>6. CASE s \in KVShards
    <2>1. UpdateKV(s, stride, off, n, c)
            = [kv EXCEPT ![s] = CopyTokens(kv[s], Rows, stride, off, n, src)]
      BY <1>6 DEF UpdateKV, src, Buffers
    <2> QED BY <1>4, <1>6, <2>1 DEF Buffers
  <1> QED BY <1>5, <1>6
-----------------------------------------------------------------------------
(* The types of the cache and of what goes into it.                        *)

\* The contexts of the chunk and of the decode step under way.
NewContext == token_history \o Chunk
NextContext == Append(token_history, next_token)

CacheTypes ==
    /\ active_cl \in 1 .. NumCL /\ kv \in Buffers
    /\ out \in [Shard -> Context] /\ jobs \in SUBSET [shard : Shard, off : Nat]
    /\ shard \in Shard /\ act \in Context /\ logits \in Context
    /\ pc = "shard" => act \in {Junk, NewContext}
    /\ pc = "decode" => act \in {Junk, NextContext}

FileTypes == file \in SavedFile \cup {None} /\ damage \subseteq Damages

LEMMA ContextConstants ==
    /\ Junk \in Context /\ <<>> \in Context /\ 1 \in Shard /\ NumShards \in Nat
    /\ Seq(Token) \subseteq Context
  <1>1. <<>> \in Seq(Token)
    OBVIOUS
  <1> QED BY <1>1, ModelAssumption DEF Context, Shard

LEMMA NewContextFacts ==
    ASSUME ContextInv
    PROVE  /\ NewContext \in Seq(Token) /\ NewContext \in Context
           /\ Len(NewContext) = n_past + Len(Chunk)
           /\ Prefix(NewContext, n_past) = token_history
  <1>1. /\ token_history \in Seq(Token) /\ Len(token_history) = n_past /\ n_past \in Nat
    BY DEF ContextInv, ContextTypes, HistoryMatches
  <1>2. Chunk \in Seq(Token)
    BY ChunkFacts DEF ContextInv
  <1>3. /\ NewContext \in Seq(Token) /\ Len(NewContext) = n_past + Len(Chunk)
    BY <1>1, <1>2, ConcatProperties DEF NewContext
  <1>4. Prefix(NewContext, n_past) = Prefix(token_history, n_past)
    BY <1>1, <1>2, PrefixOfConcat DEF NewContext
  <1>5. \A q \in Seq(Token) : SubSeq(q, 1, Len(q)) = q
    BY SubSeqFull
  <1>6. Prefix(token_history, n_past) = token_history
    BY <1>1, <1>5 DEF Prefix
  <1> QED BY <1>3, <1>4, <1>6, ContextConstants

LEMMA NextContextFacts ==
    ASSUME ContextInv, InLoop
    PROVE  /\ NextContext \in Seq(Token) /\ NextContext \in Context
           /\ Len(NextContext) = n_past + 1
           /\ Prefix(NextContext, n_past) = token_history
  <1> DEFINE one == <<next_token>>
  <1>1. /\ token_history \in Seq(Token) /\ Len(token_history) = n_past /\ n_past \in Nat
        /\ next_token \in Token
    BY DEF ContextInv, ContextTypes, HistoryMatches
  <1>2. one \in Seq(Token) /\ NextContext = token_history \o one
    BY <1>1 DEF NextContext
  <1>3. NextContext \in Seq(Token) /\ Len(NextContext) = n_past + 1
    BY <1>1 DEF NextContext
  <1> HIDE DEF one
  <1>4. Prefix(NextContext, n_past) = Prefix(token_history, n_past)
    BY <1>1, <1>2, PrefixOfConcat
  <1>5. \A q \in Seq(Token) : SubSeq(q, 1, Len(q)) = q
    BY SubSeqFull
  <1>6. Prefix(token_history, n_past) = token_history
    BY <1>1, <1>5 DEF Prefix
  <1> QED BY <1>3, <1>4, <1>6, ContextConstants

\* The abstract network hands on what came in, or nothing useful.
LEMMA ShardOutChoice ==
    ASSUME NEW s, NEW stride
    PROVE  ShardOut(s, stride) \in {act, Junk}
  BY DEF ShardOut

\* generate() is left.
LEMMA LeaveTypes ==
    ASSUME CacheTypes, Leave, active_cl' \in 1 .. NumCL, kv' \in Buffers, jobs' = jobs
    PROVE  CacheTypes'
  BY ContextConstants DEF CacheTypes, Leave

LEMMA PrefillTypes ==
    ASSUME CacheTypes, NEW tokens, NEW g, Prefill(tokens, g),
           UNCHANGED <<active_cl, out, jobs, logits>>, kv' \in Buffers
    PROVE  CacheTypes'
  BY DEF CacheTypes, Prefill

LEMMA EvictTypes ==
    ASSUME ContextInv, pc # "idle", CacheTypes, NEW n_fit, NEW at_decode_stride, NEW g,
           Evict(n_fit, at_decode_stride, g), UNCHANGED <<out, jobs, logits>>
    PROVE  CacheTypes'
  <1> DEFINE restrided == RestrideAll(kv, DecodeKV(active_cl), PrefillKV(active_cl), req.n_keep)
  <1>1. restrided \in Buffers
    BY RequestFacts, StrideTypes, RestrideAllType DEF ContextInv, CacheTypes
  <1>2. kv' \in Buffers /\ active_cl' = active_cl
    BY <1>1 DEF Evict, EvictTo, CacheTypes
  <1> QED BY <1>2, PrefillTypes DEF Evict, EvictTo

LEMMA BeginChunkTypes ==
    ASSUME ContextInv, CacheTypes, BeginChunk
    PROVE  CacheTypes'
  <1>1. ChunkRequires \in Nat
    BY ChunkFacts DEF ContextInv, ContextTypes, ChunkRequires
  <1>2. active_cl' \in 1 .. NumCL /\ kv' \in Buffers
    BY <1>1, PromotedKVType DEF BeginChunk, CacheTypes, ContextInv, ContextTypes
  <1>3. act' = NewContext /\ pc' = "shard" /\ UNCHANGED <<out, jobs, logits, token_history, todo>> /\ shard' = 1
    BY DEF BeginChunk, NewContext
  <1>4. NewContext' = NewContext
    BY <1>3 DEF NewContext, Chunk
  <1> QED BY <1>2, <1>3, <1>4, NewContextFacts, ContextConstants DEF CacheTypes

LEMMA PrefillShardTypes ==
    ASSUME ContextInv, CacheTypes, PrefillShard
    PROVE  CacheTypes'
  <1> DEFINE stride == PrefillKV(active_cl)
             o == ShardOut(shard, stride)
             n == Len(Chunk)
             updated == UpdateKV(shard, stride, n_past, n, o)
  <1>1. /\ pc = "shard" /\ act \in {Junk, NewContext} /\ n_past \in Nat /\ n \in Nat
        /\ stride \in Strides
    BY ChunkFacts, StrideTypes DEF PrefillShard, CacheTypes, ContextInv, ContextTypes
  <1>2. o \in {Junk, NewContext} /\ o \in Context
    BY <1>1, ShardOutChoice, NewContextFacts, ContextConstants
  <1>3. o = Junk \/ n <= Len(o) + 1
    BY <1>1, <1>2, NewContextFacts
  <1>4. updated \in Buffers
    <2> HIDE DEF o, n, stride
    <2> QED BY <1>1, <1>2, <1>3, UpdateKVType DEF CacheTypes
  <1>5. /\ act' \in {act, o} /\ kv' \in {kv, updated} /\ logits' \in {logits, o}
        /\ UNCHANGED <<active_cl, out, jobs>>
        /\ \/ shard < NumShards /\ shard' = shard + 1 /\ UNCHANGED <<pc, token_history, todo>>
           \/ pc' = "chunk" /\ shard' = 1
    BY DEF PrefillShard
  <1> HIDE DEF o, n, stride, updated
  <1>6. shard' \in Shard
    BY <1>5, ContextConstants DEF CacheTypes, Shard
  <1>7. CASE UNCHANGED <<pc, token_history, todo>>
    <2>1. NewContext' = NewContext /\ pc' = "shard"
      BY <1>1, <1>7 DEF NewContext, Chunk
    <2> QED BY <1>1, <1>2, <1>4, <1>5, <1>6, <2>1, NewContextFacts, ContextConstants DEF CacheTypes
  <1>8. CASE pc' = "chunk"
    BY <1>1, <1>2, <1>4, <1>5, <1>6, <1>8, NewContextFacts, ContextConstants DEF CacheTypes
  <1> QED BY <1>5, <1>7, <1>8

LEMMA DecodePromoteTypes ==
    ASSUME ContextInv, CacheTypes, DecodePromote
    PROVE  CacheTypes'
  <1>1. n_past + 1 \in Nat /\ n_past \in Nat
    BY DEF ContextInv, ContextTypes
  <1>2. active_cl' \in 1 .. NumCL /\ kv' \in Buffers
    BY <1>1, PromotedKVType DEF DecodePromote, CacheTypes
  <1>3. /\ pc = "promote" /\ act' = NextContext /\ pc' = "decode" /\ shard' = 1
        /\ UNCHANGED <<out, jobs, logits, token_history, next_token>>
    BY DEF DecodePromote, NextContext, locals
  <1>4. NextContext' = NextContext /\ NextContext \in Context
    BY <1>3, NextContextFacts DEF NextContext, InLoop
  <1> QED BY <1>2, <1>3, <1>4, ContextConstants DEF CacheTypes

LEMMA DecodeShardTypes ==
    ASSUME ContextInv, CacheTypes, DecodeShard
    PROVE  CacheTypes'
  <1> DEFINE stride == DecodeKV(active_cl)
             o == ShardOut(shard, stride)
             updated == UpdateKV(shard, stride, n_past, 1, o)
             job == [shard |-> shard, off |-> n_past]
  <1>1. /\ pc = "decode" /\ act \in {Junk, NextContext} /\ n_past \in Nat
        /\ stride \in Strides /\ shard \in Shard
    BY StrideTypes DEF DecodeShard, CacheTypes, ContextInv, ContextTypes
  <1>2. NextContext \in Context /\ Len(NextContext) = n_past + 1
    BY <1>1, NextContextFacts DEF InLoop
  <1>3. o \in {Junk, NextContext} /\ o \in Context /\ (o = Junk \/ 1 <= Len(o) + 1)
    BY <1>1, <1>2, ShardOutChoice, ContextConstants
  <1>4. updated \in Buffers
    <2> HIDE DEF o, stride
    <2> QED BY <1>1, <1>3, UpdateKVType DEF CacheTypes
  <1>5. /\ act' = o /\ kv' \in {kv, updated} /\ logits' \in {logits, o}
        /\ out' = [out EXCEPT ![shard] = o]
        /\ jobs' \in {jobs, jobs \cup {job}} /\ active_cl' = active_cl
        /\ \/ shard < NumShards /\ shard' = shard + 1 /\ UNCHANGED <<pc, token_history, next_token>>
           \/ pc' = "top" /\ shard' = 1
    BY DEF DecodeShard
  <1> HIDE DEF o, stride, updated
  <1>6. shard' \in Shard /\ job \in [shard : Shard, off : Nat] /\ out' \in [Shard -> Context]
    BY <1>1, <1>3, <1>5, ContextConstants DEF CacheTypes, Shard
  <1> HIDE DEF job
  <1>7. CASE UNCHANGED <<pc, token_history, next_token>>
    <2>1. NextContext' = NextContext /\ pc' = "decode"
      BY <1>1, <1>7 DEF NextContext
    <2> QED BY <1>2, <1>3, <1>4, <1>5, <1>6, <2>1 DEF CacheTypes
  <1>8. CASE pc' = "top"
    BY <1>3, <1>4, <1>5, <1>6, <1>8 DEF CacheTypes
  <1> QED BY <1>5, <1>7, <1>8

LEMMA RunJobTypes ==
    ASSUME CacheTypes, NEW j \in jobs, RunJob(j)
    PROVE  CacheTypes'
  <1>1. /\ j.shard \in Shard /\ j.off \in Nat /\ out[j.shard] \in Context
        /\ DecodeKV(active_cl) \in Strides
    BY StrideTypes DEF CacheTypes
  <1>2. out[j.shard] = Junk \/ 1 <= Len(out[j.shard]) + 1
    BY <1>1 DEF Context
  <1>3. UpdateKV(j.shard, DecodeKV(active_cl), j.off, 1, out[j.shard]) \in Buffers
    BY <1>1, <1>2, UpdateKVType DEF CacheTypes
  <1>4. /\ kv' \in Buffers /\ jobs' \subseteq jobs
        /\ UNCHANGED <<n_past, active_cl, token_history, out, pc, next_token, todo, shard, act, logits>>
    BY <1>3 DEF RunJob, model, locals, chunkv
  <1>5. NewContext' = NewContext /\ NextContext' = NextContext
    BY <1>4 DEF NewContext, NextContext, Chunk
  <1> QED BY <1>4, <1>5 DEF CacheTypes

\* Nothing of the cache and of the step under way is touched.
cachev == <<active_cl, kv, out, jobs, pc, shard, act, logits, token_history, next_token, todo>>

LEMMA UntouchedTypes ==
    ASSUME CacheTypes, UNCHANGED cachev
    PROVE  CacheTypes'
  <1>1. NewContext' = NewContext /\ NextContext' = NextContext
    BY DEF NewContext, NextContext, Chunk, cachev
  <1> QED BY <1>1 DEF CacheTypes, cachev

\* The steps of a call of generate().
LEMMA CallTypes ==
    ASSUME ContextInv, CacheTypes, GenerateStep
    PROVE  CacheTypes'
  <1> USE DEF model, locals, chunkv
  <1>0. /\ active_cl \in 1 .. NumCL /\ kv \in Buffers /\ n_past \in Nat
        /\ PrefillKV(active_cl) \in Strides /\ DecodeKV(active_cl) \in Strides
    BY StrideTypes DEF CacheTypes, ContextInv, ContextTypes
  <1>1. CASE FitPrompt
    <2>0. pc = "fit" /\ jobs' = jobs
      BY <1>1 DEF FitPrompt
    <2>1. CASE Prefill(req.prompt, "prompt") /\ UNCHANGED <<model, kv, out, locals, logits, damage>>
      BY <1>0, <2>0, <2>1, PrefillTypes
    <2>2. CASE Evict(Len(req.prompt), FALSE, "evict_prompt") /\ UNCHANGED <<out, locals, logits>>
      BY <2>0, <2>2, EvictTypes
    <2>3. CASE Leave /\ UNCHANGED <<model, kv, damage>>
      BY <1>0, <2>0, <2>3, LeaveTypes
    <2> QED BY <1>1, <2>1, <2>2, <2>3 DEF FitPrompt
  <1>2. CASE PromptEvicted
    <2>0. UNCHANGED <<model, kv, jobs>>
      BY <1>2 DEF PromptEvicted
    <2>1. CASE Prefill(req.prompt, "prompt") /\ UNCHANGED <<out, locals, logits>>
      BY <1>0, <2>0, <2>1, PrefillTypes
    <2>2. CASE Leave
      BY <1>0, <2>0, <2>2, LeaveTypes
    <2> QED BY <1>2, <2>1, <2>2 DEF PromptEvicted
  <1>3. CASE BeginChunk
    BY <1>3, BeginChunkTypes
  <1>4. CASE PrefillShard
    BY <1>4, PrefillShardTypes
  <1>5. CASE PrefillFails
    BY <1>0, <1>5, LeaveTypes DEF PrefillFails
  <1>6. CASE PromptDone
    <2>1. kv' \in Buffers
      BY <1>0, <1>6, RestrideAllType DEF PromptDone
    <2> QED BY <1>6, <2>1 DEF PromptDone, CacheTypes
  <1>7. CASE DecodeTop
    BY <1>7 DEF DecodeTop, CacheTypes
  <1>8. CASE CallbackThrows
    BY <1>0, <1>8, LeaveTypes DEF CallbackThrows, Abandon
  <1>9. CASE DecodeBarrier
    <2>0. pc = "barrier"
      BY <1>9 DEF DecodeBarrier
    <2>1. CASE pc' = "promote" /\ UNCHANGED <<model, kv, out, locals, chunkv, logits, damage, jobs>>
      BY <2>1 DEF CacheTypes
    <2>2. CASE Evict(1, TRUE, "evict_decode") /\ UNCHANGED <<out, locals, logits, jobs>>
      BY <2>0, <2>2, EvictTypes
    <2>3. CASE Abandon
      BY <1>0, <2>3, LeaveTypes DEF Abandon
    <2> QED BY <1>9, <2>1, <2>2, <2>3 DEF DecodeBarrier
  <1>10. CASE DecodeEvicted
    <2>1. kv' \in Buffers /\ UNCHANGED <<model, jobs>>
      BY <1>0, <1>10, RestrideAllType DEF DecodeEvicted
    <2>2. CASE pc' = "promote" /\ UNCHANGED <<out, locals, chunkv, logits>>
      BY <2>1, <2>2 DEF CacheTypes
    <2>3. CASE Leave
      BY <1>0, <2>1, <2>3, LeaveTypes
    <2> QED BY <1>10, <2>2, <2>3 DEF DecodeEvicted
  <1>11. CASE DecodePromote
    BY <1>11, DecodePromoteTypes
  <1>12. CASE DecodeShard
    BY <1>12, DecodeShardTypes
  <1>13. CASE DecodeFails
    BY <1>0, <1>13, LeaveTypes DEF DecodeFails, Abandon
  <1>14. CASE Finish
    <2> DEFINE cl == PromotedCL(n_past, SeqLenPrefill)
               promoted == PromotedKV(n_past, SeqLenPrefill, SeqLenDecode)
    <2>1. cl \in 1 .. NumCL /\ promoted \in Buffers
      BY <1>0, PromotedKVType
    <2>2. /\ Leave /\ jobs' = jobs /\ active_cl' = cl
          /\ kv' = RestrideAll(promoted, DecodeKV(cl), PrefillKV(cl), n_past)
      BY <1>14 DEF Finish
    <2> HIDE DEF cl, promoted
    <2>3. kv' \in Buffers
      BY <1>0, <2>1, <2>2, StrideTypes, RestrideAllType
    <2> QED BY <2>1, <2>2, <2>3, LeaveTypes
  <1> QED BY <1>1, <1>2, <1>3, <1>4, <1>5, <1>6, <1>7, <1>8, <1>9, <1>10, <1>11, <1>12, <1>13,
             <1>14 DEF GenerateStep

\* The cache an image holds can be loaded.
LEMMA SavedInBuffer == SavedAddr \subseteq Addr
  <1> DEFINE p == PrefillKV(NumCL)
             d == DecodeKV(NumCL)
  <1>1. /\ p \in Nat /\ d \in Nat /\ p <= d /\ Rows \in Nat
    <2>1. NumCL \in 1 .. NumCL
      BY ModelAssumption, EmptySeq DEF NumCL
    <2> QED BY <2>1, StrideFacts, ModelAssumption
  <1> HIDE DEF p, d
  <1>2. p * Rows <= d * Rows /\ p * Rows = Rows * p /\ d * Rows = Rows * d
    BY <1>1, ProductMonotone
  <1>3. Rows * p \in Nat /\ Rows * d \in Nat /\ Rows * p <= Rows * d
    BY <1>1, <1>2, ProductNat
  <1>4. 0 .. Rows * p - 1 \subseteq 0 .. Rows * d - 1
    BY <1>3
  <1> QED BY <1>4 DEF SavedAddr, Addr, p, d

ControlTypes ==
    /\ pc \in PC /\ goal \in {"prompt", "evict_prompt", "evict_decode"}
    /\ next_token \in Token \cup {None} /\ step \in Nat

KeeperType == keeper \in BOOLEAN

LEMMA ControlTypesStep ==
    ASSUME ControlTypes, [Next]_vars
    PROVE  ControlTypes'
  <1> USE DEF ControlTypes, PC, model, locals, chunkv
  <1>0. ASSUME Leave PROVE ControlTypes'
    BY <1>0 DEF Leave
  <1>1. ASSUME NEW tokens, NEW g \in {"prompt", "evict_prompt", "evict_decode"},
               Prefill(tokens, g), UNCHANGED <<next_token, step>>
        PROVE  ControlTypes'
    BY <1>1 DEF Prefill
  <1>2. CASE FitPrompt \/ PromptEvicted
    <2>1. \/ Leave
          \/ /\ UNCHANGED <<next_token, step>>
             /\ \/ Prefill(req.prompt, "prompt")
                \/ Prefill(SurvivingTail(Len(req.prompt), n_past), "evict_prompt")
      BY <1>2 DEF FitPrompt, PromptEvicted, Evict, EvictTo
    <2> QED BY <1>0, <1>1, <2>1
  <1>3. CASE BeginChunk \/ PrefillShard \/ PromptDone \/ DecodeTop \/ DecodePromote
    BY <1>3 DEF BeginChunk, PrefillShard, PromptDone, DecodeTop, DecodePromote
  <1>4. CASE PrefillFails \/ CallbackThrows \/ DecodeFails \/ Finish
    BY <1>0, <1>4 DEF PrefillFails, CallbackThrows, DecodeFails, Finish, Abandon
  <1>5. CASE DecodeBarrier
    <2>1. \/ pc' = "promote" /\ UNCHANGED <<goal, next_token, step>>
          \/ /\ UNCHANGED <<next_token, step>>
             /\ Prefill(SurvivingTail(1, n_past), "evict_decode")
          \/ Leave
      BY <1>5 DEF DecodeBarrier, Evict, EvictTo, Abandon
    <2> QED BY <1>0, <1>1, <2>1
  <1>6. CASE DecodeEvicted
    BY <1>0, <1>6 DEF DecodeEvicted
  <1>7. CASE DecodeShard
    BY <1>7 DEF DecodeShard
  <1>8. ASSUME NEW j \in jobs, RunJob(j) PROVE ControlTypes'
    BY <1>8 DEF RunJob
  <1>9. CASE ResetKVCache \/ LoadKVCacheFromFile \/ SaveKVCacheToFile \/ UNCHANGED vars
    BY <1>9 DEF ResetKVCache, LoadKVCacheFromFile, SaveKVCacheToFile, vars
  <1>10. ASSUME NEW r \in Request, Generate(r) PROVE ControlTypes'
    BY <1>10 DEF Generate
  <1> QED BY <1>2, <1>3, <1>4, <1>5, <1>6, <1>7, <1>8, <1>9, <1>10 DEF Next, GenerateStep

\* Only the first decode loop and Finish touch the clock keeper.
LEMMA KeeperStep ==
    ASSUME KeeperType, [Next]_vars
    PROVE  KeeperType'
  <1>1. CASE PromptDone
    BY <1>1, Zenon DEF PromptDone, KeeperType
  <1>2. CASE Finish
    BY <1>2, Zenon DEF Finish, KeeperType
  <1>3. ASSUME keeper' = keeper PROVE KeeperType'
    BY <1>3, Zenon DEF KeeperType
  <1>4. CASE FitPrompt \/ PromptEvicted \/ BeginChunk \/ PrefillShard \/ PrefillFails
    BY <1>3, <1>4, Zenon DEF FitPrompt, PromptEvicted, BeginChunk, PrefillShard, PrefillFails
  <1>5. CASE DecodeTop \/ CallbackThrows \/ DecodeBarrier \/ DecodeEvicted \/ DecodePromote
    BY <1>3, <1>5, Zenon DEF DecodeTop, CallbackThrows, DecodeBarrier, DecodeEvicted, DecodePromote, Abandon
  <1>6. CASE DecodeShard \/ DecodeFails
    BY <1>3, <1>6, Zenon DEF DecodeShard, DecodeFails, Abandon
  <1>7. ASSUME NEW j \in jobs, RunJob(j) PROVE KeeperType'
    BY <1>3, <1>7, Zenon DEF RunJob
  <1>8. CASE ResetKVCache \/ LoadKVCacheFromFile \/ SaveKVCacheToFile \/ UNCHANGED vars
    BY <1>3, <1>8, Zenon DEF ResetKVCache, LoadKVCacheFromFile, SaveKVCacheToFile, vars
  <1>9. ASSUME NEW r \in Request, Generate(r) PROVE KeeperType'
    BY <1>3, <1>9, Zenon DEF Generate
  <1> QED BY <1>1, <1>2, <1>4, <1>5, <1>6, <1>7, <1>8, <1>9, Zenon DEF Next, GenerateStep

\* What befalls the cache has a name.
LEMMA DamagesKnown ==
    ASSUME FileTypes, [Next]_vars
    PROVE  damage' \subseteq Damages
  <1> USE DEF Leave, Evict, EvictTo, Abandon, Loses, Overruns, PromoteLoses, Damages
  <1>0. damage \subseteq Damages
    BY DEF FileTypes
  <1>1. CASE FitPrompt \/ PromptEvicted \/ BeginChunk \/ PrefillShard \/ PrefillFails \/ PromptDone
    BY <1>0, <1>1 DEF FitPrompt, PromptEvicted, BeginChunk, PrefillShard, PrefillFails, PromptDone
  <1>2. CASE DecodeTop \/ CallbackThrows \/ DecodeBarrier \/ DecodeEvicted \/ DecodePromote
    BY <1>0, <1>2 DEF DecodeTop, CallbackThrows, DecodeBarrier, DecodeEvicted, DecodePromote
  <1>3. CASE DecodeShard \/ DecodeFails \/ Finish
    BY <1>0, <1>3 DEF DecodeShard, DecodeFails, Finish
  <1>4. ASSUME NEW j \in jobs, RunJob(j) PROVE damage' \subseteq Damages
    BY <1>0, <1>4 DEF RunJob
  <1>5. CASE ResetKVCache \/ SaveKVCacheToFile \/ UNCHANGED vars
    BY <1>0, <1>5 DEF ResetKVCache, SaveKVCacheToFile, vars
  <1>6. CASE LoadKVCacheFromFile
    <2>1. file.damage \subseteq Damages
      BY <1>6 DEF LoadKVCacheFromFile, FileTypes, SavedFile
    <2> QED BY <1>6, <2>1 DEF LoadKVCacheFromFile
  <1>7. ASSUME NEW r \in Request, Generate(r) PROVE damage' \subseteq Damages
    BY <1>0, <1>7 DEF Generate
  <1> QED BY <1>1, <1>2, <1>3, <1>4, <1>5, <1>6, <1>7 DEF Next, GenerateStep

\* A saved context is a file.
LEMMA ImageType ==
    ASSUME ContextInv, CacheTypes, FileTypes, NEW parts \in SUBSET AllParts
    PROVE  Image(parts) \in SavedFile
  <1> DEFINE saved == [s \in KVShards |-> [a \in SavedAddr |-> kv[s][a]]]
  <1>1. \A s \in KVShards, a \in SavedAddr : kv[s][a] \in Cell
    BY SavedInBuffer DEF CacheTypes, Buffers
  <1>2. saved \in [KVShards -> [SavedAddr -> Cell]]
    BY <1>1
  <1>3. /\ n_past \in Nat /\ token_history \in Seq(Token) /\ active_cl \in 1 .. NumCL
        /\ damage \in SUBSET Damages
    BY DEF ContextInv, ContextTypes, CacheTypes, FileTypes
  <1>4. Image(parts) = [parts |-> parts, n_past |-> n_past, active_cl |-> active_cl,
                        history |-> token_history, kv |-> saved, damage |-> damage]
    BY DEF Image
  <1> HIDE DEF saved
  <1> QED BY <1>2, <1>3, <1>4 DEF SavedFile

LEMMA FileTypesStep ==
    ASSUME ContextSound, NeverShort, CacheTypes, FileTypes, [Next]_vars
    PROVE  FileTypes'
  <1>1. CASE SaveKVCacheToFile
    <2>1. ContextInv
      BY DEF ContextSound, NeverShort
    <2>2. PICK parts \in SUBSET AllParts : file' = Image(parts)
      BY <1>1 DEF SaveKVCacheToFile, AllParts
    <2> QED BY <2>1, <2>2, ImageType, DamagesKnown DEF FileTypes
  <1>2. CASE ~SaveKVCacheToFile
    BY <1>2, FileStays, DamagesKnown DEF FileTypes
  <1> QED BY <1>1, <1>2

LEMMA CacheTypesStep ==
    ASSUME ContextSound, NeverShort, CacheTypes, FileTypes, [Next]_vars
    PROVE  CacheTypes'
  <1> USE DEF model, locals, chunkv
  <1>0. ContextInv
    BY DEF ContextSound, NeverShort
  <1>1. CASE ResetKVCache
    <2>1. 1 \in 1 .. NumCL
      BY ModelAssumption, EmptySeq DEF NumCL
    <2>2. /\ active_cl' = 1 /\ kv' = [s \in KVShards |-> [a \in Addr |-> Zero]] /\ pc' = "idle"
          /\ UNCHANGED <<out, jobs, shard, act, logits>>
      BY <1>1 DEF ResetKVCache
    <2>3. kv' \in Buffers
      BY <2>2 DEF Buffers, Cell
    <2> QED BY <2>1, <2>2, <2>3 DEF CacheTypes
  <1>2. CASE LoadKVCacheFromFile
    <2>1. /\ pc' = "idle" /\ UNCHANGED <<out, jobs, shard, act, logits>> /\ file # None
      BY <1>2 DEF LoadKVCacheFromFile
    <2>2. file.parts = AllParts
      BY <2>1 DEF NeverShort, SoundFile
    <2>3. /\ active_cl' = file.active_cl
          /\ kv' = [s \in KVShards |-> [a \in Addr |->
                      IF a \notin SavedAddr THEN kv[s][a] ELSE file.kv[s][a]]]
      BY <1>2, <2>2 DEF LoadKVCacheFromFile, AllParts
    <2>4. \A s \in KVShards, a \in Addr : kv[s][a] \in Cell
      BY DEF CacheTypes, Buffers
    <2>5. file.active_cl \in 1 .. NumCL /\ \A s \in KVShards, a \in SavedAddr : file.kv[s][a] \in Cell
      BY <2>1 DEF FileTypes, SavedFile
    <2>6. kv' \in Buffers
      BY <2>3, <2>4, <2>5 DEF Buffers
    <2> QED BY <2>1, <2>3, <2>5, <2>6 DEF CacheTypes
  <1>3. CASE SaveKVCacheToFile \/ UNCHANGED vars
    BY <1>3, UntouchedTypes DEF SaveKVCacheToFile, vars, cachev
  <1>4. CASE GenerateStep
    BY <1>0, <1>4, CallTypes
  <1>5. ASSUME NEW j \in jobs, RunJob(j) PROVE CacheTypes'
    BY <1>5, RunJobTypes
  <1>6. ASSUME NEW r \in Request, Generate(r) PROVE CacheTypes'
    BY <1>6 DEF Generate, CacheTypes
  <1> QED BY <1>1, <1>2, <1>3, <1>4, <1>5, <1>6 DEF Next

\* What ModelTypeCorrect rests on.
TypeInv == ContextSound /\ NeverShort /\ CacheTypes /\ FileTypes /\ ControlTypes /\ KeeperType

LEMMA TypeInvariant == FilesWhole => (Spec => []TypeInv)
  <1>1. Init => TypeInv
    <2> SUFFICES ASSUME Init PROVE TypeInv
      OBVIOUS
    <2>1. 1 \in 1 .. NumCL
      BY ModelAssumption, EmptySeq DEF NumCL
    <2>2. kv \in Buffers /\ active_cl \in 1 .. NumCL
      BY <2>1 DEF Init, Buffers, Cell
    <2>3. CacheTypes
      BY <2>2, ContextConstants DEF Init, CacheTypes
    <2>4. FileTypes /\ ControlTypes
      BY DEF Init, FileTypes, ControlTypes, PC
    <2>5. KeeperType
      BY Zenon DEF Init, KeeperType
    <2> QED BY <2>3, <2>4, <2>5, InitContextSound DEF TypeInv
  <1>2. FilesWhole /\ TypeInv /\ [Next]_vars => TypeInv'
    <2> SUFFICES ASSUME FilesWhole, TypeInv, [Next]_vars PROVE TypeInv'
      OBVIOUS
    <2>1. CacheTypes' /\ FileTypes'
      BY CacheTypesStep, FileTypesStep DEF TypeInv
    <2>2. ControlTypes'
      BY ControlTypesStep DEF TypeInv
    <2>3. KeeperType'
      BY KeeperStep DEF TypeInv
    <2>4. ContextSound' /\ NeverShort'
      BY NextContextSound, NextNeverShort DEF TypeInv
    <2> QED BY <2>1, <2>2, <2>3, <2>4 DEF TypeInv
  <1> SUFFICES ASSUME FilesWhole PROVE Spec => []TypeInv
    OBVIOUS
  <1> QED BY <1>1, <1>2, PTL DEF Spec

\* The members and locals keep their types while files are written whole: members
\* taken from a short file would not fit each other.
THEOREM ModelTypeCorrect == FilesWhole => (Spec => []TypeOK)
  <1>1. TypeInv => TypeOK
    <2> SUFFICES ASSUME TypeInv PROVE TypeOK
      OBVIOUS
    <2>1. IF pc = "idle" THEN req = None
          ELSE req \in [prompt : Prompts, max_tokens : MaxTokens, sliding : Sliding, n_keep : 0 .. MaxCL]
      BY DEF TypeInv, ContextSound, NeverShort, Resting, ContextInv, ContextTypes, ActiveRequest
    <2>2. n_past \in Nat /\ token_history \in Seq(Token) /\ todo \in Seq(Token)
      BY DEF TypeInv, ContextSound, NeverShort, ContextInv, ContextTypes
    <2>3. keeper \in BOOLEAN
      BY Zenon DEF TypeInv, KeeperType
    <2>4. /\ kv \in [KVShards -> [Addr -> Cell]]
          /\ active_cl \in 1 .. NumCL /\ out \in [Shard -> Context]
          /\ jobs \in SUBSET [shard : Shard, off : Nat]
          /\ shard \in Shard /\ act \in Context /\ logits \in Context
      BY DEF TypeInv, CacheTypes, Buffers
    <2>5. ControlTypes /\ FileTypes
      BY DEF TypeInv
    <2> QED BY <2>1, <2>2, <2>3, <2>4, <2>5, Zenon DEF TypeOK, ControlTypes, FileTypes
  <1> QED BY <1>1, TypeInvariant, PTL
-----------------------------------------------------------------------------
(* The cache mirrors the context.                                          *)

\* Whatever befalls the contents, the tensors stay where they are.
Shaped(k) == DOMAIN k = KVShards /\ \A s \in KVShards : DOMAIN k[s] = Addr
Shapes ==
    /\ Shaped(kv)
    /\ DOMAIN out = Shard /\ shard \in Shard

\* The active variant is one of the bundle's.
Variants ==
    /\ "badload" \notin damage => active_cl \in 1 .. NumCL
    /\ SoundFile => file.active_cl \in 1 .. NumCL

\* The first m entries of every row of buf are those of context c.
Kept(buf, stride, c, m) ==
    /\ m <= stride
    /\ \A r \in Row, i \in 0 .. m - 1 : buf[r * stride + i] = Entry(r, Prefix(c, i + 1))

CacheKept(stride) == \A s \in KVShards : Kept(kv[s], stride, token_history, n_past)

\* The decode step for context c has been through shard s: its last entry is in
\* the cache, or a job is about to put it there.
Pending(s, c) == [shard |-> s, off |-> Len(c) - 1] \in jobs
Written(s, c) ==
    Kept(kv[s], DecodeKV(active_cl), c, IF Pending(s, c) THEN Len(c) - 1 ELSE Len(c))

\* The jobs in flight write back the last token of c.
JobsFor(c) ==
    \A j \in jobs : /\ j \in [shard : Shard, off : Nat]
                    /\ j.off = Len(c) - 1 /\ out[j.shard] = c

\* Where no decode step is in flight, unless one was abandoned.
Quiet == pc \in {"idle", "fit", "chunk", "shard", "promote"}
QuietInv == ("inflight" \notin damage /\ Quiet) => jobs = {}

\* Prefill: the shards behind the loop variable have the chunk, the others do not.
PrefillSound ==
    /\ pc \in {"idle", "fit", "chunk"} => CacheKept(PrefillKV(active_cl))
    /\ pc = "chunk" /\ goal = "prompt" /\ todo = <<>> => logits = token_history
    /\ pc = "shard" =>
         /\ act = NewContext
         /\ \A s \in KVShards :
              IF s < shard THEN Kept(kv[s], PrefillKV(active_cl), NewContext, Len(NewContext))
              ELSE Kept(kv[s], PrefillKV(active_cl), token_history, n_past)

\* Decode: what a shard has computed is in its cache or in a job.
DecodeSound ==
    /\ pc = "promote" => CacheKept(DecodeKV(active_cl))
    /\ pc \in {"top", "barrier", "drain"} =>
         JobsFor(token_history) /\ \A s \in KVShards : Written(s, token_history)
    /\ pc = "top" => logits = token_history
    /\ pc = "decode" =>
         /\ act = NextContext /\ JobsFor(NextContext) /\ \A j \in jobs : j.shard < shard
         /\ \A s \in KVShards :
              IF s < shard THEN Written(s, NextContext)
              ELSE Kept(kv[s], DecodeKV(active_cl), token_history, n_past)

\* A file saved from an undamaged cache can stand in for it.
FileKept ==
    (file # None /\ file.parts = AllParts /\ file.damage = {}) =>
        \A s \in KVShards : Kept(file.kv[s], PrefillKV(file.active_cl), file.history, file.n_past)

\* The inductive invariant.
CacheSound ==
    /\ Shapes /\ Variants /\ QuietInv /\ FileKept
    /\ damage = {} => PrefillSound /\ DecodeSound
-----------------------------------------------------------------------------
(* What restriding, copying and cutting leave in a cache.                  *)

\* A beginning of a beginning.
LEMMA PrefixOfPrefix ==
    ASSUME NEW S, NEW c \in Seq(S), NEW k \in 0 .. Len(c), NEW i \in 0 .. k
    PROVE  Prefix(Prefix(c, k), i) = Prefix(c, i)
  <1> DEFINE p == SubSeq(c, 1, k)
  <1>1. k \in Nat /\ k <= Len(c) /\ i \in Nat /\ i <= k /\ i <= Len(c)
    OBVIOUS
  <1>2. p \in Seq(S) /\ Len(p) = k /\ \A n \in 1 .. k : p[n] = c[n]
    <2>1. /\ p \in Seq(S) /\ Len(p) = IF 1 <= k THEN k - 1 + 1 ELSE 0
          /\ \A n \in 1 .. k - 1 + 1 : p[n] = c[1 + n - 1]
      BY <1>1, Slice
    <2> QED BY <1>1, <2>1
  <1> HIDE DEF p
  <1>3. /\ SubSeq(p, 1, i) \in Seq(S) /\ Len(SubSeq(p, 1, i)) = i
        /\ \A n \in 1 .. i : SubSeq(p, 1, i)[n] = p[n]
    <2>1. /\ SubSeq(p, 1, i) \in Seq(S) /\ Len(SubSeq(p, 1, i)) = IF 1 <= i THEN i - 1 + 1 ELSE 0
          /\ \A n \in 1 .. i - 1 + 1 : SubSeq(p, 1, i)[n] = p[1 + n - 1]
      BY <1>1, <1>2, Slice
    <2> QED BY <1>1, <2>1
  <1>4. /\ SubSeq(c, 1, i) \in Seq(S) /\ Len(SubSeq(c, 1, i)) = i
        /\ \A n \in 1 .. i : SubSeq(c, 1, i)[n] = c[n]
    <2>1. /\ SubSeq(c, 1, i) \in Seq(S) /\ Len(SubSeq(c, 1, i)) = IF 1 <= i THEN i - 1 + 1 ELSE 0
          /\ \A n \in 1 .. i - 1 + 1 : SubSeq(c, 1, i)[n] = c[1 + n - 1]
      BY <1>1, Slice
    <2> QED BY <1>1, <2>1
  <1>5. \A n \in 1 .. i : SubSeq(p, 1, i)[n] = SubSeq(c, 1, i)[n]
    BY <1>1, <1>2, <1>3, <1>4
  <1>6. SubSeq(p, 1, i) = SubSeq(c, 1, i)
    BY <1>3, <1>4, <1>5, SeqEqual
  <1> QED BY <1>6 DEF Prefix, p

\* A cache that holds a context holds what another one shares with it.
LEMMA KeptPrefix ==
    ASSUME NEW buf, NEW stride \in Nat, NEW c \in Seq(Token), NEW d \in Seq(Token),
           NEW m \in Nat, NEW k \in Nat, Kept(buf, stride, c, m),
           k <= m, k <= Len(c), k <= Len(d), Prefix(c, k) = Prefix(d, k)
    PROVE  Kept(buf, stride, d, k)
  <1>1. k <= stride
    BY DEF Kept
  <1>2. ASSUME NEW r \in Row, NEW i \in 0 .. k - 1
        PROVE  buf[r * stride + i] = Entry(r, Prefix(d, i + 1))
    <2>1. i + 1 \in 0 .. k /\ k \in 0 .. Len(c) /\ k \in 0 .. Len(d) /\ i \in 0 .. m - 1
      OBVIOUS
    <2>2. buf[r * stride + i] = Entry(r, Prefix(c, i + 1))
      BY <2>1 DEF Kept
    <2>3. Prefix(Prefix(c, k), i + 1) = Prefix(c, i + 1)
      BY <2>1, PrefixOfPrefix
    <2>4. Prefix(Prefix(d, k), i + 1) = Prefix(d, i + 1)
      BY <2>1, PrefixOfPrefix
    <2> QED BY <2>2, <2>3, <2>4
  <1> QED BY <1>1, <1>2 DEF Kept

\* An empty context needs no cache.
LEMMA KeptNothing ==
    ASSUME NEW buf, NEW stride \in Nat, NEW c
    PROVE  Kept(buf, stride, c, 0)
  BY DEF Kept

\* Where the entries of a row live.
LEMMA CellInBuffer ==
    ASSUME NEW stride \in Strides, NEW r \in Row, NEW i \in 0 .. stride - 1
    PROVE  r * stride + i \in Addr
  <1> DEFINE max == DecodeKV(NumCL)
  <1>1. max \in Nat /\ Rows \in Nat
    <2>1. NumCL \in 1 .. NumCL
      BY ModelAssumption, EmptySeq DEF NumCL
    <2> QED BY <2>1, StrideFacts, ModelAssumption
  <1>2. stride \in 0 .. max /\ r \in 0 .. Rows - 1
    BY DEF Strides, Row
  <1> HIDE DEF max
  <1>3. r * stride + i \in 0 .. Rows * max - 1
    BY <1>1, <1>2, CellInTensor
  <1> QED BY <1>3 DEF Addr, max

\* Restriding that cuts nothing off moves every entry to its new place.
LEMMA KeptRestride ==
    ASSUME NEW k, NEW s \in KVShards, DOMAIN k[s] = Addr,
           NEW old \in Strides, NEW new \in Strides, NEW m \in Nat, Loses(old, new, m) = {},
           NEW c, Kept(k[s], old, c, m)
    PROVE  Kept(RestrideAll(k, old, new, m)[s], new, c, m)
  <1> DEFINE b == Restride(k[s], Rows, old, new, m, Zero)
  <1>1. RestrideAll(k, old, new, m)[s] = b
    BY DEF RestrideAll
  <1>2. CASE old = new
    BY <1>1, <1>2 DEF Restride
  <1>3. CASE old # new
    <2>1. old \in Nat \ {0} /\ new \in Nat \ {0} /\ Rows \in Nat
      BY ModelAssumption DEF Strides
    <2>2. ~ (CopyLen(old, new, m) < m)
      BY <1>3 DEF Loses
    <2>3. CopyLen(old, new, m) = m /\ m <= new
      BY <2>1, <2>2 DEF CopyLen, Min2
    <2>4. ASSUME NEW r \in Row, NEW i \in 0 .. m - 1
          PROVE  b[r * new + i] = Entry(r, Prefix(c, i + 1))
      <3>1. r * new + i \in DOMAIN k[s]
        BY <2>1, <2>3, CellInBuffer
      <3>2. r \in 0 .. Rows - 1 /\ i \in 0 .. CopyLen(old, new, m) - 1
        BY <2>3 DEF Row
      <3> HIDE DEF b
      <3>3. Restride(k[s], Rows, old, new, m, Zero)[r * new + i] = k[s][r * old + i]
        <4>1. Moved(k[s], Restride(k[s], Rows, old, new, m, Zero), Rows, old, new, CopyLen(old, new, m))
          BY <2>1, RestrideCells, Zenon
        <4> QED BY <3>1, <3>2, <4>1 DEF Moved
      <3> QED BY <3>3 DEF Kept, b
    <2> QED BY <1>1, <2>3, <2>4 DEF Kept
  <1> QED BY <1>2, <1>3

\* updateKV appends the entries just computed to what the cache holds.
LEMMA KeptUpdate ==
    ASSUME NEW s \in KVShards, s \in DOMAIN kv, DOMAIN kv[s] = Addr, NEW stride \in Strides,
           NEW off \in Nat, NEW n \in Nat, NEW c \in Seq(Token), Len(c) = off + n,
           Overruns(stride, off, n) = {}, Kept(kv[s], stride, c, off)
    PROVE  Kept(UpdateKV(s, stride, off, n, c)[s], stride, c, Len(c))
  <1> DEFINE src == [p \in Row \X (0 .. n - 1) |->
                       IF c = Junk THEN Junk ELSE Entry(p[1], Prefix(c, Len(c) - n + p[2] + 1))]
             b == CopyTokens(kv[s], Rows, stride, off, n, src)
  <1>1. UpdateKV(s, stride, off, n, c)[s] = b
    BY DEF UpdateKV
  <1>2. FitsRow(stride, off, n) /\ off + n <= stride
    BY DEF Overruns, FitsRow
  <1>3. stride \in Nat \ {0} /\ Rows \in Nat /\ c # Junk
    BY ModelAssumption DEF Strides
  <1>4. ASSUME NEW r \in Row, NEW i \in 0 .. Len(c) - 1
        PROVE  b[r * stride + i] = Entry(r, Prefix(c, i + 1))
    <2>1. i \in 0 .. stride - 1 /\ r \in 0 .. Rows - 1
      BY <1>2, <1>3 DEF Row
    <2>2. r * stride + i \in DOMAIN kv[s]
      BY <2>1, CellInBuffer
    <2>3. b[r * stride + i] = IF off <= i /\ i < off + n THEN src[r, i - off] ELSE kv[s][r * stride + i]
      <3> HIDE DEF src
      <3>1. Copied(kv[s], CopyTokens(kv[s], Rows, stride, off, n, src), Rows, stride, off, n, src)
        BY <1>2, <1>3, CopyCells, Zenon
      <3> QED BY <2>1, <2>2, <3>1 DEF Copied
    <2>4. CASE off <= i
      <3>1. <<r, i - off>> \in Row \X (0 .. n - 1) /\ Len(c) - n + (i - off) + 1 = i + 1 /\ i < off + n
        BY <2>4
      <3>2. src[r, i - off] = Entry(r, Prefix(c, Len(c) - n + (i - off) + 1))
        BY <1>3, <3>1
      <3> HIDE DEF src, b
      <3> QED BY <2>3, <2>4, <3>1, <3>2
    <2>5. CASE ~ (off <= i)
      <3> HIDE DEF src, b
      <3>1. i \in 0 .. off - 1
        BY <2>5
      <3> QED BY <2>3, <2>5, <3>1 DEF Kept
    <2> QED BY <2>4, <2>5
  <1> HIDE DEF b
  <1> QED BY <1>1, <1>2, <1>4 DEF Kept

LEMMA UpdateElsewhere ==
    ASSUME NEW s, NEW stride, NEW off, NEW n, NEW c, NEW t \in KVShards, t # s, t \in DOMAIN kv
    PROVE  UpdateKV(s, stride, off, n, c)[t] = kv[t]
  BY DEF UpdateKV
-----------------------------------------------------------------------------
(* The shapes, the variants and the jobs in every step.                    *)

LEMMA RestrideShape ==
    ASSUME NEW k, NEW old, NEW new, NEW m, \A s \in KVShards : DOMAIN k[s] = Addr
    PROVE  /\ DOMAIN RestrideAll(k, old, new, m) = KVShards
           /\ \A s \in KVShards : DOMAIN RestrideAll(k, old, new, m)[s] = Addr
  <1>1. ASSUME NEW s \in KVShards PROVE DOMAIN Restride(k[s], Rows, old, new, m, Zero) = Addr
    BY DEF Restride
  <1> QED BY <1>1 DEF RestrideAll

LEMMA PromotedShape ==
    ASSUME Shapes, NEW required, NEW reserved, NEW stride_reserved
    PROVE  /\ DOMAIN PromotedKV(required, reserved, stride_reserved) = KVShards
           /\ \A s \in KVShards : DOMAIN PromotedKV(required, reserved, stride_reserved)[s] = Addr
  BY RestrideShape DEF PromotedKV, Shapes, Shaped

LEMMA UpdateShape ==
    ASSUME Shapes, NEW s, NEW stride, NEW off, NEW n, NEW c
    PROVE  /\ DOMAIN UpdateKV(s, stride, off, n, c) = KVShards
           /\ \A t \in KVShards : DOMAIN UpdateKV(s, stride, off, n, c)[t] = Addr
  <1> DEFINE src == [p \in Row \X (0 .. n - 1) |->
                       IF c = Junk THEN Junk ELSE Entry(p[1], Prefix(c, Len(c) - n + p[2] + 1))]
             b == CopyTokens(kv[s], Rows, stride, off, n, src)
  <1>1. CASE s \notin KVShards
    BY <1>1 DEF UpdateKV, Shapes, Shaped
  <1>2. CASE s \in KVShards
    <2>1. UpdateKV(s, stride, off, n, c) = [kv EXCEPT ![s] = b]
      BY <1>2 DEF UpdateKV, Shapes, Shaped
    <2>2. DOMAIN b = Addr
      BY <1>2 DEF CopyTokens, Shapes, Shaped
    <2> HIDE DEF b
    <2> QED BY <1>2, <2>1, <2>2 DEF Shapes, Shaped
  <1> QED BY <1>1, <1>2

LEMMA LeaveShape ==
    ASSUME Shapes, Leave, Shaped(kv')
    PROVE  Shapes'
  BY ContextConstants DEF Leave, Shapes, Shaped

LEMMA ShapesStep ==
    ASSUME Shapes, [Next]_vars
    PROVE  Shapes'
  <1> USE DEF model, locals, chunkv
  <1>0. Shaped(kv)
    BY DEF Shapes, Shaped
  <1>1. ASSUME UNCHANGED <<out, shard>>, Shaped(kv') PROVE Shapes'
    BY <1>1 DEF Shapes, Shaped
  <1>2. ASSUME NEW k, NEW old, NEW new, NEW m, Shaped(k) PROVE Shaped(RestrideAll(k, old, new, m))
    BY <1>2, RestrideShape DEF Shaped
  <1>3. ASSUME NEW n_fit, NEW at_decode_stride, NEW g, Evict(n_fit, at_decode_stride, g), out' = out
        PROVE  Shapes'
    BY <1>0, <1>1, <1>2, <1>3 DEF Evict, EvictTo, Prefill
  <1>4. CASE FitPrompt
    <2>1. CASE Prefill(req.prompt, "prompt") /\ UNCHANGED <<model, kv, out, locals, logits, damage>>
      BY <1>0, <1>1, <2>1 DEF Prefill
    <2>2. CASE Leave /\ UNCHANGED <<model, kv, damage>>
      BY <1>0, <2>2, LeaveShape
    <2> QED BY <1>3, <1>4, <2>1, <2>2 DEF FitPrompt
  <1>5. CASE PromptEvicted
    <2>0. kv' = kv
      BY <1>5 DEF PromptEvicted
    <2>1. CASE Prefill(req.prompt, "prompt") /\ UNCHANGED <<out, locals, logits>>
      BY <1>0, <1>1, <2>0, <2>1 DEF Prefill
    <2>2. CASE Leave
      BY <1>0, <2>0, <2>2, LeaveShape
    <2> QED BY <1>5, <2>1, <2>2 DEF PromptEvicted
  <1>6. CASE BeginChunk \/ DecodePromote
    <2>1. Shaped(kv') /\ out' = out /\ shard' = 1
      BY <1>6, PromotedShape DEF BeginChunk, DecodePromote, Shaped
    <2> QED BY <2>1, ContextConstants DEF Shapes, Shaped
  <1>7. CASE PrefillShard
    <2>1. Shaped(kv') /\ out' = out /\ (shard' = 1 \/ (shard < NumShards /\ shard' = shard + 1))
      BY <1>0, <1>7, UpdateShape DEF PrefillShard, Shaped
    <2>2. shard' \in Shard
      BY <2>1, ContextConstants DEF Shapes, Shard
    <2> QED BY <2>1, <2>2 DEF Shapes, Shaped
  <1>8. CASE PrefillFails \/ CallbackThrows \/ DecodeFails
    BY <1>0, <1>8, LeaveShape DEF PrefillFails, CallbackThrows, DecodeFails, Abandon
  <1>9. CASE PromptDone
    BY <1>0, <1>1, <1>2, <1>9 DEF PromptDone
  <1>10. CASE DecodeTop
    BY <1>0, <1>1, <1>10 DEF DecodeTop
  <1>11. CASE DecodeBarrier
    <2>1. CASE UNCHANGED <<model, kv, out, locals, chunkv, logits, damage, jobs, keeper, file>>
      BY <1>0, <1>1, <2>1
    <2>2. CASE Abandon
      BY <1>0, <2>2, LeaveShape DEF Abandon
    <2> QED BY <1>3, <1>11, <2>1, <2>2 DEF DecodeBarrier
  <1>12. CASE DecodeEvicted
    <2>1. Shaped(kv')
      BY <1>0, <1>2, <1>12 DEF DecodeEvicted
    <2>2. CASE UNCHANGED <<out, locals, chunkv, logits>>
      BY <1>1, <2>1, <2>2
    <2>3. CASE Leave
      BY <2>1, <2>3, LeaveShape
    <2> QED BY <1>12, <2>2, <2>3 DEF DecodeEvicted
  <1>13. CASE DecodeShard
    <2>1. /\ Shaped(kv') /\ DOMAIN out' = Shard
          /\ (shard' = 1 \/ (shard < NumShards /\ shard' = shard + 1))
      BY <1>0, <1>13, UpdateShape DEF DecodeShard, Shaped, Shapes
    <2>2. shard' \in Shard
      BY <2>1, ContextConstants DEF Shapes, Shard
    <2> QED BY <2>1, <2>2 DEF Shapes, Shaped
  <1>14. CASE Finish
    <2>1. Shaped(PromotedKV(n_past, SeqLenPrefill, SeqLenDecode))
      BY PromotedShape DEF Shaped
    <2>2. Shaped(kv') /\ Leave
      BY <1>2, <1>14, <2>1 DEF Finish
    <2> QED BY <2>2, LeaveShape
  <1>15. ASSUME NEW j \in jobs, RunJob(j) PROVE Shapes'
    <2>1. Shaped(kv') /\ UNCHANGED <<out, shard>>
      BY <1>15, UpdateShape DEF RunJob, Shaped
    <2> QED BY <1>1, <2>1
  <1>16. CASE ResetKVCache \/ LoadKVCacheFromFile
    <2>1. Shaped(kv') /\ UNCHANGED <<out, shard>>
      BY <1>16 DEF ResetKVCache, LoadKVCacheFromFile, Shaped
    <2> QED BY <1>1, <2>1
  <1>17. CASE SaveKVCacheToFile \/ UNCHANGED vars
    BY <1>0, <1>1, <1>17 DEF SaveKVCacheToFile, vars
  <1>18. ASSUME NEW r \in Request, Generate(r) PROVE Shapes'
    BY <1>0, <1>1, <1>18 DEF Generate
  <1> QED BY <1>4, <1>5, <1>6, <1>7, <1>8, <1>9, <1>10, <1>11, <1>12, <1>13, <1>14, <1>15, <1>16,
             <1>17, <1>18 DEF Next, GenerateStep

\* What a decode step may have left in flight is forgotten by no one.
LEMMA JobsStayKnown ==
    ASSUME [Next]_vars, ~ResetKVCache, ~LoadKVCacheFromFile, "inflight" \in damage
    PROVE  "inflight" \in damage'
  <1> USE DEF Leave, Evict, EvictTo, Abandon
  <1>1. CASE FitPrompt \/ PromptEvicted \/ BeginChunk \/ PrefillShard \/ PrefillFails \/ PromptDone
    BY <1>1 DEF FitPrompt, PromptEvicted, BeginChunk, PrefillShard, PrefillFails, PromptDone
  <1>2. CASE DecodeTop \/ CallbackThrows \/ DecodeBarrier \/ DecodeEvicted \/ DecodePromote
    BY <1>2 DEF DecodeTop, CallbackThrows, DecodeBarrier, DecodeEvicted, DecodePromote
  <1>3. CASE DecodeShard \/ DecodeFails \/ Finish
    BY <1>3 DEF DecodeShard, DecodeFails, Finish
  <1>4. ASSUME NEW j \in jobs, RunJob(j) PROVE "inflight" \in damage'
    BY <1>4 DEF RunJob
  <1>5. CASE SaveKVCacheToFile \/ UNCHANGED vars
    BY <1>5 DEF SaveKVCacheToFile, vars
  <1>6. ASSUME NEW r \in Request, Generate(r) PROVE "inflight" \in damage'
    BY <1>6 DEF Generate
  <1> QED BY <1>1, <1>2, <1>3, <1>4, <1>5, <1>6 DEF Next, GenerateStep

\* promoteCL, and a file, only ever name variants there are.
LEMMA VariantsStep ==
    ASSUME ContextSound, Variants, [Next]_vars
    PROVE  Variants'
  <1> USE DEF model, locals, chunkv
  <1>1. CASE ResetKVCache
    <2>1. 1 \in 1 .. NumCL
      BY ModelAssumption, EmptySeq DEF NumCL
    <2> QED BY <1>1, <2>1 DEF ResetKVCache, Variants, SoundFile
  <1>2. CASE LoadKVCacheFromFile
    <2>1. ASSUME "badload" \notin damage' PROVE active_cl' \in 1 .. NumCL
      <3>1. SoundFile
        BY <1>2, <2>1 DEF LoadKVCacheFromFile, SoundFile
      <3> QED BY <1>2, <3>1 DEF LoadKVCacheFromFile, SoundFile, AllParts, Variants
    <2> QED BY <1>2, <2>1 DEF LoadKVCacheFromFile, Variants, SoundFile
  <1>3. CASE SaveKVCacheToFile
    <2>1. PICK parts : file' = Image(parts)
      BY <1>3 DEF SaveKVCacheToFile
    <2>2. file'.active_cl = active_cl /\ file'.damage = damage
      BY <2>1 DEF Image
    <2> QED BY <1>3, <2>2 DEF SaveKVCacheToFile, Variants, SoundFile
  <1>4. CASE ~ResetKVCache /\ ~LoadKVCacheFromFile /\ ~SaveKVCacheToFile
    <2>1. file' = file /\ ("badload" \in damage' <=> "badload" \in damage)
      BY <1>4, FileStays, ShortFileStays
    <2>2. SUFFICES ASSUME ContextInv, active_cl \in 1 .. NumCL PROVE active_cl' \in 1 .. NumCL
      BY <2>1 DEF Variants, SoundFile, ContextSound
    <2>3. ASSUME NEW required \in Nat, NEW reserved \in {SeqLenPrefill, SeqLenDecode}
          PROVE  PromotedCL(required, reserved) \in 1 .. NumCL
      <3>1. PromotedCL(required, reserved) \in active_cl .. NumCL
        BY <2>2, <2>3, PromotedFacts, ModelAssumption
      <3> QED BY <2>2, <3>1
    <2>4. CASE BeginChunk
      <3>1. ChunkRequires \in Nat
        BY <2>2, ChunkFacts DEF ContextInv, ContextTypes, ChunkRequires
      <3> QED BY <2>3, <2>4, <3>1 DEF BeginChunk
    <2>5. CASE DecodePromote
      <3>1. n_past + 1 \in Nat
        BY <2>2 DEF ContextInv, ContextTypes
      <3> QED BY <2>3, <2>5, <3>1 DEF DecodePromote
    <2>6. CASE Finish
      <3>1. n_past \in Nat
        BY <2>2 DEF ContextInv, ContextTypes
      <3> QED BY <2>3, <2>6, <3>1 DEF Finish
    <2>7. CASE FitPrompt \/ PromptEvicted \/ PrefillShard \/ PrefillFails \/ PromptDone
      BY <2>2, <2>7 DEF FitPrompt, PromptEvicted, PrefillShard, PrefillFails, PromptDone, Evict, EvictTo
    <2>8. CASE DecodeTop \/ CallbackThrows \/ DecodeBarrier \/ DecodeEvicted
      BY <2>2, <2>8 DEF DecodeTop, CallbackThrows, DecodeBarrier, DecodeEvicted, Abandon, Evict, EvictTo
    <2>9. CASE DecodeShard \/ DecodeFails
      BY <2>2, <2>9 DEF DecodeShard, DecodeFails, Abandon
    <2>10. ASSUME NEW j \in jobs, RunJob(j) PROVE active_cl' \in 1 .. NumCL
      BY <2>2, <2>10 DEF RunJob
    <2>11. ASSUME NEW r \in Request, Generate(r) PROVE active_cl' \in 1 .. NumCL
      BY <2>2, <2>11 DEF Generate
    <2>12. CASE UNCHANGED vars
      BY <2>2, <2>12 DEF vars
    <2> QED BY <1>4, <2>4, <2>5, <2>6, <2>7, <2>8, <2>9, <2>10, <2>11, <2>12 DEF Next, GenerateStep
  <1> QED BY <1>1, <1>2, <1>3, <1>4

\* Jobs outlive the decode loop only where an exception left it.
LEMMA QuietStep ==
    ASSUME QuietInv, [Next]_vars
    PROVE  QuietInv'
  <1> USE DEF model, locals, chunkv
  <1> SUFFICES ASSUME "inflight" \notin damage', Quiet' PROVE jobs' = {}
    BY DEF QuietInv
  <1>1. CASE ResetKVCache \/ LoadKVCacheFromFile
    BY <1>1 DEF ResetKVCache, LoadKVCacheFromFile
  <1>2. CASE ~ResetKVCache /\ ~LoadKVCacheFromFile
    <2>1. "inflight" \notin damage
      BY <1>2, JobsStayKnown
    <2>2. Quiet => jobs = {}
      BY <2>1 DEF QuietInv
    <2>3. CASE FitPrompt \/ PromptEvicted \/ BeginChunk \/ PrefillShard \/ PrefillFails
      BY <2>2, <2>3 DEF FitPrompt, PromptEvicted, BeginChunk, PrefillShard, PrefillFails, Quiet
    <2>4. CASE PromptDone \/ DecodeTop \/ DecodePromote
      BY <2>4 DEF PromptDone, DecodeTop, DecodePromote, Quiet
    <2>5. CASE CallbackThrows \/ DecodeFails
      BY <2>5 DEF CallbackThrows, DecodeFails, Abandon
    <2>6. CASE DecodeBarrier
      BY <2>6 DEF DecodeBarrier, PoolWait, Abandon
    <2>7. CASE DecodeEvicted
      BY <2>2, <2>7 DEF DecodeEvicted, Quiet
    <2>8. CASE DecodeShard
      BY <2>8 DEF DecodeShard, Quiet
    <2>9. CASE Finish
      BY <2>9 DEF Finish, PoolWait
    <2>10. ASSUME NEW j \in jobs, RunJob(j) PROVE jobs' = {}
      BY <2>2, <2>10 DEF RunJob, Quiet
    <2>11. CASE SaveKVCacheToFile \/ UNCHANGED vars
      BY <2>2, <2>11 DEF SaveKVCacheToFile, vars, Quiet
    <2>12. ASSUME NEW r \in Request, Generate(r) PROVE jobs' = {}
      BY <2>2, <2>12 DEF Generate, Quiet
    <2> QED BY <1>2, <2>3, <2>4, <2>5, <2>6, <2>7, <2>8, <2>9, <2>10, <2>11, <2>12 DEF Next, GenerateStep
  <1> QED BY <1>1, <1>2
-----------------------------------------------------------------------------
(* What an undamaged step leaves in the caches.                            *)

\* Where the steps start from.
Trusted ==
    /\ ContextInv /\ Shapes /\ active_cl \in 1 .. NumCL
    /\ damage = {} => PrefillSound /\ DecodeSound /\ (Quiet => jobs = {})

LEMMA TrustedFacts ==
    ASSUME Trusted
    PROVE  /\ n_past \in Nat /\ token_history \in Seq(Token) /\ Len(token_history) = n_past
           /\ PrefillKV(active_cl) \in Strides /\ DecodeKV(active_cl) \in Strides
           /\ PrefillKV(active_cl) \in Nat /\ DecodeKV(active_cl) \in Nat
           /\ DOMAIN kv = KVShards /\ \A s \in KVShards : DOMAIN kv[s] = Addr
  BY StrideTypes, StrideFacts
    DEF Trusted, ContextInv, ContextTypes, HistoryMatches, Shapes, Shaped

\* Places at which only the prefill layout matters.
LEMMA PrefillPlace ==
    ASSUME pc' \in {"idle", "fit", "chunk"}, CacheKept(PrefillKV(active_cl))',
           (pc' = "chunk" /\ goal' = "prompt" /\ todo' = <<>>) => logits' = token_history'
    PROVE  (PrefillSound /\ DecodeSound)'
  BY DEF PrefillSound, DecodeSound

LEMMA PromotePlace ==
    ASSUME pc' = "promote", CacheKept(DecodeKV(active_cl))'
    PROVE  (PrefillSound /\ DecodeSound)'
  BY DEF PrefillSound, DecodeSound

\* With no job in flight, what is written is what is kept.
LEMMA NothingPending ==
    ASSUME ContextInv, jobs = {}
    PROVE  (\A s \in KVShards : Written(s, token_history)) <=> CacheKept(DecodeKV(active_cl))
  BY DEF Written, Pending, CacheKept, ContextInv, HistoryMatches

\* slideWindowEvict up to its re-prefill: the anchored prefix is all that is relied on.
LEMMA EvictKept ==
    ASSUME Trusted, pc # "idle", NEW n_fit \in Nat, CanSlide(n_fit),
           NEW at_decode_stride \in BOOLEAN, NEW g, Evict(n_fit, at_decode_stride, g), damage' = {},
           damage = {} => CacheKept(IF at_decode_stride THEN DecodeKV(active_cl) ELSE PrefillKV(active_cl))
    PROVE  CacheKept(PrefillKV(active_cl))'
  <1> DEFINE h == token_history
             k == req.n_keep
             kept == Prefix(h, k)
             old == DecodeKV(active_cl)
             new == PrefillKV(active_cl)
  <1>1. /\ k \in Nat /\ k < n_past /\ kept \in Seq(Token) /\ Len(kept) = k
    BY EvictFacts, RequestFacts DEF Trusted, ContextInv
  <1>2. /\ n_past' = k /\ token_history' = kept /\ active_cl' = active_cl
        /\ kv' = IF at_decode_stride THEN RestrideAll(kv, old, new, k) ELSE kv
        /\ damage' = IF k = 0 THEN damage \cap {"inflight", "badload"}
                     ELSE damage \cup (IF at_decode_stride THEN Loses(old, new, k) ELSE {})
    BY DEF Evict, EvictTo
  <1>3. /\ n_past \in Nat /\ h \in Seq(Token) /\ Len(h) = n_past
        /\ old \in Strides /\ new \in Strides /\ old \in Nat /\ new \in Nat
        /\ DOMAIN kv = KVShards /\ \A s \in KVShards : DOMAIN kv[s] = Addr
    BY TrustedFacts
  <1>4. Prefix(kept, k) = kept
    <2>1. k \in 0 .. Len(h) /\ k \in 0 .. k
      BY <1>1, <1>3
    <2> QED BY <1>3, <2>1, PrefixOfPrefix
  <1> SUFFICES ASSUME NEW s \in KVShards PROVE Kept(kv'[s], new, kept, k)
    BY <1>2 DEF CacheKept
  <1>5. CASE k = 0
    <2> HIDE DEF k, kept, old, new
    <2> QED BY <1>3, <1>5, KeptNothing
  <1>6. CASE k # 0 /\ ~at_decode_stride
    <2>1. Kept(kv[s], new, h, n_past) /\ kv' = kv
      BY <1>2, <1>6 DEF CacheKept
    <2> HIDE DEF k, kept, old, new, h
    <2> QED BY <1>1, <1>3, <1>4, <2>1, KeptPrefix DEF kept
  <1>7. CASE k # 0 /\ at_decode_stride
    <2>1. Kept(kv[s], old, h, n_past) /\ kv' = RestrideAll(kv, old, new, k) /\ Loses(old, new, k) = {}
      BY <1>2, <1>7 DEF CacheKept
    <2> HIDE DEF k, kept, old, new, h
    <2>2. Kept(kv[s], old, kept, k)
      BY <1>1, <1>3, <1>4, <2>1, KeptPrefix DEF kept
    <2> QED BY <1>1, <1>3, <2>1, <2>2, KeptRestride
  <1> QED BY <1>5, <1>6, <1>7

\* promoteCL that cuts nothing off.
LEMMA KeptPromote ==
    ASSUME Trusted, NEW required \in Nat, NEW reserved \in {SeqLenPrefill, SeqLenDecode},
           NEW stride_reserved \in {SeqLenPrefill, SeqLenDecode},
           PromoteLoses(required, reserved, stride_reserved) = {},
           CacheKept(ContextLengths[active_cl] - stride_reserved)
    PROVE  \A s \in KVShards :
             Kept(PromotedKV(required, reserved, stride_reserved)[s],
                  ContextLengths[PromotedCL(required, reserved)] - stride_reserved,
                  token_history, n_past)
  <1> DEFINE cl == PromotedCL(required, reserved)
             old == ContextLengths[active_cl] - stride_reserved
             new == ContextLengths[cl] - stride_reserved
  <1>1. cl \in 1 .. NumCL
    <2>1. cl \in active_cl .. NumCL
      BY PromotedFacts, ModelAssumption DEF Trusted
    <2> QED BY <2>1 DEF Trusted
  <1>2. old \in Strides /\ new \in Strides
    <2> HIDE DEF cl
    <2> QED BY <1>1, StrideTypes DEF PrefillKV, DecodeKV, Trusted
  <1>3. /\ n_past \in Nat /\ \A s \in KVShards : DOMAIN kv[s] = Addr
    BY TrustedFacts
  <1>4. \A s \in KVShards : Kept(kv[s], old, token_history, n_past)
    BY DEF CacheKept
  <1>5. CASE cl = active_cl
    BY <1>4, <1>5 DEF PromotedKV
  <1>6. CASE cl # active_cl
    <2>1. /\ PromotedKV(required, reserved, stride_reserved) = RestrideAll(kv, old, new, n_past)
          /\ Loses(old, new, n_past) = {}
      BY <1>6 DEF PromotedKV, PromoteLoses
    <2> SUFFICES ASSUME NEW s \in KVShards
                 PROVE  Kept(RestrideAll(kv, old, new, n_past)[s], new, token_history, n_past)
      BY <2>1
    <2> HIDE DEF old, new
    <2> QED BY <1>2, <1>3, <1>4, <2>1, KeptRestride
  <1> QED BY <1>5, <1>6

\* The cache as a shard of the chunk finds it: the shard sees the whole context.
LEMMA PrefillShardSees ==
    ASSUME Trusted, damage = {}, pc = "shard"
    PROVE  ShardOut(shard, PrefillKV(active_cl)) = NewContext
  <1>1. act = NewContext /\ NewContext \in Seq(Token) /\ Len(NewContext) = n_past + Len(Chunk)
        /\ Prefix(NewContext, n_past) = token_history /\ n_past \in Nat /\ Len(Chunk) \in Nat
    BY NewContextFacts, ChunkFacts, TrustedFacts DEF Trusted, PrefillSound, ContextInv
  <1>2. act # Junk /\ Len(act) >= n_past
    BY <1>1, ModelAssumption
  <1>3. ASSUME shard \in KVShards
        PROVE  CacheHolds(shard, PrefillKV(active_cl), Prefix(act, n_past))
    <2>1. ~ (shard < shard)
      BY <1>3, ModelAssumption
    <2>2. Kept(kv[shard], PrefillKV(active_cl), token_history, n_past)
      BY <1>3, <2>1 DEF Trusted, PrefillSound
    <2> QED BY <1>1, <2>2 DEF CacheHolds, Kept
  <1> QED BY <1>1, <1>2, <1>3 DEF ShardOut

LEMMA PrefillShardKept ==
    ASSUME Trusted, PrefillShard, damage' = {}
    PROVE  (PrefillSound /\ DecodeSound)'
  <1> DEFINE stride == PrefillKV(active_cl)
             n == Len(Chunk)
             skip == ~FinalChunk /\ shard \in LmHeadOnly
             updated == UpdateKV(shard, stride, n_past, n, NewContext)
  <1>1. /\ pc = "shard" /\ damage = {}
        /\ shard \in KVShards => Overruns(stride, n_past, n) = {}
    BY DEF PrefillShard
  <1>2. ShardOut(shard, stride) = NewContext
    BY <1>1, PrefillShardSees
  <1>3. /\ act = NewContext
        /\ \A s \in KVShards :
             IF s < shard THEN Kept(kv[s], stride, NewContext, Len(NewContext))
             ELSE Kept(kv[s], stride, token_history, n_past)
    BY <1>1 DEF Trusted, PrefillSound
  <1>4. /\ NewContext \in Seq(Token) /\ Len(NewContext) = n_past + n
        /\ Prefix(NewContext, n_past) = token_history /\ n \in Nat /\ n_past \in Nat
        /\ stride \in Strides /\ stride \in Nat /\ shard \in Shard
        /\ token_history \in Seq(Token) /\ Len(token_history) = n_past
        /\ DOMAIN kv = KVShards /\ \A s \in KVShards : DOMAIN kv[s] = Addr
    BY NewContextFacts, ChunkFacts, TrustedFacts DEF Trusted, Shapes, ContextInv
  <1>5. /\ act' = NewContext
        /\ kv' = IF skip THEN kv ELSE updated
        /\ \/ /\ shard < NumShards /\ shard' = shard + 1
              /\ UNCHANGED <<pc, n_past, token_history, todo>>
           \/ /\ ~ (shard < NumShards)
              /\ pc' = "chunk" /\ logits' = IF skip THEN logits ELSE NewContext
              /\ n_past' = n_past + n /\ token_history' = NewContext
              /\ todo' = SubSeq(todo, n + 1, Len(todo))
        /\ UNCHANGED active_cl
    BY <1>2, <1>3 DEF PrefillShard, NewContext
  <1>6. \A s \in KVShards : s \in Nat /\ s <= NumShards /\ s \in Shard
    BY ModelAssumption DEF Shard
  <1>7. skip => shard \notin KVShards
    BY ModelAssumption
  <1>8. ASSUME NEW s \in KVShards
        PROVE  IF s < shard + 1 THEN Kept(kv'[s], stride, NewContext, Len(NewContext))
               ELSE Kept(kv'[s], stride, token_history, n_past)
    <2>1. CASE s # shard
      <3>1. kv'[s] = kv[s]
        <4> HIDE DEF stride, n
        <4>1. updated[s] = kv[s]
          BY <1>4, <2>1, UpdateElsewhere
        <4> QED BY <1>5, <4>1
      <3>2. s < shard + 1 <=> s < shard
        BY <1>4, <1>6, <2>1 DEF Shard
      <3> QED BY <1>3, <3>1, <3>2
    <2>2. CASE s = shard
      <3>1. ~ (shard < shard) /\ s < shard + 1
        BY <1>4, <2>2 DEF Shard
      <3>2. Kept(kv[shard], stride, token_history, n_past)
        BY <1>3, <2>2, <3>1
      <3>3. Prefix(token_history, n_past) = token_history
        <4>1. \A q \in Seq(Token) : SubSeq(q, 1, Len(q)) = q
          BY SubSeqFull
        <4> QED BY <1>4, <4>1 DEF Prefix
      <3> HIDE DEF stride, n
      <3>4. Kept(kv[shard], stride, NewContext, n_past)
        BY <1>4, <3>2, <3>3, KeptPrefix
      <3>5. Kept(updated[shard], stride, NewContext, Len(NewContext))
        BY <1>1, <1>4, <2>2, <3>4, KeptUpdate
      <3> QED BY <1>5, <1>7, <2>2, <3>1, <3>5
    <2> QED BY <2>1, <2>2
  <1> HIDE DEF stride, n, skip, updated
  <1>9. CASE shard < NumShards /\ shard' = shard + 1 /\ UNCHANGED <<pc, n_past, token_history, todo>>
    <2>1. NewContext' = NewContext /\ pc' = "shard" /\ PrefillKV(active_cl)' = stride
      BY <1>1, <1>5, <1>9 DEF NewContext, Chunk, stride
    <2>2. PrefillSound'
      BY <1>5, <1>8, <1>9, <2>1 DEF PrefillSound
    <2> QED BY <2>1, <2>2 DEF DecodeSound
  <1>10. CASE /\ ~ (shard < NumShards)
              /\ pc' = "chunk" /\ logits' = IF skip THEN logits ELSE NewContext
              /\ n_past' = n_past + n /\ token_history' = NewContext
              /\ todo' = SubSeq(todo, n + 1, Len(todo))
    <2>1. \A s \in KVShards : s < shard + 1
      BY <1>4, <1>6, <1>10, ContextConstants DEF Shard
    <2>2. CacheKept(PrefillKV(active_cl))'
      BY <1>4, <1>5, <1>8, <1>10, <2>1 DEF CacheKept, stride
    <2>3. todo' = <<>> => FinalChunk
      <3>1. todo \in Seq(Token) /\ Len(todo) \in Nat /\ SeqLenPrefill \in Nat
        BY ModelAssumption DEF Trusted, ContextInv, ContextTypes
      <3>2. Len(todo') = Len(todo) - n
        BY <1>10, ChunkFacts DEF n, Trusted, ContextInv
      <3>3. n = Min2(Len(todo), SeqLenPrefill)
        <4> DEFINE m == Min2(Len(todo), SeqLenPrefill)
        <4>1. m \in Nat /\ m <= Len(todo)
          BY <3>1 DEF Min2
        <4> HIDE DEF m
        <4>2. Len(SubSeq(todo, 1, m)) = m
          BY <3>1, <4>1, Slice
        <4> QED BY <4>2 DEF n, Chunk, Prefix, m
      <3>4. todo' = <<>> => Len(todo') = 0
        OBVIOUS
      <3> QED BY <3>1, <3>2, <3>3, <3>4 DEF FinalChunk, Min2
    <2>4. todo' = <<>> => logits' = token_history'
      BY <1>10, <2>3 DEF skip
    <2> QED BY <1>10, <2>2, <2>4, PrefillPlace
  <1> QED BY <1>5, <1>9, <1>10

\* The jobs after a shard has run, and before.
LEMMA DecodeShardSees ==
    ASSUME Trusted, damage = {}, pc = "decode"
    PROVE  ShardOut(shard, DecodeKV(active_cl)) = NextContext
  <1>1. act = NextContext /\ NextContext \in Seq(Token) /\ Len(NextContext) = n_past + 1
        /\ Prefix(NextContext, n_past) = token_history /\ n_past \in Nat
    BY NextContextFacts, TrustedFacts DEF Trusted, DecodeSound, InLoop
  <1>2. act # Junk /\ Len(act) >= n_past
    BY <1>1, ModelAssumption
  <1>3. ASSUME shard \in KVShards
        PROVE  CacheHolds(shard, DecodeKV(active_cl), Prefix(act, n_past))
    <2>1. ~ (shard < shard)
      BY <1>3, ModelAssumption
    <2>2. Kept(kv[shard], DecodeKV(active_cl), token_history, n_past)
      BY <1>3, <2>1 DEF Trusted, DecodeSound
    <2> QED BY <1>1, <2>2 DEF CacheHolds, Kept
  <1> QED BY <1>1, <1>2, <1>3 DEF ShardOut

LEMMA DecodeShardKept ==
    ASSUME Trusted, DecodeShard, damage' = {}
    PROVE  (PrefillSound /\ DecodeSound)'
  <1> DEFINE stride == DecodeKV(active_cl)
             updated == UpdateKV(shard, stride, n_past, 1, NextContext)
             job == [shard |-> shard, off |-> n_past]
  <1>1. /\ pc = "decode" /\ damage = {}
        /\ (shard \in KVShards /\ ~HasPool) => Overruns(stride, n_past, 1) = {}
    BY DEF DecodeShard
  <1>2. ShardOut(shard, stride) = NextContext
    BY <1>1, DecodeShardSees
  <1>3. /\ act = NextContext /\ JobsFor(NextContext) /\ \A j \in jobs : j.shard < shard
        /\ \A s \in KVShards :
             IF s < shard THEN Written(s, NextContext)
             ELSE Kept(kv[s], stride, token_history, n_past)
    BY <1>1 DEF Trusted, DecodeSound
  <1>4. /\ NextContext \in Seq(Token) /\ Len(NextContext) = n_past + 1
        /\ Prefix(NextContext, n_past) = token_history /\ n_past \in Nat
        /\ stride \in Strides /\ stride \in Nat /\ shard \in Shard /\ shard \in Nat
        /\ token_history \in Seq(Token) /\ Len(token_history) = n_past
        /\ DOMAIN out = Shard
        /\ DOMAIN kv = KVShards /\ \A s \in KVShards : DOMAIN kv[s] = Addr
    BY <1>1, NextContextFacts, TrustedFacts DEF Trusted, Shapes, InLoop, Shard
  <1>5. /\ act' = NextContext /\ out' = [out EXCEPT ![shard] = NextContext]
        /\ \/ HasPool /\ jobs' = jobs \cup {job} /\ kv' = kv
           \/ ~HasPool /\ jobs' = jobs /\ kv' = updated
        /\ \/ /\ shard < NumShards /\ shard' = shard + 1
              /\ UNCHANGED <<pc, n_past, token_history, next_token>>
           \/ /\ ~ (shard < NumShards)
              /\ pc' = "top" /\ logits' = NextContext
              /\ n_past' = n_past + 1 /\ token_history' = NextContext
        /\ UNCHANGED active_cl
    BY <1>2, <1>3 DEF DecodeShard, NextContext
  <1>6. \A s \in KVShards : s \in Nat /\ s <= NumShards /\ s \in Shard
    BY ModelAssumption DEF Shard
  <1> DEFINE newJobs == /\ \A j \in jobs' : /\ j \in [shard : Shard, off : Nat]
                                            /\ j.off = Len(NextContext) - 1
                                            /\ out'[j.shard] = NextContext
                        /\ \A j \in jobs' : j.shard < shard + 1
             held(s) == IF [shard |-> s, off |-> n_past] \in jobs' THEN n_past ELSE n_past + 1
  <1>7. newJobs
    <2>1. ASSUME NEW j \in jobs
          PROVE  /\ j \in [shard : Shard, off : Nat] /\ j.off = Len(NextContext) - 1
                 /\ out'[j.shard] = NextContext /\ j.shard < shard + 1
      <3>1. /\ j \in [shard : Shard, off : Nat] /\ j.off = Len(NextContext) - 1
            /\ out[j.shard] = NextContext /\ j.shard < shard /\ j.shard \in Shard
        BY <1>3, <2>1 DEF JobsFor
      <3>2. out'[j.shard] = NextContext
        BY <1>4, <1>5, <3>1
      <3> QED BY <1>4, <3>1, <3>2 DEF Shard
    <2>2. /\ job \in [shard : Shard, off : Nat] /\ job.off = Len(NextContext) - 1
          /\ out'[job.shard] = NextContext /\ job.shard < shard + 1
      BY <1>4, <1>5
    <2> HIDE DEF job
    <2> QED BY <1>5, <2>1, <2>2
  <1>8. ASSUME NEW s \in KVShards
        PROVE  IF s < shard + 1 THEN Kept(kv'[s], stride, NextContext, held(s))
               ELSE Kept(kv'[s], stride, token_history, n_past)
    <2>1. CASE s # shard
      <3>1. kv'[s] = kv[s]
        <4> HIDE DEF stride
        <4>1. updated[s] = kv[s]
          BY <1>4, <2>1, UpdateElsewhere
        <4> QED BY <1>5, <4>1
      <3>2. s < shard + 1 <=> s < shard
        BY <1>4, <1>6, <2>1
      <3>3. [shard |-> s, off |-> n_past] \in jobs' <=> [shard |-> s, off |-> n_past] \in jobs
        BY <1>5, <2>1
      <3>4. Written(s, NextContext) => Kept(kv[s], stride, NextContext, held(s))
        <4>1. Len(NextContext) - 1 = n_past
          BY <1>4
        <4> HIDE DEF stride
        <4> QED BY <1>4, <3>3, <4>1 DEF Written, Pending, stride
      <3> HIDE DEF stride, held
      <3> QED BY <1>3, <3>1, <3>2, <3>4
    <2>2. CASE s = shard
      <3>1. ~ (shard < shard) /\ s < shard + 1
        BY <1>4, <2>2
      <3>2. Kept(kv[shard], stride, token_history, n_past)
        BY <1>3, <2>2, <3>1
      <3>3. Prefix(token_history, n_past) = token_history
        <4>1. \A q \in Seq(Token) : SubSeq(q, 1, Len(q)) = q
          BY SubSeqFull
        <4> QED BY <1>4, <4>1 DEF Prefix
      <3>4. Kept(kv[shard], stride, NextContext, n_past)
        <4> HIDE DEF stride
        <4> QED BY <1>4, <3>2, <3>3, KeptPrefix
      <3>5. CASE HasPool
        <4>1. held(s) = n_past /\ kv' = kv
          BY <1>5, <2>2, <3>5
        <4> HIDE DEF stride, held
        <4> QED BY <2>2, <3>1, <3>4, <4>1
      <3>6. CASE ~HasPool
        <4>1. job \notin jobs
          BY <1>3, <1>4
        <4>2. held(s) = Len(NextContext) /\ kv' = updated
          BY <1>4, <1>5, <2>2, <3>6, <4>1
        <4>3. Overruns(stride, n_past, 1) = {}
          BY <1>1, <2>2, <3>6
        <4> HIDE DEF stride, held
        <4>4. Kept(updated[shard], stride, NextContext, Len(NextContext))
          BY <1>4, <2>2, <3>4, <4>3, KeptUpdate
        <4> QED BY <2>2, <3>1, <4>2, <4>4
      <3> QED BY <3>5, <3>6
    <2> QED BY <2>1, <2>2
  <1>9. ASSUME NEW s \in KVShards, NextContext' = NextContext \/ token_history' = NextContext,
               Kept(kv'[s], stride, NextContext, held(s))
        PROVE  /\ NextContext' = NextContext => (Written(s, NextContext))'
               /\ token_history' = NextContext => (Written(s, token_history))'
    <2>1. DecodeKV(active_cl)' = stride /\ Len(NextContext) - 1 = n_past
      BY <1>4, <1>5
    <2> HIDE DEF stride
    <2> QED BY <1>4, <1>9, <2>1 DEF Written, Pending
  <1> HIDE DEF updated, job, held
  <1>10. CASE shard < NumShards /\ shard' = shard + 1 /\ UNCHANGED <<pc, n_past, token_history, next_token>>
    <2>1. NextContext' = NextContext /\ pc' = "decode" /\ DecodeKV(active_cl)' = stride
      BY <1>1, <1>5, <1>10 DEF NextContext
    <2>2. \A s \in KVShards : IF s < shard' THEN Written(s, NextContext)'
                              ELSE Kept(kv'[s], stride, token_history', n_past')
      BY <1>8, <1>9, <1>10, <2>1
    <2>3. (JobsFor(NextContext))' /\ \A j \in jobs' : j.shard < shard'
      BY <1>7, <1>10, <2>1 DEF JobsFor
    <2> HIDE DEF stride
    <2>4. DecodeSound'
      BY <1>5, <2>1, <2>2, <2>3 DEF DecodeSound
    <2> QED BY <2>1, <2>4 DEF PrefillSound
  <1>11. CASE /\ ~ (shard < NumShards) /\ pc' = "top" /\ logits' = NextContext
              /\ n_past' = n_past + 1 /\ token_history' = NextContext
    <2>1. \A s \in KVShards : s < shard + 1
      BY <1>4, <1>6, <1>11, ContextConstants
    <2>2. \A s \in KVShards : (Written(s, token_history))'
      BY <1>8, <1>9, <1>11, <2>1
    <2>3. (JobsFor(token_history))'
      BY <1>7, <1>11 DEF JobsFor
    <2>4. DecodeSound'
      BY <1>11, <2>2, <2>3 DEF DecodeSound
    <2> QED BY <1>11, <2>4 DEF PrefillSound
  <1> QED BY <1>5, <1>10, <1>11

\* A write-back completes the cache it is for and touches no other.
LEMMA JobWrites ==
    ASSUME Trusted, NEW j \in jobs, RunJob(j), damage' = {},
           NEW c \in Seq(Token), JobsFor(c), Len(c) \in Nat \ {0}
    PROVE  /\ (JobsFor(c))'
           /\ \A s \in KVShards : Written(s, c) => (Written(s, c))'
           /\ \A s \in KVShards : s # j.shard => kv'[s] = kv[s]
  <1> DEFINE stride == DecodeKV(active_cl)
             n == Len(c) - 1
             updated == UpdateKV(j.shard, stride, j.off, 1, c)
  <1>1. /\ j \in [shard : Shard, off : Nat] /\ j.off = n /\ out[j.shard] = c
        /\ \A i \in jobs : /\ i \in [shard : Shard, off : Nat]
                           /\ i.off = n /\ out[i.shard] = c
    BY DEF JobsFor
  <1>2. /\ jobs' = jobs \ {j} /\ kv' = updated /\ out' = out /\ active_cl' = active_cl
        /\ j.shard \in KVShards => Overruns(stride, n, 1) = {}
    BY <1>1 DEF RunJob, model
  <1>3. /\ stride \in Strides /\ stride \in Nat /\ n \in Nat /\ Len(c) = n + 1
        /\ DOMAIN kv = KVShards /\ \A s \in KVShards : DOMAIN kv[s] = Addr
    BY TrustedFacts
  <1>4. (JobsFor(c))'
    BY <1>1, <1>2 DEF JobsFor
  <1>5. \A s \in KVShards : s # j.shard => kv'[s] = kv[s]
    BY <1>2, <1>3, UpdateElsewhere
  <1>6. ASSUME NEW s \in KVShards, Written(s, c) PROVE (Written(s, c))'
    <2>1. CASE s # j.shard
      <3>1. [shard |-> s, off |-> n] \in jobs' <=> [shard |-> s, off |-> n] \in jobs
        BY <1>2, <2>1
      <3> QED BY <1>2, <1>5, <1>6, <2>1, <3>1 DEF Written, Pending
    <2>2. CASE s = j.shard
      <3>1. j = [shard |-> s, off |-> n]
        BY <1>1, <2>2
      <3>2. Kept(kv[s], stride, c, n)
        BY <1>6, <3>1 DEF Written, Pending
      <3>3. Kept(updated[s], stride, c, Len(c))
        <4>1. Overruns(stride, n, 1) = {} /\ updated = UpdateKV(s, stride, n, 1, c)
          BY <1>1, <1>2, <2>2
        <4> HIDE DEF stride, n, updated
        <4> QED BY <1>3, <3>2, <4>1, KeptUpdate
      <3>4. [shard |-> s, off |-> n] \notin jobs'
        BY <1>2, <3>1
      <3> QED BY <1>2, <3>3, <3>4 DEF Written, Pending
    <2> QED BY <2>1, <2>2
  <1> QED BY <1>4, <1>5, <1>6

LEMMA RunJobKept ==
    ASSUME Trusted, ControlTypes, NEW j \in jobs, RunJob(j), damage' = {}
    PROVE  (PrefillSound /\ DecodeSound)'
  <1>1. /\ damage = {} /\ ~Quiet
        /\ UNCHANGED <<n_past, active_cl, token_history, pc, next_token, shard, act, logits>>
    BY DEF RunJob, Trusted, model, locals, chunkv
  <1>2. /\ token_history \in Seq(Token) /\ Len(token_history) = n_past /\ n_past \in Nat
    BY TrustedFacts
  <1>3. CASE pc \in {"top", "barrier", "drain"}
    <2>1. JobsFor(token_history) /\ \A s \in KVShards : Written(s, token_history)
      BY <1>1, <1>3 DEF Trusted, DecodeSound
    <2>2. Len(token_history) # 0
      <3>1. j.off \in Nat /\ j.off = Len(token_history) - 1
        BY <2>1 DEF JobsFor
      <3> QED BY <1>2, <3>1
    <2>3. /\ (JobsFor(token_history))'
          /\ \A s \in KVShards : (Written(s, token_history))'
      <3> DEFINE c == token_history
      <3>1. c \in Seq(Token) /\ JobsFor(c) /\ Len(c) \in Nat \ {0} /\ c' = c
        BY <1>1, <1>2, <2>1, <2>2
      <3> QED BY <1>1, <2>1, <3>1, JobWrites DEF JobsFor, Written, Pending
    <2>4. pc = "top" => logits = token_history
      BY <1>1 DEF Trusted, DecodeSound
    <2> QED BY <1>1, <1>3, <2>3, <2>4 DEF PrefillSound, DecodeSound
  <1>4. CASE pc = "decode"
    <2>1. /\ act = NextContext /\ JobsFor(NextContext) /\ \A i \in jobs : i.shard < shard
          /\ \A s \in KVShards :
               IF s < shard THEN Written(s, NextContext)
               ELSE Kept(kv[s], DecodeKV(active_cl), token_history, n_past)
      BY <1>1, <1>4 DEF Trusted, DecodeSound
    <2>2. NextContext \in Seq(Token) /\ Len(NextContext) \in Nat \ {0} /\ NextContext' = NextContext
      <3>1. NextContext \in Seq(Token) /\ Len(NextContext) = n_past + 1
        BY <1>4, NextContextFacts DEF Trusted, InLoop
      <3> QED BY <1>1, <1>2, <3>1 DEF NextContext
    <2>3. /\ (JobsFor(NextContext))'
          /\ \A s \in KVShards : Written(s, NextContext) => (Written(s, NextContext))'
          /\ \A s \in KVShards : s # j.shard => kv'[s] = kv[s]
      <3> DEFINE c == NextContext
      <3>1. c \in Seq(Token) /\ JobsFor(c) /\ Len(c) \in Nat \ {0} /\ c' = c
        BY <2>1, <2>2
      <3> HIDE DEF c
      <3>2. /\ \A i \in jobs' : i \in [shard : Shard, off : Nat] /\ i.off = Len(c) - 1 /\ out'[i.shard] = c
            /\ \A s \in KVShards :
                 Written(s, c) =>
                   Kept(kv'[s], DecodeKV(active_cl'), c,
                        IF [shard |-> s, off |-> Len(c) - 1] \in jobs' THEN Len(c) - 1 ELSE Len(c))
            /\ \A s \in KVShards : s # j.shard => kv'[s] = kv[s]
        BY <3>1, JobWrites DEF JobsFor, Written, Pending
      <3> QED BY <2>2, <3>2 DEF JobsFor, Written, Pending, c
    <2>4. \A s \in KVShards :
            IF s < shard THEN (Written(s, NextContext))'
            ELSE Kept(kv'[s], DecodeKV(active_cl), token_history, n_past)
      <3>1. j.shard < shard
        BY <2>1
      <3> QED BY <2>1, <2>3, <3>1
    <2>5. \A i \in jobs' : i.shard < shard
      BY <2>1 DEF RunJob
    <2> QED BY <1>1, <1>4, <2>1, <2>2, <2>3, <2>4, <2>5 DEF PrefillSound, DecodeSound
  <1> QED BY <1>1, <1>3, <1>4 DEF Quiet, ControlTypes, PC

\* generate() goes on, or is left, with an undamaged cache in the prefill layout.
LEMMA StillKept ==
    ASSUME CacheKept(PrefillKV(active_cl)), UNCHANGED <<model, kv>>
    PROVE  CacheKept(PrefillKV(active_cl))'
  BY DEF CacheKept, model

\* The shards that had the chunk, and those that had not, hold what came before it.
LEMMA ChunkForgotten ==
    ASSUME Trusted, damage = {}, pc = "shard"
    PROVE  CacheKept(PrefillKV(active_cl))
  <1> SUFFICES ASSUME NEW s \in KVShards
               PROVE  Kept(kv[s], PrefillKV(active_cl), token_history, n_past)
    BY DEF CacheKept
  <1>1. IF s < shard THEN Kept(kv[s], PrefillKV(active_cl), NewContext, Len(NewContext))
        ELSE Kept(kv[s], PrefillKV(active_cl), token_history, n_past)
    BY DEF Trusted, PrefillSound
  <1>2. /\ NewContext \in Seq(Token) /\ Len(NewContext) = n_past + Len(Chunk)
        /\ Prefix(NewContext, n_past) = token_history /\ n_past \in Nat /\ Len(Chunk) \in Nat
        /\ token_history \in Seq(Token) /\ Len(token_history) = n_past
        /\ PrefillKV(active_cl) \in Nat
    BY NewContextFacts, ChunkFacts, TrustedFacts DEF Trusted, ContextInv
  <1>3. Prefix(token_history, n_past) = token_history
    <2>1. \A q \in Seq(Token) : SubSeq(q, 1, Len(q)) = q
      BY SubSeqFull
    <2> QED BY <1>2, <2>1 DEF Prefix
  <1> QED BY <1>1, <1>2, <1>3, KeptPrefix

\* The restride between prefill and decode.
LEMMA LayoutSwitched ==
    ASSUME Trusted, CacheKept(PrefillKV(active_cl)),
           Loses(PrefillKV(active_cl), DecodeKV(active_cl), n_past) = {},
           kv' = RestrideAll(kv, PrefillKV(active_cl), DecodeKV(active_cl), n_past),
           UNCHANGED model
    PROVE  CacheKept(DecodeKV(active_cl))'
  <1> DEFINE old == PrefillKV(active_cl)
             new == DecodeKV(active_cl)
  <1>1. /\ n_past \in Nat /\ old \in Strides /\ new \in Strides
        /\ \A s \in KVShards : DOMAIN kv[s] = Addr
        /\ \A s \in KVShards : Kept(kv[s], old, token_history, n_past)
    BY TrustedFacts DEF CacheKept
  <1>2. ASSUME NEW s \in KVShards
        PROVE  Kept(RestrideAll(kv, old, new, n_past)[s], new, token_history, n_past)
    <2> HIDE DEF old, new
    <2> QED BY <1>1, KeptRestride DEF old, new
  <1> QED BY <1>2 DEF CacheKept, model

LEMMA FitPromptKept ==
    ASSUME Trusted, FitPrompt, damage' = {}
    PROVE  (PrefillSound /\ DecodeSound)'
  <1>1. pc = "fit" /\ Len(req.prompt) \in Nat /\ req.prompt # <<>>
    <2>1. pc = "fit"
      BY DEF FitPrompt
    <2>2. req.prompt \in Prompts
      BY <2>1 DEF Trusted, ContextInv, ContextTypes, ActiveRequest
    <2> QED BY <2>1, <2>2, RequestFacts, ModelAssumption DEF Trusted, ContextInv
  <1>2. damage = {} => CacheKept(PrefillKV(active_cl))
    BY <1>1 DEF Trusted, PrefillSound
  <1>3. CASE Prefill(req.prompt, "prompt") /\ UNCHANGED <<model, kv, out, locals, logits, damage>>
    <2>1. CacheKept(PrefillKV(active_cl))'
      BY <1>2, <1>3, StillKept
    <2> QED BY <1>1, <1>3, <2>1, PrefillPlace DEF Prefill
  <1>4. CASE /\ CanSlide(Len(req.prompt)) /\ Evict(Len(req.prompt), FALSE, "evict_prompt")
    <2>1. CacheKept(PrefillKV(active_cl))'
      BY <1>1, <1>2, <1>4, EvictKept
    <2>2. pc' = "chunk" /\ goal' = "evict_prompt"
      BY <1>4 DEF Evict, EvictTo, Prefill
    <2> QED BY <2>1, <2>2, PrefillPlace
  <1>5. CASE Leave /\ UNCHANGED <<model, kv, damage>>
    <2>1. CacheKept(PrefillKV(active_cl))'
      BY <1>2, <1>5, StillKept
    <2> QED BY <1>5, <2>1, PrefillPlace DEF Leave
  <1> QED BY <1>3, <1>4, <1>5 DEF FitPrompt

LEMMA PromptEvictedKept ==
    ASSUME Trusted, PromptEvicted, damage' = {}
    PROVE  (PrefillSound /\ DecodeSound)'
  <1>1. pc = "chunk" /\ damage = {} /\ UNCHANGED <<model, kv>> /\ req.prompt # <<>>
    <2>1. pc = "chunk" /\ damage = {} /\ UNCHANGED <<model, kv>>
      BY DEF PromptEvicted
    <2>2. req.prompt \in Prompts
      BY <2>1 DEF Trusted, ContextInv, ContextTypes, ActiveRequest
    <2> QED BY <2>1, <2>2, ModelAssumption
  <1>2. CacheKept(PrefillKV(active_cl))'
    BY <1>1, StillKept DEF Trusted, PrefillSound
  <1>3. \/ pc' = "chunk" /\ todo' = req.prompt
        \/ pc' = "idle"
    BY DEF PromptEvicted, Prefill, Leave
  <1> QED BY <1>1, <1>2, <1>3, PrefillPlace

LEMMA BeginChunkKept ==
    ASSUME Trusted, BeginChunk, damage' = {}
    PROVE  (PrefillSound /\ DecodeSound)'
  <1>1. /\ pc = "chunk" /\ damage = {} /\ PromoteLoses(ChunkRequires, SeqLenPrefill, SeqLenPrefill) = {}
        /\ active_cl' = PromotedCL(ChunkRequires, SeqLenPrefill)
        /\ kv' = PromotedKV(ChunkRequires, SeqLenPrefill, SeqLenPrefill)
        /\ pc' = "shard" /\ shard' = 1 /\ act' = NewContext
        /\ UNCHANGED <<n_past, token_history, todo>>
    BY DEF BeginChunk, NewContext
  <1>2. ChunkRequires \in Nat /\ CacheKept(ContextLengths[active_cl] - SeqLenPrefill)
    BY <1>1, TrustedFacts, ChunkFacts DEF Trusted, ContextInv, ChunkRequires, PrefillSound, PrefillKV
  <1>3. \A s \in KVShards : Kept(kv'[s], PrefillKV(active_cl'), token_history, n_past)
    BY <1>1, <1>2, KeptPromote DEF PrefillKV
  <1>4. \A s \in KVShards : ~ (s < 1)
    BY ModelAssumption
  <1>5. NewContext' = NewContext
    BY <1>1 DEF NewContext, Chunk
  <1> QED BY <1>1, <1>3, <1>4, <1>5 DEF PrefillSound, DecodeSound

LEMMA PromptDoneKept ==
    ASSUME Trusted, PromptDone, damage' = {}
    PROVE  (PrefillSound /\ DecodeSound)'
  <1>1. /\ pc = "chunk" /\ todo = <<>> /\ goal = "prompt" /\ damage = {} /\ pc' = "top"
        /\ Loses(PrefillKV(active_cl), DecodeKV(active_cl), n_past) = {}
        /\ kv' = RestrideAll(kv, PrefillKV(active_cl), DecodeKV(active_cl), n_past)
        /\ UNCHANGED <<model, out, jobs, logits>>
    BY DEF PromptDone
  <1>2. CacheKept(PrefillKV(active_cl)) /\ logits = token_history /\ jobs = {}
    BY <1>1 DEF Trusted, PrefillSound, Quiet
  <1>3. CacheKept(DecodeKV(active_cl))'
    BY <1>1, <1>2, LayoutSwitched
  <1>4. Len(token_history') = n_past'
    BY <1>1, TrustedFacts DEF model
  <1>5. \A s \in KVShards : (Written(s, token_history))'
    BY <1>1, <1>2, <1>3, <1>4 DEF Written, Pending, CacheKept
  <1> QED BY <1>1, <1>2, <1>5 DEF PrefillSound, DecodeSound, JobsFor, model

LEMMA DecodeTopKept ==
    ASSUME Trusted, DecodeTop, damage' = {}
    PROVE  (PrefillSound /\ DecodeSound)'
  <1>1. /\ pc = "top" /\ damage = {} /\ pc' \in {"barrier", "drain"}
        /\ UNCHANGED <<model, kv, out, jobs, logits>>
    BY DEF DecodeTop
  <1>2. JobsFor(token_history) /\ \A s \in KVShards : Written(s, token_history)
    BY <1>1 DEF Trusted, DecodeSound
  <1>3. (JobsFor(token_history))' /\ \A s \in KVShards : (Written(s, token_history))'
    BY <1>1, <1>2 DEF JobsFor, Written, Pending, model
  <1> QED BY <1>1, <1>3 DEF PrefillSound, DecodeSound

LEMMA DecodeBarrierKept ==
    ASSUME Trusted, DecodeBarrier, damage' = {}
    PROVE  (PrefillSound /\ DecodeSound)'
  <1>1. pc = "barrier" /\ jobs = {}
    BY DEF DecodeBarrier, PoolWait
  <1>2. damage = {} => CacheKept(DecodeKV(active_cl))
    <2>1. damage = {} => \A s \in KVShards : Written(s, token_history)
      BY <1>1 DEF Trusted, DecodeSound
    <2> QED BY <1>1, <2>1, NothingPending DEF Trusted
  <1>3. CASE pc' = "promote" /\ UNCHANGED <<model, kv, damage>>
    <2>1. CacheKept(DecodeKV(active_cl))'
      BY <1>2, <1>3 DEF CacheKept, model
    <2> QED BY <1>3, <2>1, PromotePlace
  <1>4. CASE CanSlide(1) /\ Evict(1, TRUE, "evict_decode")
    <2>1. CacheKept(PrefillKV(active_cl))'
      BY <1>1, <1>2, <1>4, EvictKept
    <2>2. pc' = "chunk" /\ goal' = "evict_decode"
      BY <1>4 DEF Evict, EvictTo, Prefill
    <2> QED BY <2>1, <2>2, PrefillPlace
  <1>5. CASE Abandon
    BY <1>5 DEF Abandon
  <1> QED BY <1>3, <1>4, <1>5 DEF DecodeBarrier

LEMMA DecodeEvictedKept ==
    ASSUME Trusted, DecodeEvicted, damage' = {}
    PROVE  (PrefillSound /\ DecodeSound)'
  <1>1. /\ pc = "chunk" /\ damage = {} /\ pc' = "promote"
        /\ Loses(PrefillKV(active_cl), DecodeKV(active_cl), n_past) = {}
        /\ kv' = RestrideAll(kv, PrefillKV(active_cl), DecodeKV(active_cl), n_past)
        /\ UNCHANGED model
    BY DEF DecodeEvicted
  <1>2. CacheKept(DecodeKV(active_cl))'
    BY <1>1, LayoutSwitched DEF Trusted, PrefillSound
  <1> QED BY <1>1, <1>2, PromotePlace

LEMMA DecodePromoteKept ==
    ASSUME Trusted, DecodePromote, damage' = {}
    PROVE  (PrefillSound /\ DecodeSound)'
  <1>1. /\ pc = "promote" /\ damage = {} /\ PromoteLoses(n_past + 1, SeqLenDecode, SeqLenDecode) = {}
        /\ active_cl' = PromotedCL(n_past + 1, SeqLenDecode)
        /\ kv' = PromotedKV(n_past + 1, SeqLenDecode, SeqLenDecode)
        /\ pc' = "decode" /\ shard' = 1 /\ act' = NextContext
        /\ UNCHANGED <<n_past, token_history, next_token, jobs>>
    BY DEF DecodePromote, NextContext, locals
  <1>2. n_past + 1 \in Nat /\ CacheKept(ContextLengths[active_cl] - SeqLenDecode) /\ jobs = {}
    BY <1>1, TrustedFacts DEF Trusted, DecodeSound, DecodeKV, Quiet
  <1>3. \A s \in KVShards : Kept(kv'[s], DecodeKV(active_cl'), token_history, n_past)
    BY <1>1, <1>2, KeptPromote DEF DecodeKV
  <1>4. \A s \in KVShards : ~ (s < 1)
    BY ModelAssumption
  <1>5. NextContext' = NextContext
    BY <1>1 DEF NextContext
  <1> QED BY <1>1, <1>2, <1>3, <1>4, <1>5 DEF PrefillSound, DecodeSound, JobsFor

LEMMA FinishKept ==
    ASSUME Trusted, Finish, damage' = {}
    PROVE  (PrefillSound /\ DecodeSound)'
  <1> DEFINE cl == PromotedCL(n_past, SeqLenPrefill)
             promoted == PromotedKV(n_past, SeqLenPrefill, SeqLenDecode)
             old == DecodeKV(cl)
             new == PrefillKV(cl)
  <1>1. /\ pc = "drain" /\ jobs = {} /\ damage = {} /\ pc' = "idle"
        /\ PromoteLoses(n_past, SeqLenPrefill, SeqLenDecode) = {} /\ Loses(old, new, n_past) = {}
        /\ active_cl' = cl /\ kv' = RestrideAll(promoted, old, new, n_past)
        /\ UNCHANGED <<n_past, token_history>>
    BY DEF Finish, PoolWait, Leave
  <1>2. CacheKept(DecodeKV(active_cl))
    <2>1. \A s \in KVShards : Written(s, token_history)
      BY <1>1 DEF Trusted, DecodeSound
    <2> QED BY <1>1, <2>1, NothingPending DEF Trusted
  <1>3. \A s \in KVShards : Kept(promoted[s], old, token_history, n_past)
    <2>1. CacheKept(ContextLengths[active_cl] - SeqLenDecode) /\ n_past \in Nat
      BY <1>2, TrustedFacts DEF DecodeKV
    <2> QED BY <1>1, <2>1, KeptPromote DEF DecodeKV
  <1>4. \A s \in KVShards : DOMAIN promoted[s] = Addr
    BY PromotedShape DEF Trusted
  <1>5. old \in Strides /\ new \in Strides /\ n_past \in Nat
    <2>1. cl \in active_cl .. NumCL
      BY TrustedFacts, PromotedFacts, ModelAssumption DEF Trusted
    <2>2. cl \in 1 .. NumCL
      BY <2>1 DEF Trusted
    <2> HIDE DEF cl
    <2> QED BY <2>2, StrideTypes, TrustedFacts
  <1>6. ASSUME NEW s \in KVShards
        PROVE  Kept(RestrideAll(promoted, old, new, n_past)[s], new, token_history, n_past)
    <2> HIDE DEF promoted, old, new
    <2> QED BY <1>1, <1>3, <1>4, <1>5, KeptRestride
  <1>7. CacheKept(PrefillKV(active_cl))'
    BY <1>1, <1>6 DEF CacheKept
  <1> QED BY <1>1, <1>7, PrefillPlace

LEMMA CallKept ==
    ASSUME Trusted, GenerateStep, damage' = {}
    PROVE  (PrefillSound /\ DecodeSound)'
  <1>1. CASE PrefillFails
    <2>1. pc = "shard" /\ damage = {} /\ UNCHANGED <<model, kv>> /\ pc' = "idle"
      BY <1>1 DEF PrefillFails, Leave
    <2>2. CacheKept(PrefillKV(active_cl))'
      BY <2>1, ChunkForgotten, StillKept
    <2> QED BY <2>1, <2>2, PrefillPlace
  <1>2. CASE CallbackThrows \/ DecodeFails
    BY <1>2 DEF CallbackThrows, DecodeFails, Abandon
  <1> QED BY <1>1, <1>2, FitPromptKept, PromptEvictedKept, BeginChunkKept, PrefillShardKept,
             PromptDoneKept, DecodeTopKept, DecodeBarrierKept, DecodeEvictedKept,
             DecodePromoteKept, DecodeShardKept, FinishKept DEF GenerateStep

\* A file stands in for the cache it was saved from.
LEMMA FileKeptStep ==
    ASSUME ContextSound, CacheSound, [Next]_vars
    PROVE  FileKept'
  <1>1. CASE ~SaveKVCacheToFile
    BY <1>1, FileStays DEF CacheSound, FileKept
  <1>2. CASE SaveKVCacheToFile
    <2>1. PICK parts : file' = Image(parts)
      BY <1>2 DEF SaveKVCacheToFile
    <2>2. /\ file'.damage = damage /\ file'.n_past = n_past /\ file'.history = token_history
          /\ file'.active_cl = active_cl
          /\ file'.kv = [s \in KVShards |-> [a \in SavedAddr |-> kv[s][a]]]
      BY <2>1 DEF Image
    <2> SUFFICES ASSUME damage = {}, NEW s \in KVShards
                 PROVE  Kept(file'.kv[s], PrefillKV(active_cl), token_history, n_past)
      BY <2>2 DEF FileKept
    <2>3. Kept(kv[s], PrefillKV(active_cl), token_history, n_past) /\ active_cl \in 1 .. NumCL
      BY <1>2 DEF SaveKVCacheToFile, CacheSound, PrefillSound, CacheKept, Variants
    <2>4. ASSUME NEW r \in Row, NEW i \in 0 .. n_past - 1
          PROVE  r * PrefillKV(active_cl) + i \in SavedAddr
      <3> DEFINE p == PrefillKV(active_cl)
                 max == PrefillKV(NumCL)
      <3>1. p \in 0 .. max /\ max \in Nat /\ Rows \in Nat
        BY <2>3, StrideFacts, ModelAssumption
      <3>2. i \in 0 .. p - 1 /\ r \in 0 .. Rows - 1
        <4>1. n_past \in Nat /\ n_past <= p
          BY <2>3 DEF Kept, ContextSound, ContextInv, ContextTypes
        <4> QED BY <3>1, <4>1 DEF Row
      <3> HIDE DEF p, max
      <3>3. r * p + i \in 0 .. Rows * max - 1
        BY <3>1, <3>2, CellInTensor
      <3> QED BY <3>3 DEF SavedAddr, p, max
    <2> QED BY <2>2, <2>3, <2>4 DEF Kept
  <1> QED BY <1>1, <1>2

LEMMA CacheSoundStep ==
    ASSUME ContextSound, ControlTypes, CacheSound, [Next]_vars
    PROVE  CacheSound'
  <1> USE DEF model, locals, chunkv
  <1>1. Shapes' /\ Variants' /\ QuietInv' /\ FileKept'
    BY ShapesStep, VariantsStep, QuietStep, FileKeptStep DEF CacheSound
  <1> SUFFICES ASSUME damage' = {} PROVE (PrefillSound /\ DecodeSound)'
    BY <1>1 DEF CacheSound
  <1>2. CASE ResetKVCache
    <2>1. /\ pc' = "idle" /\ n_past' = 0 /\ active_cl' = 1
      BY <1>2 DEF ResetKVCache
    <2>2. PrefillKV(1) \in Nat
      <3>1. 1 \in 1 .. NumCL
        BY ModelAssumption, EmptySeq DEF NumCL
      <3> QED BY <3>1, StrideFacts
    <2>3. CacheKept(PrefillKV(active_cl))'
      BY <2>1, <2>2, KeptNothing DEF CacheKept
    <2> QED BY <2>1, <2>3, PrefillPlace
  <1>3. CASE LoadKVCacheFromFile
    <2>1. pc' = "idle" /\ file # None
      BY <1>3 DEF LoadKVCacheFromFile
    <2>2. file.parts = AllParts /\ file.damage = {}
      BY <1>3 DEF LoadKVCacheFromFile
    <2>3. /\ n_past' = file.n_past /\ active_cl' = file.active_cl /\ token_history' = file.history
          /\ kv' = [s \in KVShards |-> [a \in Addr |->
                      IF a \notin SavedAddr THEN kv[s][a] ELSE file.kv[s][a]]]
      BY <1>3, <2>2 DEF LoadKVCacheFromFile, AllParts
    <2>4. /\ file.n_past \in Nat /\ file.active_cl \in 1 .. NumCL
          /\ \A s \in KVShards :
               Kept(file.kv[s], PrefillKV(file.active_cl), file.history, file.n_past)
      BY <2>1, <2>2 DEF ContextSound, FileSound, SoundFile, CacheSound, Variants, FileKept
    <2>5. ASSUME NEW r \in Row, NEW i \in 0 .. file.n_past - 1
          PROVE  r * PrefillKV(file.active_cl) + i \in SavedAddr \/ KVShards = {}
      <3> SUFFICES ASSUME NEW s \in KVShards PROVE r * PrefillKV(file.active_cl) + i \in SavedAddr
        OBVIOUS
      <3> DEFINE p == PrefillKV(file.active_cl)
                 max == PrefillKV(NumCL)
      <3>1. p \in 0 .. max /\ max \in Nat /\ Rows \in Nat
        BY <2>4, StrideFacts, ModelAssumption
      <3>2. i \in 0 .. p - 1 /\ r \in 0 .. Rows - 1
        <4>1. file.n_past <= p
          BY <2>4 DEF Kept
        <4> QED BY <2>4, <3>1, <4>1 DEF Row
      <3> HIDE DEF p, max
      <3>3. r * p + i \in 0 .. Rows * max - 1
        BY <3>1, <3>2, CellInTensor
      <3> QED BY <3>3 DEF SavedAddr, p, max
    <2>6. ASSUME NEW s \in KVShards
          PROVE  Kept(kv'[s], PrefillKV(file.active_cl), file.history, file.n_past)
      <3>1. ASSUME NEW r \in Row, NEW i \in 0 .. file.n_past - 1
            PROVE  kv'[s][r * PrefillKV(file.active_cl) + i]
                     = file.kv[s][r * PrefillKV(file.active_cl) + i]
        <4> DEFINE a == r * PrefillKV(file.active_cl) + i
        <4>1. a \in SavedAddr /\ a \in Addr
          BY <2>5, SavedInBuffer
        <4> HIDE DEF a
        <4>2. kv'[s][a] = file.kv[s][a]
          BY <2>3, <4>1
        <4> QED BY <4>2 DEF a
      <3> QED BY <2>4, <3>1 DEF Kept
    <2>7. CacheKept(PrefillKV(active_cl))'
      BY <2>3, <2>6 DEF CacheKept
    <2> QED BY <2>1, <2>7, PrefillPlace
  <1>4. CASE ~ResetKVCache /\ ~LoadKVCacheFromFile
    <2>1. "badload" \notin damage /\ "inflight" \notin damage
      BY <1>4, ShortFileStays, JobsStayKnown
    <2>2. Trusted
      BY <2>1 DEF Trusted, ContextSound, CacheSound, Variants, QuietInv
    <2>3. ASSUME UNCHANGED <<model, kv, out, jobs, locals, chunkv, logits, damage, pc>>
          PROVE  (PrefillSound /\ DecodeSound)'
      BY <2>2, <2>3 DEF Trusted, PrefillSound, DecodeSound, CacheKept, JobsFor, Written, Pending,
                        NewContext, NextContext, Chunk
    <2>4. CASE SaveKVCacheToFile \/ UNCHANGED vars
      BY <2>3, <2>4 DEF SaveKVCacheToFile, vars
    <2>5. ASSUME NEW j \in jobs, RunJob(j) PROVE (PrefillSound /\ DecodeSound)'
      BY <2>2, <2>5, RunJobKept
    <2>6. CASE GenerateStep
      BY <2>2, <2>6, CallKept
    <2>7. ASSUME NEW r \in Request, Generate(r) PROVE (PrefillSound /\ DecodeSound)'
      <3>1. pc = "idle" /\ damage = {} /\ UNCHANGED <<model, kv>> /\ pc' = "fit"
        BY <2>7 DEF Generate
      <3>2. CacheKept(PrefillKV(active_cl))'
        BY <2>2, <3>1, StillKept DEF Trusted, PrefillSound
      <3> QED BY <3>1, <3>2, PrefillPlace
    <2> QED BY <1>4, <2>4, <2>5, <2>6, <2>7 DEF Next
  <1> QED BY <1>2, <1>3, <1>4

LEMMA CacheInvariant == Spec => [](ContextSound /\ CacheSound)
  <1>1. Init => CacheSound /\ ControlTypes
    <2> SUFFICES ASSUME Init PROVE CacheSound /\ ControlTypes
      OBVIOUS
    <2>1. 1 \in 1 .. NumCL /\ PrefillKV(1) \in Nat
      <3>1. 1 \in 1 .. NumCL
        BY ModelAssumption, EmptySeq DEF NumCL
      <3> QED BY <3>1, StrideFacts
    <2>2. Shapes /\ Variants /\ QuietInv /\ FileKept
      BY <2>1, ContextConstants DEF Init, Shapes, Shaped, Variants, SoundFile, QuietInv, FileKept
    <2>3. PrefillSound /\ DecodeSound
      BY <2>1, KeptNothing DEF Init, PrefillSound, DecodeSound, CacheKept
    <2>4. ControlTypes
      BY DEF Init, ControlTypes, PC
    <2> QED BY <2>2, <2>3, <2>4 DEF CacheSound
  <1>2. ContextSound /\ ControlTypes /\ CacheSound /\ [Next]_vars => CacheSound'
    BY CacheSoundStep
  <1>3. ControlTypes /\ [Next]_vars => ControlTypes'
    BY ControlTypesStep
  <1> QED BY <1>1, <1>2, <1>3, SoundInvariant, PTL DEF Spec

\* Between calls an undamaged cache is that of the history, at the stride the next call
\* reads it with: after promotions, restrides, late write-backs, evictions, failed graphs,
\* resets, and loads of whole or short files.
THEOREM CacheMatchesHistory == Spec => []KVMatchesHistory
  <1>1. ContextSound /\ CacheSound => KVMatchesHistory
    BY DEF CacheSound, PrefillSound, CacheKept, Kept, KVMatchesHistory, CacheHolds
  <1> QED BY <1>1, CacheInvariant, PTL

\* No token is sampled from anything but the recorded history while the cache is
\* undamaged: every shard of every decode step and of every chunk saw all of it.
THEOREM SamplesFollowHistory == Spec => []SampledFromHistory
  <1>1. ContextSound /\ CacheSound => SampledFromHistory
    BY DEF CacheSound, DecodeSound, SampledFromHistory
  <1> QED BY <1>1, CacheInvariant, PTL
-----------------------------------------------------------------------------
(* The context is a token window.                                          *)

\* Outside prefillChunks no surviving tail is left to be prefilled again.
TailDone == pc \notin {"chunk", "shard"} => goal = "prompt" \/ todo = <<>>

\* The window and the saved window of the refinement.
Text == token_history \o (IF goal = "prompt" THEN <<>> ELSE todo)
Saved == IF file = None THEN None ELSE file.history

WindowStep == Window!WNext \/ UNCHANGED <<Text, Saved>>

LEMMA TailDoneStep ==
    ASSUME TailDone, Resting', [Next]_vars
    PROVE  TailDone'
  <1> USE DEF Leave, Prefill, Evict, EvictTo, Abandon, TailDone
  <1>0. CASE pc' = "idle"
    BY <1>0 DEF Resting
  <1>1. CASE FitPrompt \/ PromptEvicted \/ BeginChunk \/ PrefillShard \/ PrefillFails \/ PromptDone
    BY <1>1 DEF FitPrompt, PromptEvicted, BeginChunk, PrefillShard, PrefillFails, PromptDone, chunkv
  <1>2. CASE DecodeTop \/ CallbackThrows \/ DecodeBarrier \/ DecodeEvicted \/ DecodePromote
    BY <1>2 DEF DecodeTop, CallbackThrows, DecodeBarrier, DecodeEvicted, DecodePromote, chunkv
  <1>3. CASE DecodeShard \/ DecodeFails \/ Finish
    BY <1>3 DEF DecodeShard, DecodeFails, Finish
  <1>4. ASSUME NEW j \in jobs, RunJob(j) PROVE TailDone'
    BY <1>4 DEF RunJob, chunkv
  <1>5. CASE ResetKVCache \/ LoadKVCacheFromFile \/ SaveKVCacheToFile
    BY <1>0, <1>5 DEF ResetKVCache, LoadKVCacheFromFile, SaveKVCacheToFile
  <1>6. ASSUME NEW r \in Request, Generate(r) PROVE TailDone'
    BY <1>6 DEF Generate, chunkv
  <1>7. CASE UNCHANGED vars
    BY <1>7 DEF vars
  <1> QED BY <1>1, <1>2, <1>3, <1>4, <1>5, <1>6, <1>7 DEF Next, GenerateStep

\* With no tail left to prefill the window is the history.
LEMMA TextIsHistory ==
    ASSUME token_history \in Seq(Token), goal = "prompt" \/ todo = <<>>
    PROVE  Text = token_history
  BY ConcatEmptySeq DEF Text

LEMMA TextIsHistoryThen ==
    ASSUME token_history' \in Seq(Token), goal' = "prompt" \/ todo' = <<>>
    PROVE  Text' = token_history'
  BY ConcatEmptySeq DEF Text

\* Tokens joined the window.
LEMMA GrowIsWindowStep ==
    ASSUME NEW s \in Seq(Token), Text \in Seq(Token), Text' = Text \o s,
           Len(Text) + Len(s) <= MaxCL, UNCHANGED Saved
    PROVE  WindowStep
  <1>1. CASE s = <<>>
    BY <1>1, ConcatEmptySeq DEF WindowStep
  <1>2. CASE s # <<>>
    <2>1. Len(s) > 0 /\ Len(Text) \in Nat
      BY <1>2
    <2>2. /\ Text' \in Seq(Token) /\ Len(Text') = Len(Text) + Len(s)
          /\ \A i \in 1 .. Len(Text) : Text'[i] = Text[i]
      BY ConcatProperties
    <2>3. SubSeq(Text', 1, Len(Text)) = Text
      <3>1. /\ SubSeq(Text', 1, Len(Text)) \in Seq(Token)
            /\ Len(SubSeq(Text', 1, Len(Text))) = Len(Text)
            /\ \A i \in 1 .. Len(Text) : SubSeq(Text', 1, Len(Text))[i] = Text'[i]
        BY <2>1, <2>2, Slice
      <3> QED BY <2>2, <3>1, SeqEqual
    <2>4. Window!Extend
      <3>1. Len(Text') > Len(Text) /\ Len(Text') <= MaxCL
        BY <2>1, <2>2
      <3> QED BY <2>3, <3>1 DEF Window!Extend, Text, Saved
    <2> QED BY <2>4 DEF WindowStep, Window!WNext
  <1> QED BY <1>1, <1>2

\* A run of tokens left the window.
LEMMA CutIsWindowStep ==
    ASSUME Text \in Seq(Token), NEW keep \in Nat, NEW n \in Nat \ {0}, keep + n <= Len(Text),
           Text' = SubSeq(Text, 1, keep) \o SubSeq(Text, keep + n + 1, Len(Text)), UNCHANGED Saved
    PROVE  WindowStep
  <1>1. keep \in 0 .. Len(Text) /\ n \in 1 .. Len(Text)
    OBVIOUS
  <1>2. Window!EvictRun
    BY <1>1 DEF Window!EvictRun, Text, Saved
  <1> QED BY <1>2 DEF WindowStep, Window!WNext

\* What the refinement needs of a state.
WindowInv == ContextInv /\ Resting /\ TailDone

\* An action that leaves these alone.
LEMMA WindowStays ==
    ASSUME UNCHANGED <<token_history, todo, goal, file>>
    PROVE  WindowStep
  BY DEF WindowStep, Text, Saved

\* generate() is left, or prefillChunks entered, with the history as it is.
LEMMA HistoryStays ==
    ASSUME WindowInv, WindowInv', goal = "prompt" \/ todo = <<>>,
           goal' = "prompt" \/ todo' = <<>>, UNCHANGED <<token_history, file>>
    PROVE  WindowStep
  <1>1. token_history \in Seq(Token) /\ token_history' \in Seq(Token)
    BY DEF WindowInv, ContextInv, ContextTypes
  <1>2. Text = token_history /\ Text' = token_history'
    BY <1>1, TextIsHistory, TextIsHistoryThen
  <1> QED BY <1>2 DEF WindowStep, Saved

\* An eviction takes a run out of the window; its tail is re-prefilled out of sight.
LEMMA EvictIsWindowStep ==
    ASSUME WindowInv, pc # "idle", pc \notin {"chunk", "shard"}, NEW n_fit \in Nat, CanSlide(n_fit),
           NEW at_decode_stride, NEW g, g # "prompt", Evict(n_fit, at_decode_stride, g),
           file' = file
    PROVE  WindowStep
  <1> DEFINE k == req.n_keep
             d == Discard(n_fit)
  <1>1. /\ n_past \in Nat /\ token_history \in Seq(Token) /\ Len(token_history) = n_past
        /\ k \in Nat /\ MaxCL \in Nat
    BY RequestFacts, MaxCLType DEF WindowInv, ContextInv, ContextTypes, HistoryMatches
  <1>2. k < n_past /\ d \in 1 .. n_past - k
    BY <1>1, DiscardBounds DEF CanSlide, Discard
  <1>3. Text = token_history
    BY <1>1, TextIsHistory DEF WindowInv, TailDone
  <1>4. token_history' = SubSeq(token_history, 1, k) /\ goal' = g
        /\ todo' = SubSeq(token_history, k + d + 1, n_past)
    BY DEF Evict, EvictTo, Prefill, Prefix, SurvivingTail
  <1>5. Text' = SubSeq(token_history, 1, k) \o SubSeq(token_history, k + d + 1, n_past)
    BY <1>4 DEF Text
  <1>6. UNCHANGED Saved
    BY DEF Saved
  <1> HIDE DEF k, d
  <1>7. d \in Nat \ {0} /\ k + d <= Len(Text) /\ Text \in Seq(Token)
    BY <1>1, <1>2, <1>3
  <1>8. Text' = SubSeq(Text, 1, k) \o SubSeq(Text, k + d + 1, Len(Text))
    BY <1>1, <1>3, <1>5
  <1> QED BY <1>1, <1>6, <1>7, <1>8, CutIsWindowStep

\* A chunk leaves what is left to do for the history: it joins the window if it is
\* of the prompt and was in it already if it is of a surviving tail.
LEMMA ChunkIsWindowStep ==
    ASSUME WindowInv, PrefillShard
    PROVE  WindowStep
  <1> DEFINE rest == SubSeq(todo, Len(Chunk) + 1, Len(todo))
  <1>1. /\ pc = "shard" /\ UNCHANGED <<goal, file>>
        /\ \/ UNCHANGED <<token_history, todo>>
           \/ token_history' = token_history \o Chunk /\ todo' = rest
    BY DEF PrefillShard
  <1>2. CASE UNCHANGED <<token_history, todo>>
    BY <1>1, <1>2, WindowStays
  <1>3. CASE token_history' = token_history \o Chunk /\ todo' = rest
    <2>1. /\ Chunk \in Seq(Token) /\ Len(Chunk) \in Nat /\ Len(Chunk) <= Len(todo)
          /\ rest \in Seq(Token)
      BY ChunkFacts DEF WindowInv, ContextInv
    <2>2. Chunk \o rest = todo
      <3> DEFINE n == Len(Chunk)
                 m == Min2(Len(todo), SeqLenPrefill)
      <3>1. todo \in Seq(Token) /\ SeqLenPrefill \in Nat
        BY ModelAssumption DEF WindowInv, ContextInv, ContextTypes
      <3>2. m \in 0 .. Len(todo)
        BY <3>1 DEF Min2
      <3>3. Chunk = SubSeq(todo, 1, m)
        BY DEF Chunk, Prefix
      <3> HIDE DEF m
      <3>4. /\ SubSeq(todo, 1, m) \in Seq(Token) /\ Len(SubSeq(todo, 1, m)) = m
            /\ \A i \in 1 .. m : SubSeq(todo, 1, m)[i] = todo[i]
        BY <3>1, <3>2, Slice
      <3>5. m = n /\ n \in 0 .. Len(todo)
        BY <3>2, <3>3, <3>4
      <3> HIDE DEF n
      <3>6. /\ rest \in Seq(Token) /\ Len(rest) = Len(todo) - n
            /\ \A i \in 1 .. Len(todo) - n : rest[i] = todo[n + i]
        BY <3>1, <3>5, Behind DEF n
      <3> HIDE DEF rest
      <3>7. /\ Len(Chunk) = n /\ \A i \in 1 .. n : Chunk[i] = todo[i]
        BY <3>3, <3>4, <3>5
      <3>8. /\ Chunk \o rest \in Seq(Token) /\ Len(Chunk \o rest) = n + Len(rest)
            /\ \A i \in 1 .. n + Len(rest) :
                 (Chunk \o rest)[i] = IF i <= n THEN Chunk[i] ELSE rest[i - n]
        <4>1. /\ Chunk \o rest \in Seq(Token) /\ Len(Chunk \o rest) = Len(Chunk) + Len(rest)
              /\ \A i \in 1 .. Len(Chunk) + Len(rest) :
                   (Chunk \o rest)[i] = IF i <= Len(Chunk) THEN Chunk[i] ELSE rest[i - Len(Chunk)]
          BY <2>1, <3>6, ConcatProperties
        <4> QED BY <3>7, <4>1
      <3>9. n + Len(rest) = Len(todo) /\ n \in Nat /\ Len(todo) \in Nat
        BY <3>1, <3>5, <3>6
      <3>10. \A i \in 1 .. Len(todo) : (Chunk \o rest)[i] = todo[i]
        <4> SUFFICES ASSUME NEW i \in 1 .. Len(todo) PROVE (Chunk \o rest)[i] = todo[i]
          OBVIOUS
        <4>1. (Chunk \o rest)[i] = IF i <= n THEN Chunk[i] ELSE rest[i - n]
          BY <3>8, <3>9
        <4>2. CASE i <= n
          BY <3>7, <4>1, <4>2
        <4>3. CASE i > n
          <5>1. i - n \in 1 .. Len(todo) - n /\ n + (i - n) = i
            BY <3>9, <4>3
          <5>2. rest[i - n] = todo[i]
            BY <3>6, <5>1
          <5> QED BY <3>9, <4>1, <4>3, <5>2
        <4>4. i <= n \/ i > n
          BY <3>9
        <4> QED BY <4>2, <4>3, <4>4, Zenon
      <3> QED BY <3>1, <3>8, <3>9, <3>10, SeqEqual
    <2>3. token_history \in Seq(Token) /\ todo \in Seq(Token)
      BY DEF WindowInv, ContextInv, ContextTypes
    <2>4. UNCHANGED Saved
      BY <1>1 DEF Saved
    <2> HIDE DEF rest
    <2>5. CASE goal = "prompt"
      <3>1. Text = token_history /\ Text' = token_history'
        BY <1>1, <1>3, <2>1, <2>3, <2>5, TextIsHistory, ConcatEmptySeq DEF Text
      <3>2. Text \in Seq(Token) /\ Text' = Text \o Chunk
        BY <1>3, <2>3, <3>1
      <3>3. Len(Text) + Len(Chunk) <= MaxCL
        <4>1. n_past + Len(todo) <= MaxCL /\ Len(token_history) = n_past
          BY <1>1 DEF WindowInv, ContextInv, RoomLeft, HistoryMatches
        <4> QED BY <2>1, <2>3, <3>1, <4>1, MaxCLType
      <3> QED BY <2>1, <2>4, <3>2, <3>3, GrowIsWindowStep
    <2>6. CASE goal # "prompt"
      <3>1. Text = token_history \o todo
        BY <2>6 DEF Text
      <3>2. Text' = (token_history \o Chunk) \o rest
        BY <1>1, <1>3, <2>6 DEF Text
      <3>3. (token_history \o Chunk) \o rest = token_history \o (Chunk \o rest)
        BY SMTT(40), <2>1, <2>3
      <3> QED BY <2>2, <2>4, <3>1, <3>2, <3>3 DEF WindowStep
    <2> QED BY <2>5, <2>6
  <1> QED BY <1>1, <1>2, <1>3

\* A failure during a re-prefill loses the tail that was not in yet.
LEMMA LossIsWindowStep ==
    ASSUME WindowInv, PrefillFails
    PROVE  WindowStep
  <1>1. pc = "shard" /\ UNCHANGED <<token_history, file>> /\ goal' = "prompt" /\ todo' = <<>>
    BY DEF PrefillFails, Leave, model
  <1>2. token_history \in Seq(Token) /\ todo \in Seq(Token) /\ token_history' \in Seq(Token)
    BY <1>1 DEF WindowInv, ContextInv, ContextTypes
  <1>3. Text' = token_history /\ UNCHANGED Saved
    BY <1>1, <1>2, TextIsHistoryThen DEF Saved
  <1>4. CASE goal = "prompt" \/ todo = <<>>
    BY <1>2, <1>3, <1>4, TextIsHistory DEF WindowStep
  <1>5. CASE goal # "prompt" /\ todo # <<>>
    <2> DEFINE h == token_history
               k == Len(token_history)
    <2>1. Text = h \o todo
      BY <1>5 DEF Text
    <2>2. /\ h \o todo \in Seq(Token) /\ Len(h \o todo) = k + Len(todo)
          /\ \A i \in 1 .. k : (h \o todo)[i] = h[i]
      BY <1>2, ConcatProperties
    <2>3. Text \in Seq(Token) /\ k \in Nat /\ Len(todo) \in Nat \ {0} /\ k + Len(todo) <= Len(Text)
      BY <1>2, <1>5, <2>1, <2>2
    <2>4. SubSeq(Text, 1, k) = h
      <3> HIDE DEF k
      <3>1. /\ SubSeq(Text, 1, k) \in Seq(Token) /\ Len(SubSeq(Text, 1, k)) = k
            /\ \A i \in 1 .. k : SubSeq(Text, 1, k)[i] = Text[i]
        BY <2>3, Slice
      <3> QED BY <1>2, <2>1, <2>2, <3>1, SeqEqual DEF k
    <2>5. SubSeq(Text, k + Len(todo) + 1, Len(Text)) = <<>>
      <3>1. Len(Text) = k + Len(todo)
        BY <2>1, <2>2
      <3>2. Len(Text) \in 0 .. Len(Text)
        BY <2>3
      <3>3. /\ SubSeq(Text, Len(Text) + 1, Len(Text)) \in Seq(Token)
            /\ Len(SubSeq(Text, Len(Text) + 1, Len(Text))) = Len(Text) - Len(Text)
        BY SMTT(40), <2>3, <3>2, Behind
      <3> QED BY <2>3, <3>1, <3>3, EmptySeq
    <2>6. Text' = SubSeq(Text, 1, k) \o SubSeq(Text, k + Len(todo) + 1, Len(Text))
      BY <1>2, <1>3, <2>4, <2>5, ConcatEmptySeq
    <2> HIDE DEF k
    <2> QED BY <1>3, <2>3, <2>6, CutIsWindowStep
  <1> QED BY <1>4, <1>5

\* A decoded token joins the window.
LEMMA TokenIsWindowStep ==
    ASSUME WindowInv, WindowInv', DecodeShard
    PROVE  WindowStep
  <1>1. /\ pc = "decode" /\ UNCHANGED <<goal, todo, file>>
        /\ \/ token_history' = token_history
           \/ token_history' = Append(token_history, next_token)
    BY DEF DecodeShard
  <1>2. CASE token_history' = token_history
    BY <1>1, <1>2, WindowStays
  <1>3. CASE token_history' = Append(token_history, next_token)
    <2>1. /\ token_history \in Seq(Token) /\ next_token \in Token /\ token_history' \in Seq(Token)
          /\ Len(token_history) = n_past /\ n_past + 1 <= MaxCL
          /\ goal = "prompt" \/ todo = <<>>
      BY <1>1 DEF WindowInv, ContextInv, ContextTypes, InLoop, HistoryMatches, RoomLeft, TailDone
    <2>2. Text = token_history /\ Text' = token_history'
      BY <1>1, <2>1, TextIsHistory, TextIsHistoryThen
    <2>3. Append(token_history, next_token) = token_history \o <<next_token>>
      BY <2>1, AppendIsConcat
    <2>4. /\ <<next_token>> \in Seq(Token) /\ Text \in Seq(Token) /\ Text' = Text \o <<next_token>>
          /\ Len(Text) + Len(<<next_token>>) <= MaxCL
      BY <1>3, <2>1, <2>2, <2>3
    <2>5. UNCHANGED Saved
      BY <1>1 DEF Saved
    <2> QED BY <2>4, <2>5, GrowIsWindowStep
  <1> QED BY <1>1, <1>2, <1>3

\* The steps of a call of generate().
LEMMA CallIsWindowStep ==
    ASSUME WindowInv, WindowInv', GenerateStep
    PROVE  WindowStep
  <1> USE DEF model, chunkv
  <1>1. CASE FitPrompt
    <2>1. pc = "fit" /\ file' = file
      BY <1>1 DEF FitPrompt
    <2>2. goal = "prompt" \/ todo = <<>>
      BY <2>1 DEF WindowInv, TailDone
    <2>3. CASE Prefill(req.prompt, "prompt") /\ UNCHANGED token_history
      BY <2>1, <2>2, <2>3, HistoryStays DEF Prefill
    <2>4. CASE CanSlide(Len(req.prompt)) /\ Evict(Len(req.prompt), FALSE, "evict_prompt")
      <3>1. Len(req.prompt) \in Nat
        BY <2>1, RequestFacts DEF WindowInv, ContextInv
      <3> QED BY <2>1, <2>4, <3>1, EvictIsWindowStep
    <2>5. CASE Leave /\ UNCHANGED token_history
      BY <2>1, <2>2, <2>5, HistoryStays DEF Leave
    <2> QED BY <1>1, <2>3, <2>4, <2>5 DEF FitPrompt
  <1>2. CASE PromptEvicted
    <2>1. todo = <<>> /\ goal' = "prompt" /\ UNCHANGED <<token_history, file>>
      BY <1>2 DEF PromptEvicted, Prefill, Leave
    <2> QED BY <2>1, HistoryStays
  <1>3. CASE BeginChunk
    BY <1>3, WindowStays DEF BeginChunk
  <1>4. CASE PrefillShard
    BY <1>4, ChunkIsWindowStep
  <1>5. CASE PrefillFails
    BY <1>5, LossIsWindowStep
  <1>6. CASE PromptDone \/ DecodeTop \/ DecodePromote
    BY <1>6, WindowStays DEF PromptDone, DecodeTop, DecodePromote
  <1>7. CASE CallbackThrows \/ DecodeFails \/ Finish
    <2>1. /\ pc \in {"top", "decode", "drain"} /\ goal' = "prompt"
          /\ UNCHANGED <<token_history, file>>
      BY <1>7 DEF CallbackThrows, DecodeFails, Finish, Abandon, Leave
    <2> QED BY <2>1, HistoryStays DEF WindowInv, TailDone
  <1>8. CASE DecodeBarrier
    <2>1. pc = "barrier" /\ file' = file
      BY <1>8 DEF DecodeBarrier, Abandon
    <2>2. CASE UNCHANGED <<token_history, todo, goal>>
      BY <2>1, <2>2, WindowStays
    <2>3. CASE CanSlide(1) /\ Evict(1, TRUE, "evict_decode")
      BY <2>1, <2>3, EvictIsWindowStep
    <2>4. CASE Leave /\ UNCHANGED token_history
      BY <2>1, <2>4, HistoryStays DEF Leave, WindowInv, TailDone
    <2> QED BY <1>8, <2>2, <2>3, <2>4 DEF DecodeBarrier, Abandon
  <1>9. CASE DecodeEvicted
    <2>1. todo = <<>> /\ todo' = <<>> /\ UNCHANGED <<token_history, file>>
      BY <1>9 DEF DecodeEvicted, Leave
    <2> QED BY <2>1, HistoryStays
  <1>10. CASE DecodeShard
    BY <1>10, TokenIsWindowStep
  <1> QED BY <1>1, <1>2, <1>3, <1>4, <1>5, <1>6, <1>7, <1>8, <1>9, <1>10 DEF GenerateStep

LEMMA NextIsWindowStep ==
    ASSUME WindowInv, WindowInv', NeverShort, CacheTypes, FileTypes, [Next]_vars
    PROVE  WindowStep
  <1> USE DEF model, chunkv
  <1>1. CASE ResetKVCache
    <2>1. /\ token_history' = <<>> /\ file' = file /\ goal' = "prompt"
      BY <1>1 DEF ResetKVCache, WindowInv, Resting
    <2>2. token_history' \in Seq(Token)
      BY DEF WindowInv, ContextInv, ContextTypes
    <2>3. Text' = <<>>
      BY <2>1, <2>2, TextIsHistoryThen
    <2> QED BY <2>1, <2>3 DEF WindowStep, Window!WNext, Window!Clear, Text, Saved
  <1>2. CASE SaveKVCacheToFile
    <2>1. UNCHANGED <<token_history, todo, goal>> /\ goal = "prompt"
      BY <1>2 DEF SaveKVCacheToFile, WindowInv, Resting
    <2>2. PICK parts : file' = Image(parts)
      BY <1>2 DEF SaveKVCacheToFile
    <2>3. file'.history = token_history
      BY <2>2 DEF Image
    <2>4. file' \in SavedFile
      <3>1. file'.parts = parts
        BY <2>2 DEF Image
      <3>2. parts \in SUBSET AllParts
        BY <1>2, <3>1 DEF SaveKVCacheToFile, AllParts, Image
      <3> QED BY <2>2, <3>2, ImageType DEF WindowInv
    <2>5. file' # None
      BY <2>4, ModelAssumption
    <2>6. token_history \in Seq(Token)
      BY DEF WindowInv, ContextInv, ContextTypes
    <2>7. Saved' = Text /\ UNCHANGED Text
      BY <2>1, <2>3, <2>5, <2>6, TextIsHistory DEF Saved, Text
    <2> QED BY <2>7 DEF WindowStep, Window!WNext, Window!Save, Text, Saved
  <1>3. CASE LoadKVCacheFromFile
    <2>1. file # None /\ file' = file /\ goal' = "prompt"
      BY <1>3 DEF LoadKVCacheFromFile, WindowInv, Resting
    <2>2. token_history' = file.history
      BY <1>3, <2>1 DEF LoadKVCacheFromFile, NeverShort, SoundFile, AllParts
    <2>3. token_history' \in Seq(Token)
      BY DEF WindowInv, ContextInv, ContextTypes
    <2>4. Text' = token_history'
      BY <2>1, <2>3, TextIsHistoryThen
    <2>5. Saved = token_history' /\ Saved # None /\ UNCHANGED Saved
      BY <2>1, <2>2, <2>3, ModelAssumption DEF Saved
    <2> QED BY <2>4, <2>5 DEF WindowStep, Window!WNext, Window!Restore, Text, Saved
  <1>4. CASE GenerateStep
    BY <1>4, CallIsWindowStep
  <1>5. ASSUME NEW j \in jobs, RunJob(j) PROVE WindowStep
    BY <1>5, WindowStays DEF RunJob
  <1>6. ASSUME NEW r \in Request, Generate(r) PROVE WindowStep
    BY <1>6, WindowStays DEF Generate
  <1>7. CASE UNCHANGED vars
    BY <1>7, WindowStays DEF vars
  <1> QED BY <1>1, <1>2, <1>3, <1>4, <1>5, <1>6, <1>7 DEF Next

\* With chunks, strides, variants, shards and re-prefills hidden, and files written
\* whole, the model is a bounded token window that grows at its end, loses runs above
\* an anchored prefix, and can be cleared, saved and restored.
THEOREM ModelImplementsWindow == FilesWhole => (Spec => ImplementsWindow)
  <1>1. Init => Window!WInit /\ TailDone
    <2> SUFFICES ASSUME Init PROVE Window!WInit /\ TailDone
      OBVIOUS
    <2>1. token_history = <<>> /\ goal = "prompt" /\ file = None
      BY DEF Init
    <2>2. token_history \o <<>> = <<>>
      BY <2>1, ConcatEmptySeq
    <2> QED BY <2>1, <2>2 DEF Window!WInit, TailDone
  <1>2. Resting' /\ TailDone /\ [Next]_vars => TailDone'
    BY TailDoneStep
  <1>3. TypeInv /\ TailDone /\ TypeInv' /\ TailDone' /\ [Next]_vars => [Window!WNext]_(Window!wvars)
    <2> SUFFICES ASSUME TypeInv, TailDone, TypeInv', TailDone', [Next]_vars
                 PROVE  [Window!WNext]_(Window!wvars)
      OBVIOUS
    <2>1. WindowInv /\ WindowInv'
      BY DEF TypeInv, WindowInv, ContextSound, NeverShort
    <2>2. WindowStep
      BY <2>1, NextIsWindowStep DEF TypeInv
    <2> QED BY <2>2 DEF WindowStep, Window!wvars, Text, Saved
  <1>4. TypeInv => Resting
    BY DEF TypeInv, ContextSound
  <1> SUFFICES ASSUME FilesWhole PROVE Spec => ImplementsWindow
    OBVIOUS
  <1> QED BY <1>1, <1>2, <1>3, <1>4, TypeInvariant, PTL DEF Spec, ImplementsWindow, Window!WSpec
-----------------------------------------------------------------------------
(* What the buffers have room for.                                         *)

\* No call was left in the middle of a decode step, and no short file was loaded.
Intact(d) == d \cap {"badload", "inflight"} = {} /\ (Faults = {} \/ "abandoned" \notin d)

\* The active variant has room for what the step at hand asks of it, unless there is
\* no larger one; a write-back in flight is for a place within that.
Roomy ==
    /\ pc \in {"idle", "fit", "chunk", "shard"} => active_cl = NumCL \/ Demand <= PrefillKV(active_cl)
    /\ pc \in {"top", "barrier", "promote", "decode", "drain"} =>
         active_cl = NumCL \/ Demand <= DecodeKV(active_cl)
    /\ \A j \in jobs : j.off \in Nat /\ j.off + 1 <= Demand

FileRoomy ==
    (file # None /\ file.parts = AllParts /\ Intact(file.damage)) =>
        file.active_cl = NumCL \/ file.n_past <= PrefillKV(file.active_cl)

CapacityInv == (Intact(damage) => Roomy) /\ FileRoomy

\* Where the steps start from, on a context that is intact.
Prepared == ContextInv /\ pc \in PC /\ active_cl \in 1 .. NumCL /\ Roomy /\ (Quiet => jobs = {})

LEMMA PreparedFacts ==
    ASSUME Prepared
    PROVE  /\ n_past \in Nat /\ Len(Chunk) \in Nat /\ Demand \in Nat /\ n_past <= Demand
           /\ pc # "shard" /\ pc # "decode" => Demand = n_past
           /\ PrefillKV(active_cl) \in Nat /\ DecodeKV(active_cl) \in Nat
           /\ PrefillKV(active_cl) <= DecodeKV(active_cl)
           /\ PrefillKV(NumCL) \in Nat /\ PrefillKV(NumCL) <= DecodeKV(NumCL)
           /\ MaxCL \in Nat /\ PrefillKV(NumCL) < MaxCL
  <1>1. n_past \in Nat /\ Len(Chunk) \in Nat
    BY ChunkFacts DEF Prepared, ContextInv, ContextTypes
  <1>2. MaxCL \in Nat /\ SeqLenPrefill \in Nat \ {0}
    BY MaxCLType, ModelAssumption
  <1>3. Demand \in Nat /\ n_past <= Demand /\ (pc # "shard" /\ pc # "decode" => Demand = n_past)
    BY <1>1 DEF Demand
  <1>4. PrefillKV(NumCL) = MaxCL - SeqLenPrefill
    BY DEF PrefillKV, MaxCL
  <1>5. PrefillKV(NumCL) < MaxCL
    BY <1>2, <1>4
  <1>6. /\ PrefillKV(active_cl) \in Nat /\ DecodeKV(active_cl) \in Nat
        /\ PrefillKV(active_cl) <= DecodeKV(active_cl)
        /\ PrefillKV(NumCL) \in Nat /\ PrefillKV(NumCL) <= DecodeKV(NumCL)
    BY StrideFacts DEF Prepared
  <1> QED BY <1>1, <1>2, <1>3, <1>5, <1>6

\* A restride that has room for what is valid at both strides loses nothing.
LEMMA NothingLost ==
    ASSUME NEW old \in Nat, NEW new \in Nat, NEW n \in Nat, Loses(old, new, n) # {}
    PROVE  n > old \/ n > new
  BY DEF Loses, CopyLen, Min2

\* Nor does a promotion.
LEMMA PromotionKeeps ==
    ASSUME active_cl \in 1 .. NumCL, n_past \in Nat, NEW required \in Nat,
           NEW reserved \in {SeqLenPrefill, SeqLenDecode},
           NEW stride_reserved \in {SeqLenPrefill, SeqLenDecode},
           active_cl = NumCL \/ n_past <= ContextLengths[active_cl] - stride_reserved
    PROVE  PromoteLoses(required, reserved, stride_reserved) = {}
  <1> DEFINE cl == PromotedCL(required, reserved)
             old == ContextLengths[active_cl] - stride_reserved
             new == ContextLengths[cl] - stride_reserved
  <1>1. cl \in active_cl .. NumCL
    BY PromotedFacts, ModelAssumption
  <1>2. NumCL \in Nat
    BY ModelAssumption DEF NumCL
  <1>3. CASE cl = active_cl
    BY <1>3 DEF PromoteLoses
  <1>4. CASE cl # active_cl
    <2>1. active_cl # NumCL
      BY <1>1, <1>2, <1>4
    <2>2. ContextLengths[active_cl] <= ContextLengths[cl]
      BY <1>1, Ascending
    <2>3. ContextLengths[active_cl] \in Nat /\ ContextLengths[cl] \in Nat
      BY <1>1, Ascending
    <2>4. old \in Nat /\ new \in Nat
      <3>1. cl \in 1 .. NumCL
        BY <1>1, <1>2
      <3> QED BY <3>1, StrideFacts DEF PrefillKV, DecodeKV
    <2>5. n_past <= old /\ n_past <= new
      <3>1. stride_reserved \in Nat
        BY ModelAssumption
      <3> QED BY <2>1, <2>2, <2>3, <3>1
    <2>6. Loses(old, new, n_past) = {}
      <3> HIDE DEF old, new
      <3> QED BY <2>4, <2>5, NothingLost
    <2> QED BY <1>4, <2>6 DEF PromoteLoses
  <1> QED BY <1>3, <1>4

\* Where a context is longer than a layout, and the layout is of the largest variant.
LEMMA BeyondPrefill ==
    ASSUME Prepared, NEW stride \in {PrefillKV(active_cl), DecodeKV(active_cl)}, Demand > stride,
           active_cl = NumCL \/ Demand <= stride
    PROVE  Demand > PrefillKV(NumCL)
  <1>1. active_cl = NumCL
    BY PreparedFacts
  <1> QED BY <1>1, PreparedFacts

\* A step that overruns or cuts is one on a context beyond the prefill layout.
LEMMA DamageNeedsLength ==
    ASSUME Prepared, [Next]_vars, pc # "idle", (damage' \ damage) \cap {"overrun", "truncated"} # {}
    PROVE  Demand > PrefillKV(NumCL)
  <1> DEFINE P == PrefillKV(active_cl)
             D == DecodeKV(active_cl)
             fresh == (damage' \ damage) \cap {"overrun", "truncated"}
  <1>0. /\ n_past \in Nat /\ P \in Nat /\ D \in Nat /\ P <= D /\ Len(Chunk) \in Nat /\ fresh # {}
        /\ Demand \in Nat /\ n_past <= Demand
        /\ (pc # "shard" /\ pc # "decode" => Demand = n_past)
    BY PreparedFacts
  <1>1. CASE FitPrompt \/ PromptEvicted \/ PrefillFails \/ DecodeTop \/ CallbackThrows \/ DecodeFails
    BY <1>0, <1>1
      DEF FitPrompt, PromptEvicted, PrefillFails, DecodeTop, CallbackThrows, DecodeFails, Abandon, Leave,
          Evict, EvictTo
  <1>2. CASE BeginChunk
    <2>1. pc = "chunk" /\ ChunkRequires \in Nat
      BY <1>0, <1>2 DEF BeginChunk, ChunkRequires
    <2>2. active_cl = NumCL \/ n_past <= ContextLengths[active_cl] - SeqLenPrefill
      BY <1>0, <2>1 DEF Prepared, Roomy, PrefillKV
    <2>3. PromoteLoses(ChunkRequires, SeqLenPrefill, SeqLenPrefill) = {}
      BY <1>0, <2>1, <2>2, PromotionKeeps DEF Prepared
    <2> QED BY <1>0, <1>2, <2>3 DEF BeginChunk
  <1>3. CASE PrefillShard
    <2>1. ~ FitsRow(P, n_past, Len(Chunk)) /\ pc = "shard"
      BY <1>0, <1>3 DEF PrefillShard, Overruns
    <2>2. Demand > P /\ (active_cl = NumCL \/ Demand <= P)
      BY <1>0, <2>1 DEF FitsRow, Demand, Prepared, Roomy
    <2> QED BY <2>2, BeyondPrefill
  <1>4. CASE PromptDone \/ DecodeEvicted
    <2>1. pc = "chunk" /\ Loses(P, D, n_past) # {}
      BY <1>0, <1>4 DEF PromptDone, DecodeEvicted
    <2>2. n_past > P
      <3>1. n_past > P \/ n_past > D
        BY <1>0, <2>1, NothingLost
      <3> QED BY <1>0, <3>1
    <2>3. Demand > P /\ (active_cl = NumCL \/ Demand <= P)
      BY <1>0, <2>1, <2>2 DEF Prepared, Roomy
    <2> QED BY <2>3, BeyondPrefill
  <1>5. CASE DecodeBarrier
    <2>1. pc = "barrier" /\ n_past + 1 > MaxCL
      BY <1>0, <1>5 DEF DecodeBarrier, Abandon
    <2> QED BY <1>0, <2>1, PreparedFacts
  <1>6. CASE DecodePromote
    <2>1. pc = "promote" /\ n_past + 1 \in Nat
      BY <1>0, <1>6 DEF DecodePromote
    <2>2. active_cl = NumCL \/ n_past <= ContextLengths[active_cl] - SeqLenDecode
      BY <1>0, <2>1 DEF Prepared, Roomy, DecodeKV
    <2>3. PromoteLoses(n_past + 1, SeqLenDecode, SeqLenDecode) = {}
      BY <1>0, <2>1, <2>2, PromotionKeeps DEF Prepared
    <2> QED BY <1>0, <1>6, <2>3 DEF DecodePromote
  <1>7. CASE DecodeShard
    <2>1. ~ FitsRow(D, n_past, 1) /\ pc = "decode"
      BY <1>0, <1>7 DEF DecodeShard, Overruns
    <2>2. Demand > D /\ (active_cl = NumCL \/ Demand <= D)
      BY <1>0, <2>1 DEF FitsRow, Demand, Prepared, Roomy
    <2> QED BY <2>2, BeyondPrefill
  <1>8. CASE Finish
    <2> DEFINE cl == PromotedCL(n_past, SeqLenPrefill)
    <2>1. pc = "drain" /\ Demand = n_past
      BY <1>0, <1>8 DEF Finish
    <2>2. active_cl = NumCL \/ n_past <= ContextLengths[active_cl] - SeqLenDecode
      BY <1>0, <2>1 DEF Prepared, Roomy, DecodeKV
    <2>3. PromoteLoses(n_past, SeqLenPrefill, SeqLenDecode) = {}
      BY <1>0, <2>2, PromotionKeeps DEF Prepared
    <2>4. cl \in active_cl .. NumCL /\ (cl = NumCL \/ PrefillKV(cl) >= n_past)
      BY <1>0, PromotedFacts, ModelAssumption DEF Prepared, PrefillKV
    <2>5. Loses(DecodeKV(cl), PrefillKV(cl), n_past) # {}
      BY <1>0, <1>8, <2>3 DEF Finish
    <2> HIDE DEF cl
    <2>6. DecodeKV(cl) \in Nat /\ PrefillKV(cl) \in Nat /\ PrefillKV(cl) <= DecodeKV(cl)
      <3>1. active_cl \in 1 .. NumCL
        BY DEF Prepared
      <3>2. cl \in 1 .. NumCL
        BY <2>4, <3>1
      <3> QED BY <3>2, StrideFacts
    <2>7. n_past > PrefillKV(cl)
      <3>1. n_past > DecodeKV(cl) \/ n_past > PrefillKV(cl)
        BY <1>0, <2>5, <2>6, NothingLost
      <3> QED BY <1>0, <2>6, <3>1
    <2>8. cl = NumCL
      BY <1>0, <2>4, <2>6, <2>7
    <2> QED BY <2>1, <2>7, <2>8
  <1>9. ASSUME NEW j \in jobs, RunJob(j) PROVE Demand > PrefillKV(NumCL)
    <2>1. ~ FitsRow(D, j.off, 1) /\ j.off \in Nat /\ j.off + 1 <= Demand
      BY <1>0, <1>9 DEF RunJob, Overruns, Prepared, Roomy
    <2>2. Demand > D
      BY <1>0, <2>1 DEF FitsRow
    <2>3. pc \in {"top", "barrier", "decode", "drain"}
      BY <1>9, <2>1 DEF Prepared, Quiet, PC
    <2> QED BY <2>2, <2>3, BeyondPrefill DEF Prepared, Roomy
  <1>10. CASE SaveKVCacheToFile \/ UNCHANGED vars
    BY <1>0, <1>10 DEF SaveKVCacheToFile, vars
  <1>11. ~ResetKVCache /\ ~LoadKVCacheFromFile /\ ~SaveKVCacheToFile /\ \A r \in Request : ~Generate(r)
    BY DEF ResetKVCache, LoadKVCacheFromFile, SaveKVCacheToFile, Generate
  <1> QED BY <1>1, <1>2, <1>3, <1>4, <1>5, <1>6, <1>7, <1>8, <1>9, <1>10, <1>11 DEF Next, GenerateStep

\* Places with the prefill layout, and with the decode layout.
LEMMA PrefillRoom ==
    ASSUME pc' \in {"idle", "fit", "chunk"}, jobs' = {}, ContextInv',
           active_cl' = NumCL \/ n_past' <= PrefillKV(active_cl')
    PROVE  Roomy'
  <1>1. n_past' \in Nat
    BY DEF ContextInv, ContextTypes
  <1>2. Demand' = n_past'
    <2>1. Demand' = n_past' + 0
      BY Zenon DEF Demand
    <2>2. \A n \in Nat : n + 0 = n
      OBVIOUS
    <2> QED BY <1>1, <2>1, <2>2, Zenon
  <1> QED BY <1>2 DEF Roomy

LEMMA DecodeRoom ==
    ASSUME pc' \in {"top", "barrier", "promote", "drain"}, ContextInv', active_cl' = NumCL \/ n_past' <= DecodeKV(active_cl'),
           \A j \in jobs' : j.off \in Nat /\ j.off + 1 <= n_past'
    PROVE  Roomy'
  <1>1. n_past' \in Nat
    BY DEF ContextInv, ContextTypes
  <1>2. Demand' = n_past'
    <2>1. Demand' = n_past' + 0
      BY Zenon DEF Demand
    <2>2. \A n \in Nat : n + 0 = n
      OBVIOUS
    <2> QED BY <1>1, <2>1, <2>2, Zenon
  <1> QED BY <1>2 DEF Roomy

\* Every step of generate(), and of the pool, finds or makes the room it needs.
LEMMA RoomStep ==
    ASSUME Prepared, ContextInv', GenerateStep \/ (\E j \in jobs : RunJob(j)), Intact(damage')
    PROVE  Roomy'
  <1> DEFINE P == PrefillKV(active_cl)
             D == DecodeKV(active_cl)
  <1>0. /\ n_past \in Nat /\ P \in Nat /\ D \in Nat /\ P <= D /\ Len(Chunk) \in Nat
        /\ Demand \in Nat /\ n_past <= Demand
        /\ (pc # "shard" /\ pc # "decode" => Demand = n_past)
        /\ MaxCL \in Nat /\ n_past <= MaxCL /\ active_cl \in 1 .. NumCL
    BY PreparedFacts DEF Prepared, ContextInv, RoomLeft
  <1>n. NumCL \in Nat
    BY ModelAssumption DEF NumCL
  <1>p. pc \in {"idle", "fit", "chunk", "shard"} =>
            /\ jobs = {} /\ (active_cl = NumCL \/ n_past <= P)
            /\ (active_cl = NumCL \/ Demand <= P)
    BY <1>0 DEF Prepared, Roomy, Quiet
  <1>d. pc \in {"top", "barrier", "promote", "decode", "drain"} =>
            /\ active_cl = NumCL \/ n_past <= D
            /\ active_cl = NumCL \/ Demand <= D
            /\ \A j \in jobs : j.off \in Nat /\ j.off + 1 <= Demand
    BY <1>0 DEF Prepared, Roomy
  \* A context that is full is one of the largest variant.
  <1>f. n_past + 1 > MaxCL /\ pc = "barrier" => active_cl = NumCL
    <2> SUFFICES ASSUME n_past + 1 > MaxCL, pc = "barrier", active_cl # NumCL PROVE FALSE
      OBVIOUS
    <2>1. n_past <= D
      BY <1>d
    <2>2. /\ ContextLengths[active_cl] \in Nat /\ ContextLengths[active_cl] <= MaxCL
          /\ SeqLenDecode \in Nat \ {0}
      <3>1. NumCL \in active_cl .. NumCL
        BY <1>0, ModelAssumption DEF NumCL
      <3> QED BY <1>0, <3>1, Ascending, ModelAssumption DEF MaxCL
    <2> QED BY <1>0, <2>1, <2>2 DEF DecodeKV
  <1>1. CASE FitPrompt
    <2>1. pc = "fit" /\ jobs' = jobs
      BY <1>1 DEF FitPrompt
    <2>2. CASE UNCHANGED model /\ pc' \in {"chunk", "idle"}
      BY <1>p, <2>1, <2>2, PrefillRoom DEF model
    <2>3. CASE CanSlide(Len(req.prompt)) /\ Evict(Len(req.prompt), FALSE, "evict_prompt")
      <3>1. n_past' = req.n_keep /\ pc' = "chunk" /\ active_cl' = active_cl
        BY <2>3 DEF Evict, EvictTo, Prefill
      <3>2. Len(req.prompt) \in Nat /\ req.n_keep \in Nat
        BY <2>1, RequestFacts DEF Prepared, ContextInv
      <3>3. req.n_keep < n_past
        BY <2>1, <2>3, <3>2, EvictFacts DEF Prepared
      <3>4. active_cl = NumCL \/ n_past' <= P
        BY <1>0, <1>p, <2>1, <3>1, <3>2, <3>3
      <3> QED BY <1>p, <2>1, <3>1, <3>4, PrefillRoom
    <2> QED BY <1>1, <2>2, <2>3 DEF FitPrompt, Prefill, Leave, model
  <1>2. CASE PromptEvicted \/ PrefillFails
    <2>1. pc \in {"chunk", "shard"} /\ pc' \in {"chunk", "idle"} /\ UNCHANGED <<model, jobs>>
      BY <1>2 DEF PromptEvicted, PrefillFails, Prefill, Leave
    <2> QED BY <1>p, <2>1, PrefillRoom DEF model
  <1>3. CASE BeginChunk
    <2> DEFINE need == n_past + Len(Chunk)
    <2>1. /\ pc = "chunk" /\ pc' = "shard" /\ jobs' = jobs /\ active_cl' = PromotedCL(need, SeqLenPrefill)
          /\ UNCHANGED <<n_past, todo>>
      BY <1>3 DEF BeginChunk, ChunkRequires
    <2>2. Demand' = need
      BY <2>1 DEF Demand, Chunk
    <2>3. need \in Nat
      BY <1>0
    <2> HIDE DEF need
    <2>4. active_cl' = NumCL \/ PrefillKV(active_cl') >= need
      BY <1>0, <2>1, <2>3, PromotedFacts, ModelAssumption DEF PrefillKV
    <2>5. active_cl' \in 1 .. NumCL
      <3>1. active_cl' \in active_cl .. NumCL
        BY <1>0, <2>1, <2>3, PromotedFacts, ModelAssumption
      <3> QED BY <1>0, <1>n, <3>1
    <2>6. PrefillKV(active_cl') \in Nat
      BY <2>5, StrideFacts
    <2>7. active_cl' = NumCL \/ Demand' <= PrefillKV(active_cl')
      BY <2>2, <2>3, <2>4, <2>6
    <2> QED BY <1>p, <2>1, <2>7 DEF Roomy
  <1>4. CASE PrefillShard
    <2>1. pc = "shard" /\ Demand = n_past + Len(Chunk) /\ jobs' = jobs /\ active_cl' = active_cl
      BY <1>4 DEF PrefillShard, Demand
    <2>2. CASE UNCHANGED <<pc, n_past, todo>>
      <3>1. Demand' = Demand
        BY <2>2 DEF Demand, Chunk
      <3> QED BY <1>p, <2>1, <2>2, <3>1 DEF Roomy
    <2>3. CASE pc' = "chunk" /\ n_past' = n_past + Len(Chunk)
      BY <1>p, <2>1, <2>3, PrefillRoom
    <2> QED BY <1>4, <2>2, <2>3 DEF PrefillShard
  <1>5. CASE PromptDone
    <2>1. pc = "chunk" /\ pc' = "top" /\ UNCHANGED <<model, jobs>>
      BY <1>5 DEF PromptDone
    <2>2. active_cl = NumCL \/ n_past <= D
      BY <1>0, <1>p, <2>1
    <2> QED BY <1>p, <2>1, <2>2, DecodeRoom DEF model
  <1>6. CASE DecodeTop
    <2>1. pc = "top" /\ pc' \in {"barrier", "drain"} /\ UNCHANGED <<model, jobs>> /\ Demand = n_past
      BY <1>0, <1>6 DEF DecodeTop
    <2> QED BY <1>d, <2>1, DecodeRoom DEF model
  <1>7. CASE CallbackThrows \/ DecodeFails
    <2>1. damage' = damage \cup {"abandoned"} \cup (IF jobs = {} THEN {} ELSE {"inflight"}) /\ Faults # {}
      BY <1>7 DEF CallbackThrows, DecodeFails, Abandon
    <2> QED BY <2>1 DEF Intact
  <1>8. CASE DecodeBarrier
    <2>1. pc = "barrier" /\ jobs = {} /\ jobs' = {} /\ Demand = n_past
      BY <1>0, <1>8 DEF DecodeBarrier, PoolWait, Abandon
    <2>2. CASE pc' = "promote" /\ UNCHANGED model
      BY <1>d, <2>1, <2>2, DecodeRoom DEF model
    <2>3. CASE n_past + 1 > MaxCL /\ CanSlide(1) /\ Evict(1, TRUE, "evict_decode")
      <3>1. pc' = "chunk" /\ active_cl' = active_cl
        BY <2>3 DEF Evict, EvictTo, Prefill
      <3> QED BY <1>f, <2>1, <2>3, <3>1, PrefillRoom
    <2>4. CASE n_past + 1 > MaxCL /\ Abandon
      <3>1. pc' = "idle" /\ active_cl' = active_cl
        BY <2>4 DEF Abandon, Leave, model
      <3> QED BY <1>f, <2>1, <2>4, <3>1, PrefillRoom
    <2> QED BY <1>8, <2>2, <2>3, <2>4 DEF DecodeBarrier
  <1>9. CASE DecodeEvicted
    <2>1. pc = "chunk" /\ pc' \in {"promote", "idle"} /\ UNCHANGED <<model, jobs>>
      BY <1>9 DEF DecodeEvicted, Leave
    <2>2. active_cl = NumCL \/ n_past <= D
      BY <1>0, <1>p, <2>1
    <2>3. CASE pc' = "promote"
      BY <1>p, <2>1, <2>2, <2>3, DecodeRoom DEF model
    <2>4. CASE pc' = "idle"
      BY <1>p, <2>1, <2>4, PrefillRoom DEF model
    <2> QED BY <2>1, <2>3, <2>4
  <1>10. CASE DecodePromote
    <2> DEFINE need == n_past + 1
    <2>1. /\ pc = "promote" /\ pc' = "decode" /\ jobs = {} /\ jobs' = jobs
          /\ active_cl' = PromotedCL(need, SeqLenDecode) /\ n_past' = n_past
      BY <1>10 DEF DecodePromote, Prepared, Quiet
    <2>2. Demand' = need
      BY <2>1 DEF Demand
    <2>3. need \in Nat
      BY <1>0
    <2> HIDE DEF need
    <2>4. active_cl' = NumCL \/ DecodeKV(active_cl') >= need
      BY <1>0, <2>1, <2>3, PromotedFacts, ModelAssumption DEF DecodeKV
    <2>5. active_cl' \in 1 .. NumCL
      <3>1. active_cl' \in active_cl .. NumCL
        BY <1>0, <2>1, <2>3, PromotedFacts, ModelAssumption
      <3> QED BY <1>0, <1>n, <3>1
    <2>6. DecodeKV(active_cl') \in Nat
      BY <2>5, StrideFacts
    <2>7. active_cl' = NumCL \/ Demand' <= DecodeKV(active_cl')
      BY <2>2, <2>3, <2>4, <2>6
    <2> QED BY <2>1, <2>7 DEF Roomy
  <1>11. CASE DecodeShard
    <2>1. /\ pc = "decode" /\ Demand = n_past + 1 /\ active_cl' = active_cl
          /\ jobs' \subseteq jobs \cup {[shard |-> shard, off |-> n_past]}
      BY <1>11 DEF DecodeShard, Demand
    <2>2. \A j \in jobs' : j.off \in Nat /\ j.off + 1 <= Demand
      BY <1>0, <1>d, <2>1
    <2>3. CASE UNCHANGED <<pc, n_past>>
      <3>1. Demand' = Demand
        BY <2>1, <2>3 DEF Demand
      <3> QED BY <1>d, <2>1, <2>2, <2>3, <3>1 DEF Roomy
    <2>4. CASE pc' = "top" /\ n_past' = n_past + 1
      BY <1>d, <2>1, <2>2, <2>4, DecodeRoom
    <2> QED BY <1>11, <2>3, <2>4 DEF DecodeShard
  <1>12. CASE Finish
    <2>1. /\ pc = "drain" /\ pc' = "idle" /\ jobs' = {} /\ n_past' = n_past
          /\ active_cl' = PromotedCL(n_past, SeqLenPrefill)
      BY <1>12 DEF Finish, PoolWait, Leave
    <2>2. active_cl' = NumCL \/ PrefillKV(active_cl') >= n_past
      BY <1>0, <2>1, PromotedFacts, ModelAssumption DEF PrefillKV
    <2>3. active_cl' \in 1 .. NumCL
      <3>1. active_cl' \in active_cl .. NumCL
        BY <1>0, <2>1, PromotedFacts, ModelAssumption
      <3> QED BY <1>0, <1>n, <3>1
    <2>4. PrefillKV(active_cl') \in Nat
      BY <2>3, StrideFacts
    <2>5. active_cl' = NumCL \/ n_past' <= PrefillKV(active_cl')
      BY <1>0, <2>1, <2>2, <2>4
    <2> QED BY <2>1, <2>5, PrefillRoom
  <1>13. ASSUME NEW j \in jobs, RunJob(j) PROVE Roomy'
    <2>1. jobs' \subseteq jobs /\ UNCHANGED <<pc, n_past, active_cl, todo>>
      BY <1>13 DEF RunJob, model, chunkv
    <2>2. Demand' = Demand
      BY <2>1 DEF Demand, Chunk
    <2> QED BY <2>1, <2>2 DEF Prepared, Roomy
  <1> QED BY <1>1, <1>2, <1>3, <1>4, <1>5, <1>6, <1>7, <1>8, <1>9, <1>10, <1>11, <1>12, <1>13 DEF GenerateStep

\* An abandoned call is forgotten, if not by a reset or a load, then by an eviction that
\* anchors nothing.
LEMMA AbandonedStays ==
    ASSUME [Next]_vars, ~ResetKVCache, ~LoadKVCacheFromFile, "abandoned" \in damage, "abandoned" \notin damage'
    PROVE  n_past' = 0 /\ pc' = "chunk" /\ active_cl' = active_cl
  <1> USE DEF Evict, EvictTo, Prefill, Abandon
  <1>1. CASE FitPrompt \/ DecodeBarrier
    BY <1>1 DEF FitPrompt, DecodeBarrier
  <1>2. CASE PromptEvicted \/ BeginChunk \/ PrefillShard \/ PrefillFails \/ PromptDone
    BY <1>2 DEF PromptEvicted, BeginChunk, PrefillShard, PrefillFails, PromptDone
  <1>3. CASE DecodeTop \/ CallbackThrows \/ DecodeEvicted \/ DecodePromote
    BY <1>3 DEF DecodeTop, CallbackThrows, DecodeEvicted, DecodePromote
  <1>4. CASE DecodeShard \/ DecodeFails \/ Finish
    BY <1>4 DEF DecodeShard, DecodeFails, Finish
  <1>5. ASSUME NEW j \in jobs, RunJob(j) PROVE FALSE
    BY <1>5 DEF RunJob
  <1>6. CASE SaveKVCacheToFile \/ UNCHANGED vars
    BY <1>6 DEF SaveKVCacheToFile, vars
  <1>7. ASSUME NEW r \in Request, Generate(r) PROVE FALSE
    BY <1>7 DEF Generate
  <1> QED BY <1>1, <1>2, <1>3, <1>4, <1>5, <1>6, <1>7 DEF Next, GenerateStep

LEMMA FileRoomyStep ==
    ASSUME ContextSound, CapacityInv, Variants, [Next]_vars
    PROVE  FileRoomy'
  <1>1. CASE SaveKVCacheToFile
    <2>1. PICK parts : file' = Image(parts)
      BY <1>1 DEF SaveKVCacheToFile
    <2>2. file'.active_cl = active_cl /\ file'.n_past = n_past /\ file'.damage = damage /\ pc = "idle"
      BY <1>1, <2>1 DEF SaveKVCacheToFile, Image
    <2>3. ASSUME Intact(damage) PROVE active_cl = NumCL \/ n_past <= PrefillKV(active_cl)
      <3>1. n_past \in Nat /\ Roomy
        BY <2>3 DEF Intact, ContextSound, ContextInv, ContextTypes, CapacityInv
      <3>2. n_past + 0 = n_past
        BY <3>1
      <3>3. Demand = n_past
        BY <2>2, <3>2 DEF Demand
      <3> QED BY <2>2, <3>1, <3>3 DEF Roomy
    <2> QED BY <2>2, <2>3 DEF FileRoomy
  <1>2. CASE ~SaveKVCacheToFile
    BY <1>2, FileStays DEF CapacityInv, FileRoomy
  <1> QED BY <1>1, <1>2

LEMMA CapacityStep ==
    ASSUME ContextSound, ContextSound', CacheSound, CacheSound', ControlTypes, CapacityInv, [Next]_vars
    PROVE  CapacityInv'
  <1>1. FileRoomy'
    BY FileRoomyStep DEF CacheSound
  <1>2. SUFFICES ASSUME Intact(damage') PROVE Roomy'
    BY <1>1 DEF CapacityInv
  <1>3. ContextInv' /\ (Quiet' => jobs' = {}) /\ "badload" \notin damage' /\ "inflight" \notin damage'
    BY <1>2 DEF Intact, ContextSound, CacheSound, QuietInv
  <1>4. CASE ResetKVCache
    <2>1. /\ pc' = "idle" /\ n_past' = 0 /\ active_cl' = 1
          /\ damage' = IF jobs = {} THEN {} ELSE {"inflight"}
      BY <1>4 DEF ResetKVCache
    <2>2. jobs' = {}
      BY <1>3, <2>1 DEF Quiet
    <2>3. PrefillKV(1) \in Nat
      <3>1. 1 \in 1 .. NumCL
        BY ModelAssumption, EmptySeq DEF NumCL
      <3> QED BY <3>1, StrideFacts
    <2>4. n_past' <= PrefillKV(active_cl')
      BY <2>1, <2>3
    <2> QED BY <1>3, <2>1, <2>2, <2>4, PrefillRoom
  <1>5. CASE LoadKVCacheFromFile
    <2>1. /\ pc' = "idle" /\ file # None
          /\ damage' = (IF file.parts = AllParts THEN file.damage ELSE {"badload"})
                          \cup (IF jobs = {} THEN {} ELSE {"inflight"})
      BY <1>5 DEF LoadKVCacheFromFile
    <2>2. file.parts = AllParts
      BY <1>3, <2>1
    <2>3. Intact(file.damage)
      BY <1>2, <2>1, <2>2 DEF Intact
    <2>4. n_past' = file.n_past /\ active_cl' = file.active_cl
      BY <1>5, <2>2 DEF LoadKVCacheFromFile, AllParts
    <2>5. jobs' = {}
      BY <1>3, <2>1 DEF Quiet
    <2> QED BY <1>3, <2>1, <2>2, <2>3, <2>4, <2>5, PrefillRoom DEF CapacityInv, FileRoomy
  <1>6. CASE ~ResetKVCache /\ ~LoadKVCacheFromFile
    <2>1. "badload" \notin damage /\ "inflight" \notin damage
      BY <1>3, <1>6, ShortFileStays, JobsStayKnown
    <2>2. CASE Intact(damage)
      <3>1. Prepared
        BY <2>1, <2>2 DEF Prepared, CapacityInv, ContextSound, CacheSound, Variants, QuietInv, ControlTypes
      <3>2. CASE GenerateStep \/ (\E j \in jobs : RunJob(j))
        BY <1>2, <1>3, <3>1, <3>2, RoomStep
      <3>3. ASSUME NEW r \in Request, Generate(r) PROVE Roomy'
        <4>1. pc = "idle" /\ pc' = "fit" /\ UNCHANGED <<n_past, active_cl, jobs>>
          BY <3>3 DEF Generate, model
        <4>2. Demand = n_past /\ jobs' = {}
          BY <1>3, <3>1, <4>1, PreparedFacts DEF Quiet
        <4> QED BY <1>3, <3>1, <4>1, <4>2, PrefillRoom DEF Prepared, Roomy
      <3>4. CASE SaveKVCacheToFile \/ UNCHANGED vars
        <4>1. UNCHANGED <<pc, n_past, active_cl, jobs, todo>>
          BY <3>4 DEF SaveKVCacheToFile, vars, model, chunkv
        <4>2. Demand' = Demand
          BY <4>1 DEF Demand, Chunk
        <4> QED BY <3>1, <4>1, <4>2 DEF Prepared, Roomy
      <3> QED BY <1>6, <3>2, <3>3, <3>4 DEF Next
    <2>3. CASE ~ Intact(damage)
      <3>1. "abandoned" \in damage /\ "abandoned" \notin damage'
        BY <1>2, <2>1, <2>3 DEF Intact
      <3>2. n_past' = 0 /\ pc' = "chunk" /\ active_cl' = active_cl
        BY <1>6, <3>1, AbandonedStays
      <3>3. active_cl' \in 1 .. NumCL
        BY <2>1, <3>2 DEF CacheSound, Variants
      <3>4. n_past' <= PrefillKV(active_cl')
        BY <3>2, <3>3, StrideFacts
      <3> QED BY <1>3, <3>2, <3>4, PrefillRoom DEF Quiet
    <2> QED BY <2>2, <2>3
  <1> QED BY <1>4, <1>5, <1>6

\* Without failures no write-back outlives its call.
NoneInFlight == "inflight" \notin damage /\ (file # None => "inflight" \notin file.damage)

LEMMA NoneInFlightStep ==
    ASSUME Faults = {}, QuietInv, NoneInFlight, [Next]_vars
    PROVE  NoneInFlight'
  <1> USE DEF NoneInFlight, Leave, Evict, EvictTo, Abandon, Loses, Overruns, PromoteLoses
  <1>1. CASE FitPrompt \/ PromptEvicted \/ BeginChunk \/ PrefillShard \/ PrefillFails \/ PromptDone
    BY <1>1 DEF FitPrompt, PromptEvicted, BeginChunk, PrefillShard, PrefillFails, PromptDone
  <1>2. CASE DecodeTop \/ CallbackThrows \/ DecodeEvicted \/ DecodePromote
    BY <1>2 DEF DecodeTop, CallbackThrows, DecodeEvicted, DecodePromote
  <1>3. CASE DecodeBarrier
    BY <1>3 DEF DecodeBarrier, PoolWait
  <1>4. CASE DecodeShard \/ DecodeFails \/ Finish
    BY <1>4 DEF DecodeShard, DecodeFails, Finish
  <1>5. ASSUME NEW j \in jobs, RunJob(j) PROVE NoneInFlight'
    BY <1>5 DEF RunJob
  <1>6. CASE ResetKVCache
    BY <1>6 DEF ResetKVCache, QuietInv, Quiet
  <1>7. CASE SaveKVCacheToFile
    BY <1>7 DEF SaveKVCacheToFile, Image
  <1>8. CASE LoadKVCacheFromFile
    BY <1>8 DEF LoadKVCacheFromFile, QuietInv, Quiet
  <1>9. ASSUME NEW r \in Request, Generate(r) PROVE NoneInFlight'
    BY <1>9 DEF Generate
  <1>10. CASE UNCHANGED vars
    BY <1>10 DEF vars
  <1> QED BY <1>1, <1>2, <1>3, <1>4, <1>5, <1>6, <1>7, <1>8, <1>9, <1>10 DEF Next, GenerateStep

RoomInv == ContextSound /\ CacheSound /\ ControlTypes /\ CapacityInv

LEMMA RoomInvariant == Spec => []RoomInv
  <1>1. Init => ControlTypes /\ CapacityInv
    <2> SUFFICES ASSUME Init PROVE ControlTypes /\ CapacityInv
      OBVIOUS
    <2>1. ControlTypes
      BY DEF Init, ControlTypes, PC
    <2>2. PrefillKV(1) \in Nat /\ 0 <= PrefillKV(1)
      <3>1. 1 \in 1 .. NumCL
        BY ModelAssumption, EmptySeq DEF NumCL
      <3> QED BY <3>1, StrideFacts
    <2>3. Roomy
      <3>1. Demand = 0
        BY DEF Init, Demand
      <3> QED BY <2>2, <3>1 DEF Init, Roomy
    <2> QED BY <2>1, <2>3 DEF Init, CapacityInv, FileRoomy
  <1>2. ControlTypes /\ [Next]_vars => ControlTypes'
    BY ControlTypesStep
  <1>3. ContextSound /\ ContextSound' /\ CacheSound /\ CacheSound' /\ ControlTypes /\ CapacityInv /\ [Next]_vars
          => CapacityInv'
    BY CapacityStep
  <1>4. ContextSound /\ CacheSound /\ ControlTypes /\ CapacityInv <=> RoomInv
    BY DEF RoomInv
  <1> QED BY <1>1, <1>2, <1>3, <1>4, CacheInvariant, PTL DEF Spec

\* What SafeBelowPrefillCapacity says, of contexts that no exception and no short file
\* left behind.
SafeWhileIntact ==
    [][ (Intact(damage) /\ pc # "idle" /\ (damage' \ damage) \cap {"overrun", "truncated"} # {})
          => Demand > PrefillKV(NumCL) ]_vars

LEMMA IntactStep ==
    ASSUME RoomInv, [Next]_vars, Intact(damage), pc # "idle",
           (damage' \ damage) \cap {"overrun", "truncated"} # {}
    PROVE  Demand > PrefillKV(NumCL)
  <1>1. Prepared
    BY DEF RoomInv, Intact, Prepared, CapacityInv, ContextSound, CacheSound, Variants, QuietInv, ControlTypes
  <1> QED BY <1>1, DamageNeedsLength

\* Whatever fails elsewhere: until an exception leaves a decode step half-way or a short
\* file is loaded, rows are overrun and contexts cut only by contexts longer than the
\* prefill layout of the largest variant.
THEOREM IntactCacheIsSafe == Spec => SafeWhileIntact
  <1>1. RoomInv /\ [Next]_vars
          => [ (Intact(damage) /\ pc # "idle" /\ (damage' \ damage) \cap {"overrun", "truncated"} # {})
                 => Demand > PrefillKV(NumCL) ]_vars
    BY IntactStep
  <1> QED BY <1>1, RoomInvariant, PTL DEF Spec, SafeWhileIntact

\* Where nothing fails, no sequence of calls overruns a row or cuts the cache below that
\* length: every promotion and restride of generate() has made room before it is needed.
THEOREM SafeBelowCapacity == Faults = {} => (Spec => SafeBelowPrefillCapacity)
  <1> SUFFICES ASSUME Faults = {} PROVE Spec => SafeBelowPrefillCapacity
    OBVIOUS
  <1>1. FilesWhole
    BY DEF FilesWhole
  <1>2. Init => NoneInFlight
    BY DEF Init, NoneInFlight
  <1>3. RoomInv /\ NoneInFlight /\ [Next]_vars => NoneInFlight'
    BY NoneInFlightStep DEF RoomInv, CacheSound
  <1>4. RoomInv /\ NoneInFlight /\ NeverShort /\ [Next]_vars
          => [ (pc # "idle" /\ (damage' \ damage) \cap {"overrun", "truncated"} # {})
                 => Demand > PrefillKV(NumCL) ]_vars
    <2> SUFFICES ASSUME NoneInFlight, NeverShort, RoomInv, [Next]_vars, pc # "idle",
                        (damage' \ damage) \cap {"overrun", "truncated"} # {}
                 PROVE  Demand > PrefillKV(NumCL)
      OBVIOUS
    <2>1. Intact(damage)
      BY DEF Intact, NoneInFlight, NeverShort
    <2> QED BY <2>1, IntactStep
  <1>5. Spec => [](ContextInv /\ NeverShort)
    BY <1>1, ContextInvariant
  <1> QED BY <1>2, <1>3, <1>4, <1>5, RoomInvariant, PTL DEF Spec, SafeBelowPrefillCapacity
=============================================================================
