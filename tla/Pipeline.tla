------------------------------ MODULE Pipeline ------------------------------
(***************************************************************************)
(* The three conversation front ends and the programs that drive them:     *)
(* LLMPipeline and VLMPipeline (core/src/pipeline), and the Pipeline of    *)
(* examples/auto_llm; with the life of the sampler that LLMModel keeps     *)
(* between their calls.  The model below them is what module TokenWindow   *)
(* promises of it: a bounded window of tokens.  A reply is sampled token   *)
(* by token; the front end streams it, works out from counts why it ended, *)
(* and reports that to the program.                                        *)
(***************************************************************************)
EXTENDS SlidingWindow, SequencesExt

CONSTANTS
    Messages,       \* what users say: nonempty sequences of tokens
    Words, Eos,     \* what models say; the end-of-sequence tokens
    Silent,         \* words that decode to an empty piece
    Bos, EndOfTurn, \* tokens that front ends and chat templates add
    Bundles,        \* models on disk
    SamplerCfgs,    \* sampling configurations; Greedy is sampling off
    Greedy,
    MaxTokens, Sliding, NKeep, MaxCL,
    Faults,         \* whether graphs and processors fail
    MaxTurns,       \* bound on the turns of a conversation
    MayCreate,      \* bound: after how many turns one may create
    MaySave,        \* bound: contexts of which lengths one may save
    None

Token == (UNION {{msg[i] : i \in DOMAIN msg} : msg \in Messages})
           \cup Words \cup Eos \cup {Bos, EndOfTurn}

\* The prompt and the options of the call that is active.
Request == [ids : Seq(Token) \ {<<>>}, max_tokens : MaxTokens, sliding : BOOLEAN]

ASSUME PipelineAssumption ==
    /\ Messages \subseteq Seq(Token) \ {<<>>} /\ Silent \subseteq Words
    /\ Words \cap Eos = {} /\ Bos \notin Words \cup Eos \cup {EndOfTurn}
    /\ MaxTokens \subseteq Nat /\ Sliding \subseteq BOOLEAN
    /\ MaxCL \in Nat /\ NKeep \in 0 .. MaxCL
    /\ MaxTurns \in Nat /\ MayCreate \subseteq Nat /\ MaySave \subseteq Nat
    /\ None \notin Request \cup {"error"}

VARIABLES
    kind, bos_token_id,            \* which front end, and what it was told
    ready, model, tokenizer,       \* Impl: the bundle model and tokenizer are of
    token_history, sampler,        \* LLMModel: the context; sampler_ and its config
    pc, req, next_token,           \* generate()
    output, user_stopped,
    result,                        \* the last GenerateResult
    messages,                      \* auto_llm: the chat so far
    file,
    turns, heard, ended, damage    \* history: the turns, everything prompted or
                                   \* sampled, why the reply ended, what went wrong

impl == <<kind, bos_token_id, ready, model, tokenizer>>
call == <<req, next_token, output, user_stopped>>
history == <<turns, heard, ended, damage>>
vars == <<impl, token_history, sampler, pc, call, result, messages, file, history>>

Kinds == {"llm", "vlm", "auto"}
n_past == Len(token_history)

Init ==
    /\ kind \in Kinds /\ bos_token_id \in (IF kind = "auto" THEN {None} ELSE {Bos, None})
    /\ ready = FALSE /\ model = None /\ tokenizer = None
    /\ token_history = <<>> /\ sampler = None
    /\ pc = "idle" /\ req = None /\ next_token = None /\ output = <<>> /\ user_stopped = FALSE
    /\ result = None /\ messages = <<>> /\ file = None
    /\ turns = <<>> /\ heard = <<>> /\ ended = None /\ damage = {}
-----------------------------------------------------------------------------
(* Creation.                                                               *)

Outcomes == IF kind = "vlm" THEN {"ok"} ELSE {"ok", "init_fails", "no_tokenizer", "no_template"}

\* A failure drops the model that create() has already moved in.
CreatedModel(b, outcome) == IF outcome = "ok" THEN b ELSE None

\* create(): the model moves in, whatever was there before.
Create(b, outcome) ==
    /\ pc = "idle" /\ outcome \in Outcomes /\ Len(turns) \in MayCreate
    /\ model' = CreatedModel(b, outcome)
    /\ tokenizer' = CASE outcome = "ok" -> b
                      [] outcome = "init_fails" -> tokenizer
                      [] OTHER -> None
    /\ ready' = (ready \/ outcome = "ok")
    /\ token_history' = <<>> /\ sampler' = None
    /\ turns' = <<>> /\ heard' = <<>> /\ damage' = {} /\ result' = None /\ ended' = None
    /\ UNCHANGED <<kind, bos_token_id, pc, call, messages, file>>

\* The test generate() begins with; LLMPipeline does not look at its tokenizer.
CanGenerate == ready /\ model # None /\ (kind # "llm" => tokenizer # None)
-----------------------------------------------------------------------------
(* A turn.                                                                 *)

\* The chat template (external): every message in its place, a finished reply closed.
Render(chat) ==
    FlattenSeq([i \in DOMAIN chat |->
        chat[i].content \o IF chat[i].role = "assistant" THEN <<EndOfTurn>> ELSE <<>>])

User(msg) == [role |-> "user", content |-> msg]

\* What the template is given: auto_llm renders the whole chat, the programs over the
\* other two only what was just said.
Prompt(msg) == IF kind = "auto" THEN Render(Append(messages, User(msg))) ELSE msg

\* Mutant: BOS goes before the first prompt submitted, whatever became of it.
WithBosOnce(ids) ==
    IF bos_token_id # None /\ turns = <<>> /\ Head(ids) # Bos
      THEN <<Bos>> \o ids ELSE ids

\* BOS on the first turn, unless it is there already.
WithBos(ids) ==
    IF bos_token_id # None /\ n_past = 0 /\ Head(ids) # Bos
      THEN <<Bos>> \o ids ELSE ids

CanReuse(cfg) == sampler # None /\ sampler.cfg = cfg

\* Mutant: only the prompt a sampler is made for is put into its history.
PreparedSamplerOnce(cfg, ids) ==
    IF cfg = Greedy THEN None
    ELSE IF CanReuse(cfg) THEN sampler
    ELSE [cfg |-> cfg, seen |-> ids, since |-> n_past]

\* prepareSampler, before it is known whether the prompt fits; since records where in
\* the context a sampler begins to listen.
PreparedSampler(cfg, ids) ==
    IF cfg = Greedy THEN None
    ELSE IF CanReuse(cfg) THEN [sampler EXCEPT !.seen = @ \o ids]
    ELSE [cfg |-> cfg, seen |-> ids, since |-> n_past]

\* Bound: a conversation has MaxTurns turns, one less once something was saved.
TurnBound == IF file = None THEN MaxTurns ELSE MaxTurns - 1

\* generate() up to the capacity check of LLMModel; LLMPipeline also takes token ids,
\* which it leaves as they are.
Generate(msg, tokenized, cfg, max_tokens, sliding) ==
    /\ pc = "idle" /\ CanGenerate
    /\ Len(turns) < TurnBound /\ Len(messages) < 2 * MaxTurns
    /\ tokenized => kind = "llm"
    /\ LET ids == IF tokenized THEN msg ELSE WithBos(Prompt(msg))
       IN  /\ req' = [ids |-> ids, max_tokens |-> max_tokens, sliding |-> sliding]
           /\ sampler' = PreparedSampler(cfg, ids)
           /\ heard' = heard \o ids
           /\ turns' = Append(turns, [prompt |-> ids, tokenized |-> tokenized,
                                      reply |-> <<>>, reason |-> None])
    /\ messages' = IF kind = "auto" THEN Append(messages, User(msg)) ELSE messages
    /\ output' = <<>> /\ user_stopped' = FALSE /\ next_token' = None
    /\ pc' = "fit" /\ result' = None /\ ended' = None
    /\ UNCHANGED <<impl, token_history, file, damage>>

\* resetKVCache.
ClearModel ==
    /\ token_history' = <<>> /\ sampler' = None
    /\ turns' = <<>> /\ heard' = <<>> /\ damage' = {}

\* A call that ends in "error" before the model is asked: nothing was made, or the
\* processor failed.  The programs of the VLM and of auto_llm then reset; auto_llm
\* takes its message back.
Error ==
    /\ pc = "idle"
    /\ \/ ~CanGenerate
       \/ Faults /\ kind # "llm"
    /\ result' = [reason |-> "error", generated_tokens |-> 0, text |-> <<>>]
    /\ ended' = "error"
    /\ IF kind # "llm" /\ model # None THEN ClearModel
       ELSE UNCHANGED <<token_history, sampler, turns, heard, damage>>
    /\ UNCHANGED <<impl, pc, call, messages, file>>

\* full_text, which a silent word adds nothing to.
Text == FlattenSeq([i \in DOMAIN output |-> IF output[i] \in Silent THEN <<>> ELSE <<output[i]>>])

\* finalize_generate_result.
Result(total, reason) ==
    [reason |-> reason,
     generated_tokens |-> total + IF reason = "eos" THEN 1 ELSE 0,
     text |-> Text]

\* The call returns to the program, which notes the reply.
Return(reason) ==
    /\ pc' = "idle"
    /\ result' = Result(Len(output), reason)
    /\ turns' = [turns EXCEPT ![Len(turns)] = [@ EXCEPT !.reply = output, !.reason = reason]]
    /\ messages' = IF kind = "auto"
                     THEN Append(messages, [role |-> "assistant", content |-> Text])
                     ELSE messages
    /\ req' = None /\ next_token' = None /\ output' = <<>> /\ user_stopped' = FALSE

\* Any other exception passes through; the program has no result.
Throw ==
    /\ pc' = "idle" /\ result' = None /\ ended' = "exception"
    /\ req' = None /\ next_token' = None /\ output' = <<>> /\ user_stopped' = FALSE
    /\ damage' = damage \cup {"exception"}
    /\ UNCHANGED <<impl, sampler, messages, file, turns, heard>>

EffectiveKeep == IF req.sliding THEN NKeep ELSE 0
Discard(n_fit) == ComputeSlideDiscard(n_past, n_fit, MaxCL, EffectiveKeep)

\* Mutant: the tokens already in the context are forgotten.
FitsAlone(n_fit) == n_fit <= MaxCL

Fits(n_fit) == n_past + n_fit <= MaxCL
CanSlide(n_fit) ==
    req.sliding /\ Discard(n_fit) > 0 /\ n_past - Discard(n_fit) + n_fit <= MaxCL

\* The model evicts (TokenWindow!EvictRun) and prefills the survivors again.
Evict(n_fit, next) ==
    /\ ~Fits(n_fit) /\ CanSlide(n_fit)
    /\ token_history' = SubSeq(token_history, 1, EffectiveKeep) \o
                          SubSeq(token_history, EffectiveKeep + Discard(n_fit) + 1, n_past)
    /\ pc' = next
    /\ damage' = damage \cup {"evicted"}
    /\ UNCHANGED <<impl, sampler, call, result, messages, file, turns, heard, ended>>

\* What the model samples is accepted by the sampler at once.
SampleNextToken(w) ==
    /\ w \in Words \cup Eos
    /\ next_token' = w
    /\ sampler' = IF sampler = None THEN None ELSE [sampler EXCEPT !.seen = Append(@, w)]
    /\ heard' = Append(heard, w)

\* The prompt enters and the first token is sampled.
Prefill(w) ==
    /\ pc \in {"fit", "refill"} /\ Fits(Len(req.ids))
    /\ token_history' = token_history \o req.ids
    /\ SampleNextToken(w)
    /\ pc' = "top"
    /\ UNCHANGED <<impl, req, output, user_stopped, result, messages, file, turns, ended, damage>>

\* A graph fails with part of the prompt in the context, or with part of what an
\* eviction had kept not in it again.
PrefillFails ==
    /\ pc \in {"fit", "refill"} /\ Faults /\ Fits(Len(req.ids))
    /\ \E k \in (IF pc = "refill" THEN EffectiveKeep ELSE n_past) .. n_past + Len(req.ids) - 1 :
          token_history' = SubSeq(token_history \o req.ids, 1, k)
    /\ Throw

\* ContextLengthExceededError is caught; what was streamed is reported.
Exceeded ==
    /\ ended' = "full"
    /\ Return("context_length")

PromptRejected ==
    /\ pc = "fit" /\ ~Fits(Len(req.ids)) /\ ~CanSlide(Len(req.ids))
    /\ Exceeded
    /\ UNCHANGED <<impl, token_history, sampler, file, heard, damage>>

\* Mutant: one token too many.
GoesOnPast == Len(output) <= req.max_tokens /\ next_token \notin Eos

GoesOn == Len(output) < req.max_tokens /\ next_token \notin Eos

OutputWith(w) == Append(output, w)

\* on_each_token: the piece is streamed unless it is empty; the user may refuse more
\* (auto_llm's callback never does).
Emit(refuse) ==
    /\ pc = "top" /\ GoesOn
    /\ refuse => next_token \notin Silent /\ kind # "auto"
    /\ output' = OutputWith(next_token)
    /\ user_stopped' = refuse
    /\ pc' = IF refuse THEN "done" ELSE "feed"
    /\ ended' = IF refuse THEN "refused" ELSE ended
    /\ UNCHANGED <<impl, token_history, sampler, req, next_token, result, messages, file,
                   turns, heard, damage>>

\* Mutant: the next token is sampled first and takes the place of the emitted one.
FeedSampled(w) ==
    /\ pc \in {"feed", "refeed"} /\ Fits(1)
    /\ token_history' = Append(token_history, w)
    /\ SampleNextToken(w)
    /\ pc' = "top"
    /\ UNCHANGED <<impl, req, output, user_stopped, result, messages, file, turns, ended, damage>>

\* The emitted token enters the context and the next one is sampled.
Feed(w) ==
    /\ pc \in {"feed", "refeed"} /\ Fits(1)
    /\ token_history' = Append(token_history, next_token)
    /\ SampleNextToken(w)
    /\ pc' = "top"
    /\ UNCHANGED <<impl, req, output, user_stopped, result, messages, file, turns, ended, damage>>

FeedFails ==
    /\ pc \in {"feed", "refeed"} /\ Faults /\ Throw
    /\ \E k \in (IF pc = "refeed" THEN EffectiveKeep ELSE n_past) .. n_past :
          token_history' = SubSeq(token_history, 1, k)

FeedExceeds ==
    /\ pc = "feed" /\ ~Fits(1) /\ ~CanSlide(1)
    /\ Exceeded
    /\ UNCHANGED <<impl, token_history, sampler, file, heard, damage>>

LoopEnds ==
    /\ pc = "top" /\ ~GoesOn
    /\ pc' = "done" /\ ended' = IF Len(output) < req.max_tokens THEN "eos" ELSE "budget"
    /\ UNCHANGED <<impl, token_history, sampler, call, result, messages, file, turns, heard, damage>>

\* Mutant: the count is looked at first.
StopReasonByCount ==
    IF Len(output) >= req.max_tokens THEN "length" ELSE IF user_stopped THEN "user" ELSE "eos"

\* Why the reply ended, as the front ends infer it.
StopReason ==
    IF user_stopped THEN "user" ELSE IF Len(output) >= req.max_tokens THEN "length" ELSE "eos"

Finish ==
    /\ pc = "done"
    /\ Return(StopReason)
    /\ UNCHANGED <<impl, token_history, sampler, file, heard, ended, damage>>
-----------------------------------------------------------------------------
(* Between calls.                                                          *)

\* reset(); the program over auto_llm calls it only after an error.
Reset ==
    /\ pc = "idle" /\ model # None /\ kind # "auto"
    /\ ClearModel
    /\ result' = None /\ ended' = None
    /\ UNCHANGED <<impl, pc, call, messages, file>>

\* auto_llm neither saves nor loads.
SaveKVCache ==
    /\ pc = "idle" /\ model # None /\ kind # "auto" /\ n_past \in MaySave
    /\ file' = token_history
    /\ UNCHANGED <<impl, token_history, sampler, pc, call, result, messages, history>>

\* The sampler of the conversation before is kept.
LoadKVCache ==
    /\ pc = "idle" /\ model # None /\ file # None
    /\ token_history' = file
    /\ damage' = damage \cup {"loaded"}
    /\ UNCHANGED <<impl, sampler, pc, call, result, messages, file, turns, heard, ended>>

Turn ==
    \/ pc = "fit" /\ Evict(Len(req.ids), "refill")
    \/ pc = "feed" /\ Evict(1, "refeed")
    \/ \E w \in Words \cup Eos : Prefill(w) \/ Feed(w)
    \/ PrefillFails \/ PromptRejected
    \/ \E refuse \in BOOLEAN : Emit(refuse)
    \/ FeedFails \/ FeedExceeds \/ LoopEnds \/ Finish

Next ==
    \/ \E b \in Bundles, outcome \in Outcomes : Create(b, outcome)
    \/ \E msg \in Messages, tokenized \in BOOLEAN, cfg \in SamplerCfgs,
          max \in MaxTokens, sliding \in Sliding : Generate(msg, tokenized, cfg, max, sliding)
    \/ Error
    \/ Turn
    \/ Reset \/ SaveKVCache \/ LoadKVCache

Spec == Init /\ [][Next]_vars
-----------------------------------------------------------------------------
(* Properties.                                                             *)

\* The parts of a front end and of a call in it have their types.
TypeOK ==
    /\ kind \in Kinds /\ ready \in BOOLEAN /\ pc \in {"idle", "fit", "refill", "top", "feed", "refeed", "done"}
    /\ token_history \in Seq(Token) /\ n_past <= MaxCL
    /\ (pc = "idle") = (req = None)
    /\ pc \in {"top", "feed", "refeed", "done"} => next_token \in Words \cup Eos
    /\ user_stopped => pc = "done"
    /\ output \in Seq(Words)
    /\ pc # "idle" => Len(output) <= req.max_tokens

\* The penalties of a sampler are computed over this conversation: it has heard
\* nothing from before the last reset ("penalty / DRY shouldn't leak across resets"),
\* nothing out of order, and every token that entered the context since it was made,
\* through refused replies, rejected prompts and exceptions.
Matched(s, t) ==
    LET f[i \in 0 .. Len(t)] ==
            IF i = 0 THEN 0
            ELSE LET k == f[i - 1] IN IF k < Len(s) /\ s[k + 1] = t[i] THEN k + 1 ELSE k
    IN  f[Len(t)]
IsSubsequence(s, t) == Matched(s, t) = Len(s)

SamplerHearsConversation ==
    sampler # None =>
        /\ IsSuffix(sampler.seen, heard)
        /\ damage \cap {"evicted", "loaded"} = {} =>
             IsSubsequence(SubSeq(token_history, sampler.since + 1, n_past), sampler.seen)

\* What a turn leaves in the context: a refused token was shown but is not fed, nor
\* is the one there was no room for, and a rejected prompt leaves nothing.
Entered(t) ==
    IF t.reason = "context_length" /\ t.reply = <<>> THEN <<>>
    ELSE t.prompt \o IF t.reason \in {"user", "context_length"} THEN Front(t.reply) ELSE t.reply

\* Between calls the context is what was submitted and what was streamed, turn by turn.
ContextIsTranscript ==
    pc = "idle" /\ damage = {} =>
        token_history = FlattenSeq([i \in DOMAIN turns |-> Entered(turns[i])])

\* "Prepends `token_id` once on the first turn": a context made of text begins with BOS
\* and holds it nowhere else, also when first turns fail, are rejected or taken back.
BosOnceAtFront ==
    LET text_only == /\ damage \cap {"evicted", "loaded"} = {}
                     /\ \A i \in DOMAIN turns : ~turns[i].tokenized
    IN  /\ \A i \in 2 .. n_past : token_history[i] # Bos
        /\ text_only /\ bos_token_id # None /\ n_past > 0 => token_history[1] = Bos

\* The reason a caller is given is why the reply ended, though it is worked out from
\* counts, and the tokens reported are those that were streamed, the EOS included.
Why == [eos |-> "eos", budget |-> "length", refused |-> "user", full |-> "context_length",
        error |-> "error"]
ReasonIsTrue ==
    result # None =>
        /\ result.reason = Why[ended]
        /\ turns # <<>> /\ Last(turns).reason = result.reason =>
             LET reply == Last(turns).reply
             IN  /\ result.generated_tokens = Len(reply) + (IF ended = "eos" THEN 1 ELSE 0)
                 /\ IsSubsequence(result.text, reply)

\* A front end makes of the model's context a bounded token window, as the model does.
Window == INSTANCE TokenWindow WITH Capacity <- MaxCL, window <- token_history, saved <- file
ImplementsWindow == Window!WSpec

(* A statement of the code, examined by itself.                            *)

\* auto_llm.cpp: "The Pipeline's KV cache holds the prefix matching `messages`; never
\* resetKVCache() between turns."
CacheHoldsMessages == kind = "auto" /\ pc = "idle" => IsPrefix(token_history, Render(messages))
=============================================================================
