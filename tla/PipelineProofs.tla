--------------------------- MODULE PipelineProofs ---------------------------
(***************************************************************************)
(* For every front end, any messages, models, sampling configurations and  *)
(* options, and any number of turns: what module Pipeline's properties say *)
(* of a conversation, and that a front end implements TokenWindow.         *)
(***************************************************************************)
EXTENDS Pipeline, SharedFacts

Reasons == {"eos", "length", "user", "context_length"}

TurnRecord ==
    [prompt : Seq(Token), tokenized : BOOLEAN, reply : Seq(Words), reason : Reasons \cup {None}]

MessageOf(T) == [role : {"user", "assistant"}, content : Seq(T)]

Sampler == [cfg : SamplerCfgs, seen : Seq(Token), since : Nat]

\* The token that the reply goes on with is there.
Sampled == pc \in {"top", "feed", "refeed", "done"}

ModelTypes ==
    /\ kind \in Kinds /\ ready \in BOOLEAN
    /\ token_history \in Seq(Token) /\ n_past <= MaxCL
    /\ file # None => file \in Seq(Token) /\ Len(file) <= MaxCL
    /\ sampler # None => sampler \in Sampler
    /\ heard \in Seq(Token)

StopTypes == user_stopped \in BOOLEAN /\ (user_stopped => pc = "done")

CallTypes ==
    /\ pc \in {"idle", "fit", "refill", "top", "feed", "refeed", "done"}
    /\ pc = "idle" => req = None
    /\ pc # "idle" => req \in Request
    /\ Sampled => next_token \in Words \cup Eos
    /\ output \in Seq(Words)
    /\ pc # "idle" => Len(output) <= req.max_tokens
    /\ StopTypes

\* The turn a call is about is the last one, and nothing of its reply is noted yet.
ChatTypes ==
    /\ messages \in Seq(MessageOf(Token)) /\ turns \in Seq(TurnRecord)
    /\ pc # "idle" => turns # <<>> /\ Last(turns).prompt = req.ids /\ Last(turns).reply = <<>>

Types == ModelTypes /\ CallTypes /\ ChatTypes
-----------------------------------------------------------------------------
(* Tokens, requests, evictions.                                            *)

LEMMA TokenFacts ==
    /\ Words \subseteq Token /\ Eos \subseteq Token /\ Bos \in Token /\ EndOfTurn \in Token
    /\ \A msg \in Messages : msg \in Seq(Token) /\ msg # <<>>
  BY PipelineAssumption DEF Token

LEMMA RequestFacts ==
    ASSUME NEW r \in Request
    PROVE  /\ r.ids \in Seq(Token) /\ r.ids # <<>> /\ Len(r.ids) \in Nat \ {0}
           /\ r.max_tokens \in Nat /\ r.sliding \in BOOLEAN /\ r # None
  <1>1. r.ids \in Seq(Token) /\ r.ids # <<>> /\ r.max_tokens \in Nat /\ r.sliding \in BOOLEAN
    BY PipelineAssumption DEF Request
  <1>2. Len(r.ids) \in Nat \ {0}
    BY <1>1
  <1>3. r # None
    BY PipelineAssumption
  <1> QED BY <1>1, <1>2, <1>3

\* What the template makes of a chat: tokens, none of them one that occurs in no message.
LEMMA RenderType ==
    ASSUME NEW T, EndOfTurn \in T, NEW chat \in Seq(MessageOf(T))
    PROVE  Render(chat) \in Seq(T)
  <1> DEFINE piece(i) ==
               chat[i].content \o IF chat[i].role = "assistant" THEN <<EndOfTurn>> ELSE <<>>
             pieces == [i \in DOMAIN chat |-> piece(i)]
  <1>1. ASSUME NEW i \in DOMAIN chat PROVE piece(i) \in Seq(T)
    <2> DEFINE closing == IF chat[i].role = "assistant" THEN <<EndOfTurn>> ELSE <<>>
    <2>1. chat[i] \in MessageOf(T)
      OBVIOUS
    <2>2. closing \in Seq(T)
      OBVIOUS
    <2> HIDE DEF closing
    <2>3. chat[i].content \o closing \in Seq(T)
      BY <2>1, <2>2, ConcatProperties DEF MessageOf
    <2> QED BY <2>3 DEF closing
  <1>2. DOMAIN chat = 1 .. Len(chat) /\ Len(chat) \in Nat
    OBVIOUS
  <1> HIDE DEF piece
  <1>3. pieces \in Seq(Seq(T))
    BY <1>1, <1>2
  <1>4. Render(chat) = FlattenSeq(pieces)
    BY DEF Render, piece
  <1> QED BY <1>3, <1>4, FlattenType
\* What one more message adds to what the template makes of a chat.
LEMMA RenderAppend ==
    ASSUME NEW T, EndOfTurn \in T, NEW chat \in Seq(MessageOf(T)), NEW m \in MessageOf(T),
           m.role = "user"
    PROVE  Render(Append(chat, m)) = Render(chat) \o m.content
  <1> DEFINE closing(x) == IF x.role = "assistant" THEN <<EndOfTurn>> ELSE <<>>
             piece(x) == x.content \o closing(x)
             longer == Append(chat, m)
             pieces == [i \in DOMAIN chat |-> piece(chat[i])]
             more == [i \in DOMAIN longer |-> piece(longer[i])]
  <1>1. /\ DOMAIN chat = 1 .. Len(chat) /\ Len(chat) \in Nat
        /\ DOMAIN longer = 1 .. Len(chat) + 1 /\ longer[Len(chat) + 1] = m
        /\ \A i \in 1 .. Len(chat) : longer[i] = chat[i]
    BY AppendProperties
  <1>2. ASSUME NEW x \in MessageOf(T) PROVE piece(x) \in Seq(T)
    <2>1. x.content \in Seq(T) /\ closing(x) \in Seq(T)
      BY DEF MessageOf
    <2> HIDE DEF closing
    <2> QED BY <2>1, ConcatProperties
  <1>3. piece(m) = m.content
    <2>1. m.content \in Seq(T) /\ closing(m) = <<>>
      BY DEF MessageOf
    <2> QED BY <2>1, ConcatEmptySeq
  <1>4. Render(chat) = FlattenSeq(pieces) /\ Render(longer) = FlattenSeq(more)
    BY DEF Render
  <1> HIDE DEF piece, longer
  <1>5. pieces \in Seq(Seq(T))
    <2>1. \A i \in DOMAIN chat : chat[i] \in MessageOf(T)
      OBVIOUS
    <2> QED BY <1>1, <1>2, <2>1
  <1>6. more = Append(pieces, piece(m))
    <2>1. /\ Len(pieces) = Len(chat)
          /\ Append(pieces, piece(m)) =
               [i \in 1 .. Len(chat) + 1 |-> IF i = Len(chat) + 1 THEN piece(m) ELSE pieces[i]]
      BY <1>1, <1>5
    <2> QED BY <1>1, <2>1
  <1>7. FlattenSeq(Append(pieces, piece(m))) = FlattenSeq(pieces) \o piece(m)
    BY <1>2, <1>5, FlattenAppend
  <1> QED BY <1>3, <1>4, <1>6, <1>7 DEF longer

\* A prompt is made of tokens, and is not empty.
LEMMA PromptType ==
    ASSUME NEW T, EndOfTurn \in T, messages \in Seq(MessageOf(T)),
           NEW msg \in Seq(T), msg # <<>>
    PROVE  Prompt(msg) \in Seq(T) /\ Prompt(msg) # <<>>
  <1>1. CASE kind # "auto"
    BY <1>1 DEF Prompt
  <1>2. CASE kind = "auto"
    <2> DEFINE m == User(msg)
    <2>1. m \in MessageOf(T) /\ m.role = "user" /\ m.content = msg
      BY DEF MessageOf, User
    <2>2. Prompt(msg) = Render(Append(messages, m))
      BY <1>2 DEF Prompt
    <2> HIDE DEF m
    <2>3. Prompt(msg) = Render(messages) \o msg
      BY <2>1, <2>2, RenderAppend
    <2>4. Render(messages) \in Seq(T)
      BY RenderType
    <2>5. Render(messages) \o msg \in Seq(T) /\ Len(Render(messages) \o msg) >= Len(msg)
      BY <2>4, ConcatProperties
    <2>6. Len(msg) > 0
      OBVIOUS
    <2> QED BY <2>3, <2>5, <2>6
  <1> QED BY <1>1, <1>2

\* BOS is put in front of a prompt or it is not.
LEMMA WithBosType ==
    ASSUME NEW ids \in Seq(Token), ids # <<>>
    PROVE  /\ WithBos(ids) \in Seq(Token) \ {<<>>}
           /\ WithBos(ids) = ids \/ WithBos(ids) = <<Bos>> \o ids
  <1>1. <<Bos>> \in Seq(Token) /\ Len(<<Bos>>) = 1
    BY TokenFacts
  <1>2. <<Bos>> \o ids \in Seq(Token) /\ Len(<<Bos>> \o ids) = 1 + Len(ids)
    BY <1>1, ConcatProperties
  <1>3. <<Bos>> \o ids # <<>>
    BY <1>2
  <1> QED BY <1>2, <1>3 DEF WithBos

\* What an eviction keeps.
LEMMA EvictFacts ==
    ASSUME token_history \in Seq(Token), req \in Request, NEW n_fit \in Nat, CanSlide(n_fit)
    PROVE  LET keep == EffectiveKeep
               d == Discard(n_fit)
               kept == SubSeq(token_history, 1, keep) \o SubSeq(token_history, keep + d + 1, n_past)
           IN  /\ keep \in Nat /\ d \in Nat \ {0} /\ keep + d <= n_past
               /\ kept \in Seq(Token) /\ Len(kept) = n_past - d
               /\ n_past - d + n_fit <= MaxCL
  <1> DEFINE keep == EffectiveKeep
             d == Discard(n_fit)
  <1>1. keep \in Nat /\ MaxCL \in Nat /\ n_past \in Nat
    BY PipelineAssumption DEF EffectiveKeep, n_past
  <1>2. keep < n_past /\ d \in 1 .. n_past - keep
    BY <1>1, DiscardBounds DEF CanSlide, Discard
  <1>3. n_past - d + n_fit <= MaxCL
    BY DEF CanSlide
  <1> HIDE DEF keep, d
  <1>4. SubSeq(token_history, 1, keep) \in Seq(Token) /\ Len(SubSeq(token_history, 1, keep)) = keep
    BY <1>1, <1>2, Slice DEF n_past
  <1>5. /\ SubSeq(token_history, keep + d + 1, n_past) \in Seq(Token)
        /\ Len(SubSeq(token_history, keep + d + 1, n_past)) = n_past - keep - d
    <2> DEFINE k == keep + d
    <2>1. k \in 0 .. Len(token_history) /\ n_past - k = n_past - keep - d
      BY <1>1, <1>2 DEF n_past
    <2> HIDE DEF k
    <2>2. /\ SubSeq(token_history, k + 1, n_past) \in Seq(Token)
          /\ Len(SubSeq(token_history, k + 1, n_past)) = n_past - k
      BY <1>1, <2>1, Behind DEF n_past
    <2> QED BY <2>1, <2>2 DEF k
  <1>6. LET kept == SubSeq(token_history, 1, keep) \o SubSeq(token_history, keep + d + 1, n_past)
        IN  kept \in Seq(Token) /\ Len(kept) = n_past - d
    BY <1>1, <1>2, <1>4, <1>5, ConcatProperties
  <1> QED BY SMTT(40), <1>1, <1>2, <1>3, <1>6 DEF keep, d
-----------------------------------------------------------------------------
(* Every variable keeps its type.                                          *)

\* What is reported as said is tokens.
LEMMA TextType ==
    ASSUME output \in Seq(Words)
    PROVE  Text \in Seq(Words) /\ Text \in Seq(Token)
  <1> DEFINE piece(i) == IF output[i] \in Silent THEN <<>> ELSE <<output[i]>>
             pieces == [i \in DOMAIN output |-> piece(i)]
  <1>1. \A i \in DOMAIN output : piece(i) \in Seq(Words)
    OBVIOUS
  <1>2. DOMAIN output = 1 .. Len(output) /\ Len(output) \in Nat
    OBVIOUS
  <1> HIDE DEF piece
  <1>3. pieces \in Seq(Seq(Words))
    BY <1>1, <1>2
  <1>4. Text = FlattenSeq(pieces)
    BY DEF Text, piece
  <1>5. Text \in Seq(Words)
    BY <1>3, <1>4, FlattenType
  <1> QED BY <1>5, TokenFacts

\* The turn that Return notes takes the place of the one the call began.
LEMMA ReturnTurns ==
    ASSUME Types, pc # "idle", NEW reason \in Reasons, Return(reason)
    PROVE  LET n == Len(turns)
           IN  /\ n \in Nat \ {0} /\ Len(turns') = n /\ turns' \in Seq(TurnRecord)
               /\ \A i \in 1 .. n - 1 : turns'[i] = turns[i]
               /\ turns'[n] = [turns[n] EXCEPT !.reply = output, !.reason = reason]
               /\ turns'[n].prompt = req.ids /\ turns'[n].tokenized = turns[n].tokenized
               /\ turns'[n].reply = output /\ turns'[n].reason = reason
  <1> DEFINE n == Len(turns)
             t == [turns[n] EXCEPT !.reply = output, !.reason = reason]
  <1>1. turns \in Seq(TurnRecord) /\ turns # <<>> /\ turns[n].prompt = req.ids /\ output \in Seq(Words)
    BY DEF Types, ChatTypes, CallTypes, Last
  <1>2. n \in Nat \ {0} /\ n \in DOMAIN turns
    BY <1>1
  <1>3. turns[n] \in TurnRecord
    BY <1>1, <1>2
  <1>4. t \in TurnRecord /\ t.prompt = turns[n].prompt /\ t.tokenized = turns[n].tokenized
        /\ t.reply = output /\ t.reason = reason
    BY <1>1, <1>3 DEF TurnRecord
  <1>5. turns' = [turns EXCEPT ![n] = t]
    BY DEF Return
  <1> HIDE DEF t
  <1>6. /\ turns' \in Seq(TurnRecord) /\ Len(turns') = n
        /\ turns'[n] = t /\ \A i \in 1 .. n - 1 : turns'[i] = turns[i]
    BY <1>1, <1>2, <1>4, <1>5
  <1> QED BY <1>1, <1>2, <1>4, <1>6 DEF t

\* Between calls.
LEMMA IdleTypes ==
    ASSUME pc' = "idle", req' = None, output' = <<>>, user_stopped' = FALSE
    PROVE  CallTypes'
  <1>1. StopTypes'
    BY Zenon DEF StopTypes
  <1>2. output' \in Seq(Words)
    OBVIOUS
  <1> QED BY <1>1, <1>2 DEF CallTypes, Sampled

\* A call that returns.
LEMMA ReturnTypes ==
    ASSUME Types, pc # "idle", NEW reason \in Reasons, Return(reason),
           UNCHANGED <<impl, token_history, sampler, file, heard>>
    PROVE  Types'
  <1>1. turns' \in Seq(TurnRecord)
    BY ReturnTurns
  <1>2. messages' \in Seq(MessageOf(Token))
    <2>1. messages \in Seq(MessageOf(Token)) /\ output \in Seq(Words)
      BY DEF Types, ChatTypes, CallTypes
    <2>2. Text \in Seq(Token)
      BY <2>1, TextType
    <2>3. [role |-> "assistant", content |-> Text] \in MessageOf(Token)
      BY <2>2 DEF MessageOf
    <2> QED BY <2>1, <2>3 DEF Return
  <1>3. pc' = "idle" /\ req' = None /\ output' = <<>> /\ user_stopped' = FALSE
    BY DEF Return
  <1>5. ChatTypes'
    BY <1>1, <1>2, <1>3 DEF ChatTypes
  <1>6. CallTypes'
    BY <1>3, IdleTypes
  <1>4. ModelTypes'
    BY DEF Types, ModelTypes, n_past, impl
  <1> QED BY <1>4, <1>5, <1>6 DEF Types

\* A call that ends in an exception with a shorter context.
LEMMA ThrowTypes ==
    ASSUME Types, Throw, token_history' \in Seq(Token), Len(token_history') <= MaxCL
    PROVE  Types'
  <1>1. /\ pc' = "idle" /\ req' = None /\ output' = <<>> /\ user_stopped' = FALSE
        /\ UNCHANGED <<impl, sampler, messages, file, turns, heard>>
    BY DEF Throw
  <1>2. CallTypes'
    BY <1>1, IdleTypes
  <1>3. ChatTypes'
    BY <1>1 DEF Types, ChatTypes
  <1>4. ModelTypes'
    BY <1>1 DEF Types, ModelTypes, impl, n_past
  <1> QED BY <1>2, <1>3, <1>4 DEF Types
\* A step that leaves the call and the chat alone.
LEMMA SameCall ==
    ASSUME Types, UNCHANGED <<pc, call, messages, turns>>
    PROVE  CallTypes' /\ ChatTypes'
  <1>1. UNCHANGED <<req, next_token, output, user_stopped>>
    BY DEF call
  <1>2. StopTypes'
    BY <1>1, Zenon DEF Types, CallTypes, StopTypes
  <1> QED BY <1>1, <1>2 DEF Types, CallTypes, ChatTypes, Sampled

\* What a call begins with.
LEMMA GenerateTypes ==
    ASSUME Types, NEW msg \in Messages, NEW tokenized \in BOOLEAN, NEW cfg \in SamplerCfgs,
           NEW max \in MaxTokens, NEW sliding \in Sliding,
           Generate(msg, tokenized, cfg, max, sliding)
    PROVE  Types'
  <1> DEFINE ids == IF tokenized THEN msg ELSE WithBos(Prompt(msg))
             t == [prompt |-> ids, tokenized |-> tokenized, reply |-> <<>>, reason |-> None]
  <1>1. /\ msg \in Seq(Token) /\ msg # <<>> /\ EndOfTurn \in Token
        /\ messages \in Seq(MessageOf(Token)) /\ turns \in Seq(TurnRecord)
        /\ heard \in Seq(Token)
    BY TokenFacts DEF Types, ChatTypes, ModelTypes
  <1>2. ids \in Seq(Token) \ {<<>>}
    BY <1>1, PromptType, WithBosType
  <1>3. /\ req' = [ids |-> ids, max_tokens |-> max, sliding |-> sliding]
        /\ sampler' = PreparedSampler(cfg, ids) /\ heard' = heard \o ids
        /\ turns' = Append(turns, t)
        /\ messages' = IF kind = "auto" THEN Append(messages, User(msg)) ELSE messages
        /\ output' = <<>> /\ user_stopped' = FALSE /\ pc' = "fit"
        /\ UNCHANGED <<impl, token_history, file>>
    BY DEF Generate
  <1> HIDE DEF ids
  <1>4. req' \in Request /\ req'.ids = ids /\ req'.max_tokens \in Nat
    BY <1>2, <1>3, PipelineAssumption DEF Request
  <1>5. CallTypes'
    <2>1. StopTypes'
      BY <1>3, Zenon DEF StopTypes
    <2>2. output' \in Seq(Words) /\ Len(output') <= req'.max_tokens
      BY <1>3, <1>4
    <2> QED BY <1>3, <1>4, <2>1, <2>2 DEF CallTypes, Sampled
  <1>6. ChatTypes'
    <2>1. t \in TurnRecord /\ t.prompt = ids /\ t.reply = <<>>
      BY <1>2 DEF TurnRecord
    <2> HIDE DEF t
    <2>2. turns' \in Seq(TurnRecord) /\ turns' # <<>> /\ Last(turns') = t
      BY <1>1, <1>3, <2>1, AppendLast
    <2>3. messages' \in Seq(MessageOf(Token))
      <3>1. User(msg) \in MessageOf(Token)
        BY <1>1 DEF User, MessageOf
      <3> QED BY <1>1, <1>3, <3>1
    <2> QED BY <1>4, <2>1, <2>2, <2>3 DEF ChatTypes
  <1>7. ModelTypes'
    <2>1. heard' \in Seq(Token)
      BY <1>1, <1>2, <1>3, ConcatProperties
    <2>2. sampler' # None => sampler' \in Sampler
      <3>1. CASE cfg # Greedy /\ ~CanReuse(cfg)
        <4>1. n_past \in Nat
          BY DEF Types, ModelTypes, n_past
        <4> QED BY <1>2, <1>3, <3>1, <4>1 DEF PreparedSampler, Sampler
      <3>2. CASE cfg # Greedy /\ CanReuse(cfg)
        <4>1. sampler \in Sampler /\ sampler.seen \in Seq(Token)
          BY <3>2 DEF CanReuse, Types, ModelTypes, Sampler
        <4>2. sampler.seen \o ids \in Seq(Token)
          BY <1>2, <4>1, ConcatProperties
        <4>3. sampler' = [sampler EXCEPT !.seen = sampler.seen \o ids]
          BY <1>3, <3>2 DEF PreparedSampler
        <4> QED BY <4>1, <4>2, <4>3 DEF Sampler
      <3>3. CASE cfg = Greedy
        BY <1>3, <3>3 DEF PreparedSampler
      <3> QED BY <3>1, <3>2, <3>3
    <2> QED BY <1>3, <2>1, <2>2 DEF Types, ModelTypes, n_past, impl
  <1> QED BY <1>5, <1>6, <1>7 DEF Types

\* The sampler takes what was sampled.
LEMMA SampleTypes ==
    ASSUME Types, NEW w, SampleNextToken(w)
    PROVE  /\ next_token' \in Words \cup Eos /\ heard' \in Seq(Token)
           /\ sampler' # None => sampler' \in Sampler
  <1>1. w \in Words \cup Eos /\ w \in Token /\ next_token' = w /\ heard' = Append(heard, w)
    BY TokenFacts DEF SampleNextToken
  <1>2. sampler' # None => sampler' \in Sampler
    <2>1. CASE sampler = None
      BY <2>1 DEF SampleNextToken
    <2>2. CASE sampler # None
      <3>1. sampler \in Sampler
        BY <2>2 DEF Types, ModelTypes
      <3>2. Append(sampler.seen, w) \in Seq(Token)
        BY <1>1, <3>1 DEF Sampler
      <3>3. sampler' = [sampler EXCEPT !.seen = Append(sampler.seen, w)]
        BY <2>2 DEF SampleNextToken
      <3> QED BY <3>1, <3>2, <3>3 DEF Sampler
    <2> QED BY <2>1, <2>2
  <1> QED BY <1>1, <1>2 DEF Types, ModelTypes
\* An eviction shortens the context.
LEMMA EvictTypes ==
    ASSUME Types, pc \in {"fit", "feed"}, NEW n_fit \in Nat, NEW next \in {"refill", "refeed"},
           next = "refeed" => pc = "feed", Evict(n_fit, next)
    PROVE  Types'
  <1>1. /\ token_history \in Seq(Token) /\ req \in Request /\ CanSlide(n_fit)
        /\ n_past \in Nat /\ n_past <= MaxCL /\ MaxCL \in Nat
    BY SMTT(40), PipelineAssumption DEF Types, ModelTypes, CallTypes, Evict, n_past
  <1>2. token_history' \in Seq(Token) /\ Len(token_history') <= MaxCL
    BY SMTT(40), <1>1, EvictFacts DEF Evict
  <1>3. UNCHANGED <<impl, sampler, file, heard, messages, turns>> /\ pc' = next
        /\ UNCHANGED <<req, next_token, output, user_stopped>>
    BY DEF Evict, call
  <1>4. StopTypes'
    BY <1>3, Zenon DEF Types, CallTypes, StopTypes
  <1>5. CallTypes'
    BY <1>3, <1>4 DEF Types, CallTypes, Sampled
  <1>6. ChatTypes'
    BY <1>3 DEF Types, ChatTypes
  <1>7. ModelTypes'
    BY <1>2, <1>3 DEF Types, ModelTypes, impl, n_past
  <1> QED BY <1>5, <1>6, <1>7 DEF Types

\* The context grows by what there was room for, and the next token is sampled.
LEMMA ExtendTypes ==
    ASSUME Types, pc \in {"fit", "refill", "feed", "refeed"}, NEW w, SampleNextToken(w),
           NEW s \in Seq(Token), Fits(Len(s)), token_history' = token_history \o s, pc' = "top",
           UNCHANGED <<impl, req, output, user_stopped, messages, file, turns>>
    PROVE  Types'
  <1>1. token_history \in Seq(Token) /\ token_history' \in Seq(Token)
        /\ Len(token_history') = n_past + Len(s)
    BY ConcatProperties DEF Types, ModelTypes, n_past
  <1>2. Len(token_history') <= MaxCL
    BY <1>1 DEF Fits
  <1>3. StopTypes'
    <2>1. user_stopped = FALSE
      BY Zenon DEF Types, CallTypes, StopTypes
    <2> QED BY <2>1, Zenon DEF StopTypes
  <1>4. CallTypes'
    BY <1>3, SampleTypes DEF Types, CallTypes, Sampled
  <1>5. ChatTypes'
    BY DEF Types, ChatTypes
  <1>6. ModelTypes'
    BY <1>1, <1>2, SampleTypes DEF Types, ModelTypes, impl, n_past
  <1> QED BY <1>4, <1>5, <1>6 DEF Types

\* Of the context and the prompt, what a failed prefill leaves.
LEMMA CutFacts ==
    ASSUME NEW s \in Seq(Token), NEW t \in Seq(Token), NEW k \in 0 .. Len(s) + Len(t)
    PROVE  /\ SubSeq(s \o t, 1, k) \in Seq(Token) /\ Len(SubSeq(s \o t, 1, k)) = k
           /\ \A i \in 1 .. k : SubSeq(s \o t, 1, k)[i] = IF i <= Len(s) THEN s[i] ELSE t[i - Len(s)]
  <1>1. /\ s \o t \in Seq(Token) /\ Len(s \o t) = Len(s) + Len(t)
        /\ \A i \in 1 .. Len(s) + Len(t) : (s \o t)[i] = IF i <= Len(s) THEN s[i] ELSE t[i - Len(s)]
    BY ConcatProperties
  <1> QED BY <1>1, Slice

\* The steps of a turn.
LEMMA TurnTypes ==
    ASSUME Types, Turn
    PROVE  Types'
  <1>0. /\ token_history \in Seq(Token) /\ n_past \in Nat /\ MaxCL \in Nat /\ output \in Seq(Words)
        /\ pc # "idle" => req \in Request
    BY PipelineAssumption DEF Types, ModelTypes, CallTypes, n_past
  <1>1. CASE pc = "fit" /\ Evict(Len(req.ids), "refill")
    <2>1. Len(req.ids) \in Nat
      BY <1>0, <1>1, RequestFacts
    <2> QED BY <1>1, <2>1, EvictTypes
  <1>2. CASE pc = "feed" /\ Evict(1, "refeed")
    BY <1>2, EvictTypes
  <1>3. ASSUME NEW w \in Words \cup Eos, Prefill(w) PROVE Types'
    <2>1. req.ids \in Seq(Token)
      BY <1>0, <1>3, RequestFacts DEF Prefill
    <2> QED BY <1>3, <2>1, ExtendTypes DEF Prefill
  <1>4. ASSUME NEW w \in Words \cup Eos, Feed(w) PROVE Types'
    <2>1. next_token \in Token
      BY <1>4, TokenFacts DEF Feed, Types, CallTypes, Sampled
    <2>2. <<next_token>> \in Seq(Token) /\ Len(<<next_token>>) = 1
      BY <2>1
    <2>3. token_history' = token_history \o <<next_token>>
      BY <1>0, <1>4, <2>1, AppendIsConcat DEF Feed
    <2> QED BY <1>4, <2>2, <2>3, ExtendTypes DEF Feed
  <1>5. CASE PrefillFails
    <2>1. /\ req.ids \in Seq(Token) /\ Len(req.ids) \in Nat /\ EffectiveKeep \in Nat
          /\ n_past + Len(req.ids) <= MaxCL /\ Throw
      BY <1>0, <1>5, RequestFacts, PipelineAssumption DEF PrefillFails, Fits, EffectiveKeep
    <2>2. PICK k \in (IF pc = "refill" THEN EffectiveKeep ELSE n_past) .. n_past + Len(req.ids) - 1 :
                token_history' = SubSeq(token_history \o req.ids, 1, k)
      BY <1>5 DEF PrefillFails
    <2>3. k \in 0 .. n_past + Len(req.ids) /\ k <= MaxCL
      BY <1>0, <2>1
    <2> QED BY <1>0, <2>1, <2>2, <2>3, CutFacts, ThrowTypes DEF n_past
  <1>6. CASE PromptRejected
    <2>1. Return("context_length") /\ pc # "idle" /\ "context_length" \in Reasons
      BY <1>6 DEF PromptRejected, Exceeded, Reasons
    <2> QED BY <1>6, <2>1, ReturnTypes DEF PromptRejected
  <1>7. ASSUME NEW refuse \in BOOLEAN, Emit(refuse) PROVE Types'
    <2>1. /\ pc = "top" /\ Len(output) < req.max_tokens /\ next_token \in Words
          /\ output' = Append(output, next_token) /\ user_stopped' = refuse
          /\ pc' = IF refuse THEN "done" ELSE "feed"
          /\ UNCHANGED <<impl, token_history, sampler, req, next_token, messages, file, turns, heard>>
      BY <1>7 DEF Emit, GoesOn, OutputWith, Types, CallTypes, Sampled
    <2>2. output' \in Seq(Words) /\ Len(output') <= req.max_tokens
      <3>1. req.max_tokens \in Nat
        BY <1>0, <2>1, RequestFacts
      <3> QED BY <1>0, <2>1, <3>1
    <2>3. StopTypes'
      BY <2>1, Zenon DEF StopTypes
    <2>4. CallTypes'
      BY <1>0, <2>1, <2>2, <2>3 DEF CallTypes, Sampled
    <2>5. ChatTypes'
      BY <2>1 DEF Types, ChatTypes
    <2>6. ModelTypes'
      BY <2>1 DEF Types, ModelTypes, impl, n_past
    <2> QED BY <2>4, <2>5, <2>6 DEF Types
  <1>8. CASE FeedFails
    <2>1. PICK k \in (IF pc = "refeed" THEN EffectiveKeep ELSE n_past) .. n_past :
                token_history' = SubSeq(token_history, 1, k)
      BY <1>8 DEF FeedFails
    <2>2. EffectiveKeep \in Nat /\ Throw /\ n_past <= MaxCL
      BY <1>8, PipelineAssumption DEF FeedFails, EffectiveKeep, Types, ModelTypes
    <2>3. k \in 0 .. n_past
      BY <1>0, <2>2
    <2>4. token_history' \in Seq(Token) /\ Len(token_history') = k
      BY <1>0, <2>1, <2>3, Slice DEF n_past
    <2>5. k <= MaxCL
      BY <1>0, <2>2, <2>3
    <2> QED BY <2>2, <2>4, <2>5, ThrowTypes
  <1>9. CASE FeedExceeds
    <2>1. Return("context_length") /\ pc # "idle" /\ "context_length" \in Reasons
      BY <1>9 DEF FeedExceeds, Exceeded, Reasons
    <2> QED BY <1>9, <2>1, ReturnTypes DEF FeedExceeds
  <1>10. CASE LoopEnds
    <2>1. pc = "top" /\ pc' = "done"
          /\ UNCHANGED <<impl, token_history, sampler, req, next_token, output, user_stopped, messages,
                         file, turns, heard>>
      BY <1>10 DEF LoopEnds, call
    <2>2. StopTypes'
      BY <2>1, Zenon DEF Types, CallTypes, StopTypes
    <2>3. CallTypes'
      BY <2>1, <2>2 DEF Types, CallTypes, Sampled
    <2>4. ChatTypes' /\ ModelTypes'
      BY <2>1 DEF Types, ChatTypes, ModelTypes, impl, n_past
    <2> QED BY <2>3, <2>4 DEF Types
  <1>11. CASE Finish
    <2>1. pc # "idle" /\ Return(StopReason) /\ StopReason \in Reasons
      BY <1>11 DEF Finish, StopReason, Reasons
    <2> QED BY <1>11, <2>1, ReturnTypes DEF Finish
  <1> QED BY <1>1, <1>2, <1>3, <1>4, <1>5, <1>6, <1>7, <1>8, <1>9, <1>10, <1>11 DEF Turn
\* resetKVCache and create leave an empty context and no turns.
LEMMA ClearTypes ==
    ASSUME Types, pc = "idle", token_history' = <<>>, sampler' = None, turns' = <<>>, heard' = <<>>,
           ready' \in BOOLEAN, UNCHANGED <<kind, pc, call, messages, file>>
    PROVE  Types'
  <1>1. UNCHANGED <<req, next_token, output, user_stopped>>
    BY DEF call
  <1>2. StopTypes'
    BY <1>1, Zenon DEF Types, CallTypes, StopTypes
  <1>3. CallTypes'
    BY <1>1, <1>2 DEF Types, CallTypes, Sampled
  <1>4. <<>> \in Seq(TurnRecord) /\ <<>> \in Seq(Token) /\ Len(<<>>) = 0
    OBVIOUS
  <1>5. ChatTypes' /\ ModelTypes'
    BY <1>4, PipelineAssumption DEF Types, ChatTypes, ModelTypes, n_past
  <1> QED BY <1>3, <1>5 DEF Types

LEMMA InitTypes == Init => Types
  <1> SUFFICES ASSUME Init PROVE Types  OBVIOUS
  <1>1. <<>> \in Seq(Token) /\ Len(<<>>) = 0 /\ <<>> \in Seq(Words) /\ <<>> \in Seq(TurnRecord)
        /\ <<>> \in Seq(MessageOf(Token))
    OBVIOUS
  <1>2. StopTypes
    BY Zenon DEF Init, StopTypes
  <1>3. kind \in Kinds /\ pc = "idle" /\ req = None /\ output = <<>> /\ token_history = <<>>
        /\ file = None /\ sampler = None /\ heard = <<>> /\ turns = <<>> /\ messages = <<>>
    BY DEF Init
  <1>4. ready \in BOOLEAN
    BY Zenon DEF Init
  <1>5. CallTypes
    BY <1>1, <1>2, <1>3 DEF CallTypes, Sampled
  <1>6. ModelTypes
    BY <1>1, <1>3, <1>4, PipelineAssumption DEF ModelTypes, n_past
  <1> QED BY <1>1, <1>3, <1>5, <1>6 DEF Types, ChatTypes

LEMMA NextTypes ==
    ASSUME Types, [Next]_vars
    PROVE  Types'
  <1>1. ASSUME NEW b \in Bundles, NEW outcome \in Outcomes, Create(b, outcome) PROVE Types'
    <2>1. ready' \in BOOLEAN
      BY <1>1, Zenon DEF Create, Types, ModelTypes
    <2> QED BY <1>1, <2>1, ClearTypes DEF Create
  <1>2. ASSUME NEW msg \in Messages, NEW tokenized \in BOOLEAN, NEW cfg \in SamplerCfgs,
               NEW max \in MaxTokens, NEW sliding \in Sliding,
               Generate(msg, tokenized, cfg, max, sliding)
        PROVE  Types'
    BY <1>2, GenerateTypes
  <1>3. CASE Error
    <2>1. CASE ClearModel
      BY <1>3, <2>1, ClearTypes DEF Error, ClearModel, impl, Types, ModelTypes
    <2>2. CASE UNCHANGED <<token_history, sampler, turns, heard, damage>>
      BY <1>3, <2>2, SameCall DEF Error, impl, Types, ModelTypes, n_past
    <2> QED BY <1>3, <2>1, <2>2 DEF Error
  <1>4. CASE Turn
    BY <1>4, TurnTypes
  <1>5. CASE Reset
    BY <1>5, ClearTypes DEF Reset, ClearModel, impl, Types, ModelTypes
  <1>6. CASE SaveKVCache
    BY <1>6, SameCall DEF SaveKVCache, impl, history, Types, ModelTypes, n_past
  <1>7. CASE LoadKVCache
    BY <1>7, SameCall DEF LoadKVCache, impl, Types, ModelTypes, n_past
  <1>8. CASE UNCHANGED vars
    BY <1>8, SameCall DEF vars, impl, history, Types, ModelTypes, n_past
  <1> QED BY <1>1, <1>2, <1>3, <1>4, <1>5, <1>6, <1>7, <1>8 DEF Next

LEMMA TypesInvariant == Spec => []Types
  <1>1. Types /\ [Next]_vars => Types'
    BY NextTypes
  <1> QED BY <1>1, InitTypes, PTL DEF Spec

\* A reply is a sequence of words no longer than its budget, a request is there exactly
\* while a call is active, and the context is never longer than the model's largest.
THEOREM ConversationTypeCorrect == Spec => []TypeOK
  <1>1. Types => TypeOK
    <2> SUFFICES ASSUME Types PROVE TypeOK  OBVIOUS
    <2>1. pc # "idle" => req # None
      BY RequestFacts DEF Types, CallTypes
    <2>2. user_stopped => pc = "done"
      BY Zenon DEF Types, CallTypes, StopTypes
    <2> QED BY <2>1, <2>2 DEF Types, ModelTypes, CallTypes, Sampled, TypeOK
  <1> QED BY <1>1, TypesInvariant, PTL
-----------------------------------------------------------------------------
(* Every step is a step of the token window, or leaves it alone.           *)

WindowStep == Window!WNext \/ UNCHANGED <<token_history, file>>

LEMMA ExtendIsWindowStep ==
    ASSUME token_history \in Seq(Token), NEW s \in Seq(Token), Len(s) > 0, Fits(Len(s)),
           token_history' = token_history \o s, file' = file
    PROVE  WindowStep
  <1>1. /\ Len(token_history') = n_past + Len(s) /\ token_history' \in Seq(Token) /\ n_past \in Nat
        /\ \A i \in 1 .. n_past : token_history'[i] = token_history[i]
    BY ConcatProperties DEF n_past
  <1>2. Len(token_history') > n_past /\ Len(token_history') <= MaxCL
    BY <1>1 DEF Fits
  <1>3. SubSeq(token_history', 1, n_past) = token_history
    <2>1. /\ SubSeq(token_history', 1, n_past) \in Seq(Token)
          /\ Len(SubSeq(token_history', 1, n_past)) = n_past
          /\ \A i \in 1 .. n_past : SubSeq(token_history', 1, n_past)[i] = token_history'[i]
      BY <1>1, <1>2, Slice
    <2> QED BY <1>1, <2>1, SeqEqual DEF n_past
  <1>4. Window!Extend
    BY <1>2, <1>3 DEF Window!Extend, n_past
  <1> QED BY <1>4 DEF WindowStep, Window!WNext

\* What is left of the context when a prefill fails.
LEMMA CutIsWindowStep ==
    ASSUME token_history \in Seq(Token), n_past <= MaxCL, NEW k \in 0 .. n_past,
           token_history' = SubSeq(token_history, 1, k), file' = file
    PROVE  WindowStep
  <1>1. /\ n_past \in Nat /\ SubSeq(token_history, 1, k) \in Seq(Token)
        /\ Len(SubSeq(token_history, 1, k)) = k
        /\ \A i \in 1 .. k : SubSeq(token_history, 1, k)[i] = token_history[i]
    BY Slice DEF n_past
  <1>2. CASE k = n_past
    <2>1. SubSeq(token_history, 1, k) = token_history
      BY <1>1, <1>2, SeqEqual DEF n_past
    <2> QED BY <2>1 DEF WindowStep
  <1>3. CASE k < n_past
    <2>1. n_past - k \in 1 .. n_past /\ k + (n_past - k) <= n_past
      BY <1>1, <1>3
    <2>2. SubSeq(token_history, k + (n_past - k) + 1, n_past) = <<>>
      BY <1>1, SubSeqEmpty
    <2>3. SubSeq(token_history, 1, k) \o <<>> = SubSeq(token_history, 1, k)
      BY <1>1, ConcatEmptySeq
    <2>4. Window!EvictRun
      BY <2>1, <2>2, <2>3 DEF Window!EvictRun, n_past
    <2> QED BY <2>4 DEF WindowStep, Window!WNext
  <1> QED BY <1>1, <1>2, <1>3

LEMMA EvictIsWindowStep ==
    ASSUME token_history \in Seq(Token), req \in Request, NEW n_fit \in Nat, NEW next, Evict(n_fit, next)
    PROVE  WindowStep
  <1> DEFINE keep == EffectiveKeep
             d == Discard(n_fit)
  <1>1. keep \in Nat /\ d \in Nat \ {0} /\ keep + d <= n_past /\ n_past \in Nat
    BY EvictFacts DEF Evict, n_past
  <1>2. /\ token_history' = SubSeq(token_history, 1, keep) \o SubSeq(token_history, keep + d + 1, n_past)
        /\ file' = file
    BY DEF Evict
  <1> HIDE DEF keep, d
  <1>3. keep \in 0 .. n_past /\ d \in 1 .. n_past
    BY <1>1
  <1>4. Window!EvictRun
    BY <1>1, <1>2, <1>3 DEF Window!EvictRun, n_past
  <1> QED BY <1>4 DEF WindowStep, Window!WNext

LEMMA TurnIsWindowStep ==
    ASSUME Types, Turn
    PROVE  WindowStep
  <1>0. /\ token_history \in Seq(Token) /\ n_past \in Nat /\ n_past <= MaxCL /\ MaxCL \in Nat
        /\ pc # "idle" => req \in Request
    BY PipelineAssumption DEF Types, ModelTypes, CallTypes, n_past
  <1>1. CASE pc = "fit" /\ Evict(Len(req.ids), "refill")
    BY <1>0, <1>1, RequestFacts, EvictIsWindowStep
  <1>2. CASE pc = "feed" /\ Evict(1, "refeed")
    BY <1>0, <1>2, EvictIsWindowStep
  <1>3. ASSUME NEW w \in Words \cup Eos, Prefill(w) PROVE WindowStep
    <2>1. req.ids \in Seq(Token) /\ Len(req.ids) > 0
      BY <1>0, <1>3, RequestFacts DEF Prefill
    <2> QED BY <1>0, <1>3, <2>1, ExtendIsWindowStep DEF Prefill
  <1>4. ASSUME NEW w \in Words \cup Eos, Feed(w) PROVE WindowStep
    <2>1. next_token \in Token
      BY <1>4, TokenFacts DEF Feed, Types, CallTypes, Sampled
    <2>2. <<next_token>> \in Seq(Token) /\ Len(<<next_token>>) = 1
      BY <2>1
    <2>3. token_history' = token_history \o <<next_token>>
      BY <1>0, <1>4, <2>1, AppendIsConcat DEF Feed
    <2> DEFINE one == <<next_token>>
    <2>4. one \in Seq(Token) /\ Len(one) = 1 /\ token_history' = token_history \o one
      BY <2>2, <2>3
    <2> HIDE DEF one
    <2>5. Fits(Len(one)) /\ Len(one) > 0 /\ file' = file
      BY <1>4, <2>4 DEF Feed
    <2> QED BY <1>0, <2>4, <2>5, ExtendIsWindowStep, Zenon
  <1>5. CASE PrefillFails
    <2>1. /\ req.ids \in Seq(Token) /\ Len(req.ids) \in Nat /\ EffectiveKeep \in Nat
          /\ n_past + Len(req.ids) <= MaxCL /\ file' = file
      BY <1>0, <1>5, RequestFacts, PipelineAssumption DEF PrefillFails, Throw, Fits, EffectiveKeep
    <2>2. PICK k \in (IF pc = "refill" THEN EffectiveKeep ELSE n_past) .. n_past + Len(req.ids) - 1 :
                token_history' = SubSeq(token_history \o req.ids, 1, k)
      BY <1>5 DEF PrefillFails
    <2>3. k \in 0 .. n_past + Len(req.ids)
      BY <1>0, <2>1
    <2>4. /\ token_history' \in Seq(Token) /\ Len(token_history') = k
          /\ \A i \in 1 .. k : token_history'[i] =
                IF i <= n_past THEN token_history[i] ELSE req.ids[i - n_past]
      BY SMTT(40), <1>0, <2>1, <2>2, <2>3, CutFacts DEF n_past
    <2>5. CASE k <= n_past
      <3>1. /\ SubSeq(token_history, 1, k) \in Seq(Token) /\ Len(SubSeq(token_history, 1, k)) = k
            /\ \A i \in 1 .. k : SubSeq(token_history, 1, k)[i] = token_history[i]
        BY <1>0, <2>3, <2>5, Slice DEF n_past
      <3>2. token_history' = SubSeq(token_history, 1, k)
        <4>1. \A i \in 1 .. k : i <= n_past /\ token_history'[i] = SubSeq(token_history, 1, k)[i]
          BY <1>0, <2>3, <2>4, <2>5, <3>1
        <4> QED BY <2>4, <3>1, <4>1, SeqEqual
      <3> QED BY SMTT(40), <1>0, <2>1, <2>3, <2>5, <3>2, CutIsWindowStep
    <2>6. CASE k > n_past
      <3> DEFINE m == k - n_past
                 s == SubSeq(req.ids, 1, m)
      <3>1. m \in 1 .. Len(req.ids)
        BY <1>0, <2>1, <2>3, <2>6
      <3>2. s \in Seq(Token) /\ Len(s) = m /\ \A i \in 1 .. m : s[i] = req.ids[i]
        BY <2>1, <3>1, Slice
      <3>3. /\ token_history \o s \in Seq(Token) /\ Len(token_history \o s) = n_past + m
            /\ \A i \in 1 .. n_past + m : (token_history \o s)[i] =
                  IF i <= n_past THEN token_history[i] ELSE s[i - n_past]
        BY <1>0, <3>2, ConcatProperties DEF n_past
      <3>4. n_past + m = k /\ k <= MaxCL
        BY <1>0, <2>1, <2>3
      <3> HIDE DEF m, s
      <3>5. \A i \in 1 .. k : token_history'[i] = (token_history \o s)[i]
        <4> SUFFICES ASSUME NEW i \in 1 .. k PROVE token_history'[i] = (token_history \o s)[i]
          OBVIOUS
        <4>1. CASE i <= n_past
          BY <1>0, <2>4, <3>3, <3>4, <4>1
        <4>2. CASE i > n_past
          <5>1. i - n_past \in 1 .. m /\ ~ (i <= n_past) /\ i \in 1 .. n_past + m
            BY <1>0, <2>3, <3>1, <3>4, <4>2
          <5>2. token_history'[i] = req.ids[i - n_past]
            BY <2>4, <5>1
          <5>3. (token_history \o s)[i] = s[i - n_past]
            BY <3>3, <5>1
          <5> QED BY <3>2, <5>1, <5>2, <5>3
        <4>3. i <= n_past \/ i > n_past
          BY <1>0
        <4> QED BY <4>1, <4>2, <4>3, Zenon
      <3>6. token_history' = token_history \o s
        BY <2>4, <3>3, <3>4, <3>5, SeqEqual
      <3>7. Len(s) > 0 /\ Fits(Len(s))
        BY <1>0, <3>1, <3>2, <3>4 DEF Fits
      <3> QED BY <1>0, <2>1, <3>2, <3>6, <3>7, ExtendIsWindowStep, Zenon
    <2> QED BY <1>0, <2>3, <2>5, <2>6
  <1>6. CASE PromptRejected \/ FeedExceeds
    BY <1>6 DEF PromptRejected, FeedExceeds, WindowStep
  <1>7. ASSUME NEW refuse \in BOOLEAN, Emit(refuse) PROVE WindowStep
    BY <1>7 DEF Emit, WindowStep
  <1>8. CASE FeedFails
    <2>1. PICK k \in (IF pc = "refeed" THEN EffectiveKeep ELSE n_past) .. n_past :
                token_history' = SubSeq(token_history, 1, k)
      BY <1>8 DEF FeedFails
    <2>2. EffectiveKeep \in Nat /\ file' = file
      BY <1>8, PipelineAssumption DEF FeedFails, Throw, EffectiveKeep
    <2>3. k \in 0 .. n_past
      BY <1>0, <2>2
    <2> QED BY <1>0, <2>1, <2>2, <2>3, CutIsWindowStep
  <1>9. CASE LoopEnds \/ Finish
    BY <1>9 DEF LoopEnds, Finish, WindowStep
  <1> QED BY <1>1, <1>2, <1>3, <1>4, <1>5, <1>6, <1>7, <1>8, <1>9 DEF Turn

LEMMA NextIsWindowStep ==
    ASSUME Types, [Next]_vars
    PROVE  WindowStep
  <1> USE DEF WindowStep, Window!WNext
  <1>1. ASSUME NEW b \in Bundles, NEW outcome \in Outcomes, Create(b, outcome) PROVE WindowStep
    BY <1>1 DEF Create, Window!Clear
  <1>2. ASSUME NEW msg \in Messages, NEW tokenized \in BOOLEAN, NEW cfg \in SamplerCfgs,
               NEW max \in MaxTokens, NEW sliding \in Sliding,
               Generate(msg, tokenized, cfg, max, sliding)
        PROVE  WindowStep
    BY <1>2 DEF Generate
  <1>3. CASE Error
    BY <1>3 DEF Error, ClearModel, Window!Clear
  <1>4. CASE Turn
    BY <1>4, TurnIsWindowStep
  <1>5. CASE Reset
    BY <1>5 DEF Reset, ClearModel, Window!Clear
  <1>6. CASE SaveKVCache
    BY <1>6 DEF SaveKVCache, Window!Save
  <1>7. CASE LoadKVCache
    BY <1>7 DEF LoadKVCache, Window!Restore
  <1>8. CASE UNCHANGED vars
    BY <1>8 DEF vars
  <1> QED BY <1>1, <1>2, <1>3, <1>4, <1>5, <1>6, <1>7, <1>8 DEF Next

\* Whatever front end is over it, the model's context is a bounded window of tokens that
\* grows at its end, loses a run in an eviction, and is cleared, saved and restored.
THEOREM ConversationImplementsWindow == Spec => ImplementsWindow
  <1>1. Init => Window!WInit
    BY DEF Init, Window!WInit
  <1>2. Types /\ [Next]_vars => [Window!WNext]_(Window!wvars)
    <2> SUFFICES ASSUME Types, [Next]_vars PROVE [Window!WNext]_(Window!wvars)  OBVIOUS
    <2>1. WindowStep
      BY NextIsWindowStep
    <2> QED BY <2>1 DEF WindowStep, Window!wvars
  <1> QED BY <1>1, <1>2, TypesInvariant, PTL DEF Spec, ImplementsWindow, Window!WSpec
-----------------------------------------------------------------------------
(* Subsequences: s is one of t when t has its elements in the same order.  *)

Places(e, s, m, n, t) ==
    /\ e \in [1 .. m -> 1 .. n]
    /\ \A i \in 1 .. m : t[e[i]] = s[i]
    /\ \A i, j \in 1 .. m : i < j => e[i] < e[j]

Embeds(s, t) == \E e : Places(e, s, Len(s), Len(t), t)

\* How much of s the prefixes of t match.
Matching(s, t, f) ==
    /\ f \in [0 .. Len(t) -> 0 .. Len(s)] /\ f[0] = 0
    /\ \A i \in 1 .. Len(t) :
          f[i] = IF f[i - 1] < Len(s) /\ s[f[i - 1] + 1] = t[i] THEN f[i - 1] + 1 ELSE f[i - 1]

LEMMA MatchingExists ==
    ASSUME NEW T, NEW s \in Seq(T), NEW t \in Seq(T)
    PROVE  \E f : Matching(s, t, f)
  <1> DEFINE n == Len(t)
             S == 0 .. Len(s)
             next(i, k) == IF i \in 1 .. n /\ k < Len(s) /\ s[k + 1] = t[i] THEN k + 1 ELSE k
             step == [i \in Nat |-> [k \in S |-> next(i, k)]]
  <1>1. n \in Nat /\ Len(s) \in Nat /\ 0 \in S
    OBVIOUS
  <1>2. ASSUME NEW i \in Nat, NEW k \in S PROVE next(i, k) \in S
    OBVIOUS
  <1>3. ASSUME NEW i \in 1 .. n, NEW k \in S
        PROVE  step[i][k] = IF k < Len(s) /\ s[k + 1] = t[i] THEN k + 1 ELSE k
    OBVIOUS
  <1> HIDE DEF next
  <1>4. step \in Steps(S)
    BY <1>2 DEF Steps
  <1> HIDE DEF n, S, step
  <1>5. PICK f : Iterates(f, S, 0, step, n)
    BY <1>1, <1>4, Recursion
  <1>6. f \in [0 .. n -> S] /\ f[0] = 0 /\ \A i \in 1 .. n : f[i] = step[i][f[i - 1]]
    BY <1>5 DEF Iterates
  <1>7. ASSUME NEW i \in 1 .. n
        PROVE  f[i] = IF f[i - 1] < Len(s) /\ s[f[i - 1] + 1] = t[i] THEN f[i - 1] + 1 ELSE f[i - 1]
    <2>1. f[i - 1] \in S /\ f[i] = step[i][f[i - 1]]
      BY <1>1, <1>6
    <2> QED BY <1>3, <2>1
  <1>8. Matching(s, t, f)
    BY <1>6, <1>7 DEF Matching, n, S
  <1> QED BY <1>8

LEMMA MatchedIsLast ==
    ASSUME NEW T, NEW s \in Seq(T), NEW t \in Seq(T), NEW f, Matching(s, t, f)
    PROVE  Matched(s, t) = f[Len(t)]
  <1> DEFINE n == Len(t)
             next(k, i) == IF k < Len(s) /\ s[k + 1] = t[i] THEN k + 1 ELSE k
             Is(g) == g = [i \in 0 .. n |-> IF i = 0 THEN 0 ELSE next(g[i - 1], i)]
             g == CHOOSE h : Is(h)
  <1>1. n \in Nat
    OBVIOUS
  <1>2. f \in [0 .. n -> 0 .. Len(s)] /\ f[0] = 0 /\ \A i \in 1 .. n : f[i] = next(f[i - 1], i)
    BY DEF Matching
  <1>3. Matched(s, t) = g[n]
    BY DEF Matched
  <1> HIDE DEF n, next
  <1>4. Is(f)
    <2>1. \A i \in 0 .. n : f[i] = IF i = 0 THEN 0 ELSE next(f[i - 1], i)
      BY <1>1, <1>2
    <2> QED BY <1>2, <2>1
  <1>5. Is(g)
    <2> HIDE DEF Is
    <2> QED BY <1>4
  <1>6. \A i \in 0 .. n : g[i] = IF i = 0 THEN 0 ELSE next(g[i - 1], i)
    <2> HIDE DEF g
    <2> QED BY <1>5
  <1> HIDE DEF g, Is
  <1> DEFINE S == {m \in Nat : m <= n => g[m] = f[m]}
  <1>7. 0 \in S
    BY <1>1, <1>2, <1>6
  <1>8. ASSUME NEW m \in Nat, m \in S PROVE m + 1 \in S
    <2>1. CASE m + 1 <= n
      <3>1. m + 1 \in 1 .. n /\ m + 1 \in 0 .. n /\ (m + 1) - 1 = m /\ m <= n /\ m + 1 # 0
        BY <1>1, <2>1
      <3>2. g[m + 1] = next(g[m], m + 1)
        BY <1>6, <3>1
      <3>3. f[m + 1] = next(f[m], m + 1)
        BY <1>2, <3>1
      <3> QED BY <1>8, <3>1, <3>2, <3>3
    <2> QED BY <2>1
  <1> HIDE DEF S
  <1>9. n \in S
    BY <1>1, <1>7, <1>8, Induction
  <1>10. g[n] = f[n]
    BY <1>1, <1>9 DEF S
  <1> QED BY <1>3, <1>10 DEF n
\* What is matched has its place.
LEMMA SubsequenceEmbeds ==
    ASSUME NEW T, NEW s \in Seq(T), NEW t \in Seq(T), IsSubsequence(s, t)
    PROVE  Embeds(s, t)
  <1>1. PICK f : Matching(s, t, f)
    BY MatchingExists
  <1>2. f[Len(t)] = Len(s)
    BY <1>1, MatchedIsLast DEF IsSubsequence
  <1>3. Len(s) \in Nat /\ Len(t) \in Nat
    OBVIOUS
  <1> DEFINE n == Len(t)
             Good == {m \in Nat : m <= n => \E e : Places(e, s, f[m], m, t)}
  <1>4. 0 \in Good
    <2> DEFINE e == [i \in 1 .. 0 |-> 0]
    <2>1. Places(e, s, 0, 0, t)
      BY DEF Places
    <2>2. f[0] = 0
      BY <1>1 DEF Matching
    <2> QED BY <2>1, <2>2
  <1>5. ASSUME NEW m \in Nat, m \in Good PROVE m + 1 \in Good
    <2> SUFFICES ASSUME m + 1 <= n PROVE \E e : Places(e, s, f[m + 1], m + 1, t)
      OBVIOUS
    <2>1. PICK e : Places(e, s, f[m], m, t)
      BY <1>3, <1>5
    <2>2. m + 1 \in 1 .. n /\ (m + 1) - 1 = m /\ m \in 0 .. n
      BY <1>3
    <2>3. /\ f[m] \in 0 .. Len(s)
          /\ f[m + 1] = IF f[m] < Len(s) /\ s[f[m] + 1] = t[m + 1] THEN f[m] + 1 ELSE f[m]
      BY <1>1, <2>2 DEF Matching
    <2> DEFINE k == f[m]
    <2>4. /\ e \in [1 .. k -> 1 .. m] /\ \A i \in 1 .. k : t[e[i]] = s[i]
          /\ \A i, j \in 1 .. k : i < j => e[i] < e[j]
      BY <2>1 DEF Places
    <2>5. CASE f[m + 1] = k
      <3>1. Places(e, s, k, m + 1, t)
        <4> HIDE DEF k
        <4>1. e \in [1 .. k -> 1 .. m + 1]
          BY <2>4
        <4> QED BY <2>4, <4>1 DEF Places
      <3> QED BY <2>5, <3>1
    <2>6. CASE f[m + 1] # k
      <3>1. f[m + 1] = k + 1 /\ s[k + 1] = t[m + 1] /\ k \in Nat
        BY <1>3, <2>3, <2>6
      <3> DEFINE g == [i \in 1 .. k + 1 |-> IF i <= k THEN e[i] ELSE m + 1]
      <3> HIDE DEF k
      <3>2. g \in [1 .. k + 1 -> 1 .. m + 1]
        BY <2>4, <3>1
      <3>3. ASSUME NEW i \in 1 .. k + 1 PROVE t[g[i]] = s[i]
        BY <2>4, <3>1
      <3>4. ASSUME NEW i \in 1 .. k + 1, NEW j \in 1 .. k + 1, i < j PROVE g[i] < g[j]
        <4>1. i \in 1 .. k /\ g[i] = e[i] /\ e[i] \in 1 .. m
          BY <2>4, <3>1, <3>4
        <4>2. CASE j <= k
          BY <2>4, <3>1, <3>4, <4>1, <4>2
        <4>3. CASE j = k + 1
          <5>1. g[j] = m + 1
            BY <3>1, <4>3
          <5> QED BY <4>1, <5>1
        <4> QED BY <3>1, <4>2, <4>3
      <3> HIDE DEF g
      <3>5. Places(g, s, k + 1, m + 1, t)
        BY <3>2, <3>3, <3>4 DEF Places
      <3> QED BY <3>1, <3>5
    <2> QED BY <2>5, <2>6
  <1> HIDE DEF Good, n
  <1>6. n \in Good
    BY <1>3, <1>4, <1>5, Induction DEF n
  <1>7. \E e : Places(e, s, f[n], n, t)
    BY <1>3, <1>6 DEF Good, n
  <1> QED BY <1>2, <1>7 DEF Embeds, n

\* The first place is as good as any: what has a place is matched.
LEMMA EmbedsSubsequence ==
    ASSUME NEW T, NEW s \in Seq(T), NEW t \in Seq(T), Embeds(s, t)
    PROVE  IsSubsequence(s, t)
  <1>1. PICK f : Matching(s, t, f)
    BY MatchingExists
  <1>2. Matched(s, t) = f[Len(t)]
    BY <1>1, MatchedIsLast
  <1>3. Len(s) \in Nat /\ Len(t) \in Nat
    OBVIOUS
  <1>4. PICK e : Places(e, s, Len(s), Len(t), t)
    BY DEF Embeds
  <1> DEFINE l == Len(s)
             n == Len(t)
             Good == {m \in Nat : m <= n => \A j \in 1 .. l : e[j] <= m => f[m] >= j}
  <1> HIDE DEF l, n
  <1>5. /\ e \in [1 .. l -> 1 .. n] /\ \A i \in 1 .. l : t[e[i]] = s[i]
        /\ \A i, j \in 1 .. l : i < j => e[i] < e[j]
    BY <1>4 DEF Places, l, n
  <1>6. /\ f \in [0 .. n -> 0 .. l] /\ f[0] = 0 /\ l \in Nat /\ n \in Nat
        /\ \A i \in 1 .. n :
              f[i] = IF f[i - 1] < l /\ s[f[i - 1] + 1] = t[i] THEN f[i - 1] + 1 ELSE f[i - 1]
    BY <1>1, <1>3 DEF Matching, l, n
  <1>7. 0 \in Good
    BY <1>5
  <1>8. ASSUME NEW m \in Nat, m \in Good PROVE m + 1 \in Good
    <2> SUFFICES ASSUME m + 1 <= n, NEW j \in 1 .. l, e[j] <= m + 1 PROVE f[m + 1] >= j
      OBVIOUS
    <2>1. m + 1 \in 1 .. n /\ (m + 1) - 1 = m /\ m \in 0 .. n
      BY <1>6
    <2>2. /\ f[m] \in 0 .. l /\ f[m + 1] >= f[m] /\ f[m + 1] \in 0 .. l
          /\ (f[m] < l /\ s[f[m] + 1] = t[m + 1]) => f[m + 1] = f[m] + 1
      <3>1. f[m] \in 0 .. l /\ f[m + 1] \in 0 .. l
        BY <1>6, <2>1
      <3>2. f[m + 1] = IF f[m] < l /\ s[f[m] + 1] = t[m + 1] THEN f[m] + 1 ELSE f[m]
        BY <1>6, <2>1
      <3> QED BY SMTT(40), <1>6, <3>1, <3>2
    <2>3. \A i \in 1 .. l : e[i] <= m => f[m] >= i
      BY <1>8, <2>1
    <2>4. CASE e[j] <= m
      BY <1>6, <2>2, <2>3, <2>4
    <2>5. CASE e[j] = m + 1
      <3>1. f[m] >= j - 1
        <4>1. CASE j = 1
          BY <2>2, <4>1
        <4>2. CASE j # 1
          <5>1. j - 1 \in 1 .. l /\ j - 1 < j
            BY <1>6, <4>2
          <5>2. e[j - 1] < e[j] /\ e[j - 1] \in 1 .. n
            BY <1>5, <5>1
          <5>3. e[j - 1] <= m
            BY SMTT(40), <1>6, <2>5, <5>2
          <5> QED BY <2>3, <5>1, <5>3
        <4> QED BY <4>1, <4>2
      <3>2. CASE f[m] >= j
        BY <1>6, <2>2, <3>2
      <3>3. CASE f[m] = j - 1
        <4>1. f[m] < l /\ f[m] + 1 = j /\ s[j] = t[m + 1]
          BY SMTT(40), <1>5, <1>6, <2>5, <3>3
        <4> QED BY <2>2, <4>1
      <3> QED BY SMTT(40), <1>6, <2>2, <3>1, <3>2, <3>3
    <2>6. e[j] <= m \/ e[j] = m + 1
      <3>1. e[j] \in 1 .. n
        BY <1>5
      <3> QED BY SMTT(40), <1>6, <3>1
    <2> QED BY <2>4, <2>5, <2>6
  <1> HIDE DEF Good
  <1>9. n \in Good
    BY <1>6, <1>7, <1>8, Induction
  <1>10. \A j \in 1 .. l : f[n] >= j
    BY <1>5, <1>6, <1>9 DEF Good
  <1>11. f[n] = l
    <2>1. f[n] \in 0 .. l
      BY <1>6
    <2>2. l = 0 \/ l \in 1 .. l
      BY <1>6
    <2> QED BY <1>6, <1>10, <2>1, <2>2
  <1> QED BY <1>2, <1>11 DEF IsSubsequence, l, n
LEMMA EmbedsEmpty ==
    ASSUME NEW T, NEW t \in Seq(T)
    PROVE  Embeds(<<>>, t)
  <1> DEFINE e == [i \in 1 .. 0 |-> 0]
  <1>1. Places(e, <<>>, 0, Len(t), t)
    BY DEF Places
  <1> QED BY <1>1 DEF Embeds

\* The same on both sides, or more on the right.
LEMMA EmbedsConcat ==
    ASSUME NEW T, NEW s \in Seq(T), NEW t \in Seq(T), NEW u \in Seq(T), Embeds(s, t)
    PROVE  Embeds(s \o u, t \o u) /\ Embeds(s, t \o u)
  <1> DEFINE l == Len(s)
             n == Len(t)
             m == Len(u)
             su == s \o u
             tu == t \o u
  <1>1. l \in Nat /\ n \in Nat /\ m \in Nat
    OBVIOUS
  <1>2. /\ Len(su) = l + m /\ \A i \in 1 .. l + m : su[i] = IF i <= l THEN s[i] ELSE u[i - l]
        /\ Len(tu) = n + m /\ \A i \in 1 .. n + m : tu[i] = IF i <= n THEN t[i] ELSE u[i - n]
    BY ConcatProperties
  <1>3. PICK e : Places(e, s, l, n, t)
    BY DEF Embeds
  <1> HIDE DEF l, n, m, su, tu
  <1>4. /\ e \in [1 .. l -> 1 .. n] /\ \A i \in 1 .. l : t[e[i]] = s[i]
        /\ \A i, j \in 1 .. l : i < j => e[i] < e[j]
    BY <1>3 DEF Places
  <1>5. Places(e, s, l, n + m, tu)
    <2>1. e \in [1 .. l -> 1 .. n + m]
      BY <1>1, <1>4
    <2>2. ASSUME NEW i \in 1 .. l PROVE tu[e[i]] = s[i]
      <3>1. e[i] \in 1 .. n
        BY <1>4
      <3>2. e[i] \in 1 .. n + m /\ e[i] <= n
        BY <1>1, <3>1
      <3>3. tu[e[i]] = t[e[i]]
        BY <1>2, <3>2
      <3> QED BY <1>4, <3>3
    <2> QED BY <1>4, <2>1, <2>2 DEF Places
  <1> DEFINE g == [i \in 1 .. l + m |-> IF i <= l THEN e[i] ELSE n + (i - l)]
  <1>6. ASSUME NEW i \in 1 .. l + m
        PROVE  /\ i <= l => i \in 1 .. l /\ g[i] = e[i] /\ g[i] \in 1 .. n
               /\ i > l => g[i] = n + (i - l) /\ i - l \in 1 .. m /\ g[i] > n
               /\ g[i] \in 1 .. n + m
    BY <1>1, <1>4
  <1>7. g \in [1 .. l + m -> 1 .. n + m]
    BY <1>6
  <1> HIDE DEF g
  <1>8. ASSUME NEW i \in 1 .. l + m PROVE tu[g[i]] = su[i]
    <2>1. CASE i <= l
      <3>1. g[i] = e[i] /\ g[i] \in 1 .. n /\ g[i] \in 1 .. n + m /\ g[i] <= n /\ i \in 1 .. l
        BY <1>1, <1>6, <2>1
      <3>2. tu[g[i]] = t[g[i]] /\ t[g[i]] = s[i] /\ su[i] = s[i]
        BY <1>2, <1>4, <2>1, <3>1
      <3> QED BY <3>2
    <2>2. CASE i > l
      <3>1. g[i] = n + (i - l) /\ g[i] \in 1 .. n + m /\ g[i] > n /\ g[i] - n = i - l
        BY <1>1, <1>6, <2>2
      <3>2. ~ (g[i] <= n) /\ ~ (i <= l)
        BY <1>1, <2>2, <3>1
      <3>3. tu[g[i]] = u[g[i] - n] /\ su[i] = u[i - l]
        BY <1>2, <3>1, <3>2
      <3> QED BY <3>1, <3>3
    <2>3. i <= l \/ i > l
      BY <1>1
    <2> QED BY <2>1, <2>2, <2>3
  <1>9. ASSUME NEW i \in 1 .. l + m, NEW j \in 1 .. l + m, i < j PROVE g[i] < g[j]
    <2>1. CASE j <= l
      <3>1. i \in 1 .. l /\ j \in 1 .. l /\ g[i] = e[i] /\ g[j] = e[j]
        BY <1>1, <1>6, <1>9, <2>1
      <3> QED BY <1>4, <1>9, <3>1
    <2>2. CASE j > l /\ i <= l
      <3>1. g[i] \in 1 .. n /\ g[j] > n /\ g[j] \in 1 .. n + m
        BY <1>6, <2>2
      <3> QED BY <1>1, <3>1
    <2>3. CASE j > l /\ i > l
      <3>1. g[i] = n + (i - l) /\ g[j] = n + (j - l)
        BY <1>6, <2>3
      <3> QED BY <1>1, <1>9, <3>1
    <2>4. j <= l \/ (j > l /\ i <= l) \/ (j > l /\ i > l)
      BY <1>1
    <2> QED BY <2>1, <2>2, <2>3, <2>4
  <1>10. Places(g, su, l + m, n + m, tu)
    BY <1>7, <1>8, <1>9 DEF Places
  <1> QED BY <1>2, <1>5, <1>10 DEF Embeds, l, su, tu

\* A beginning of what has its place.
LEMMA EmbedsPrefix ==
    ASSUME NEW T, NEW s \in Seq(T), NEW t \in Seq(T), NEW u \in Seq(T), Embeds(s \o u, t)
    PROVE  Embeds(s, t)
  <1> DEFINE l == Len(s)
             n == Len(t)
             su == s \o u
  <1>1. /\ l \in Nat /\ n \in Nat /\ Len(u) \in Nat /\ Len(su) = l + Len(u)
        /\ \A i \in 1 .. l : su[i] = s[i]
    BY ConcatProperties
  <1>2. PICK e : Places(e, su, l + Len(u), n, t)
    BY <1>1 DEF Embeds
  <1> HIDE DEF l, n, su
  <1>3. /\ e \in [1 .. l + Len(u) -> 1 .. n] /\ \A i \in 1 .. l + Len(u) : t[e[i]] = su[i]
        /\ \A i, j \in 1 .. l + Len(u) : i < j => e[i] < e[j]
    BY <1>2 DEF Places
  <1>4. \A i \in 1 .. l : i \in 1 .. l + Len(u)
    BY <1>1
  <1> DEFINE g == [i \in 1 .. l |-> e[i]]
  <1>5. g \in [1 .. l -> 1 .. n] /\ \A i \in 1 .. l : g[i] = e[i]
    BY <1>3, <1>4
  <1> HIDE DEF g
  <1>6. \A i \in 1 .. l : t[g[i]] = s[i]
    BY <1>1, <1>3, <1>4, <1>5
  <1>7. \A i, j \in 1 .. l : i < j => g[i] < g[j]
    BY <1>3, <1>4, <1>5
  <1>8. Places(g, s, l, n, t)
    BY <1>5, <1>6, <1>7 DEF Places
  <1> QED BY <1>8 DEF Embeds, l, n

\* The text reported is a subsequence of the reply.
LEMMA TextEmbeds ==
    ASSUME output \in Seq(Words)
    PROVE  Embeds(Text, output)
  <1> DEFINE piece(i) == IF output[i] \in Silent THEN <<>> ELSE <<output[i]>>
             pieces == [i \in DOMAIN output |-> piece(i)]
             n == Len(output)
  <1>1. \A i \in DOMAIN output : output[i] \in Words /\ piece(i) \in Seq(Words)
    OBVIOUS
  <1>2. DOMAIN output = 1 .. n /\ n \in Nat
    OBVIOUS
  <1>3. Text = FlattenSeq(pieces)
    BY DEF Text
  <1>4. \A i \in DOMAIN output : piece(i) = <<>> \/ piece(i) = <<output[i]>>
    OBVIOUS
  <1> HIDE DEF piece
  <1>5. pieces \in Seq(Seq(Words)) /\ Len(pieces) = n
    BY <1>1, <1>2
  <1>6. PICK F : Flattenings(Words, pieces, F)
    BY <1>5, FlatteningsExist
  <1>7. /\ F \in [0 .. n -> Seq(Words)] /\ F[0] = <<>>
        /\ \A i \in 1 .. n : F[i] = F[i - 1] \o piece(i)
    BY <1>2, <1>5, <1>6 DEF Flattenings
  <1> DEFINE Good == {m \in Nat : m <= n => Embeds(F[m], SubSeq(output, 1, m))}
  <1> HIDE DEF pieces, n
  <1>8. 0 \in Good
    <2>1. SubSeq(output, 1, 0) \in Seq(Words)
      BY Slice, <1>2 DEF n
    <2> QED BY <1>7, <2>1, EmbedsEmpty
  <1>9. ASSUME NEW m \in Nat, m \in Good PROVE m + 1 \in Good
    <2> SUFFICES ASSUME m + 1 <= n PROVE Embeds(F[m + 1], SubSeq(output, 1, m + 1))
      OBVIOUS
    <2> DEFINE before == SubSeq(output, 1, m)
               w == output[m + 1]
    <2>1. m + 1 \in 1 .. n /\ (m + 1) - 1 = m /\ m \in 0 .. n /\ m <= n
      BY <1>2
    <2>2. Embeds(F[m], before) /\ F[m] \in Seq(Words) /\ w \in Words
      BY <1>1, <1>2, <1>7, <1>9, <2>1
    <2>3. before \in Seq(Words) /\ Len(before) = m /\ \A i \in 1 .. m : before[i] = output[i]
      BY <1>2, <2>1, Slice DEF n
    <2>4. F[m + 1] = F[m] \o piece(m + 1)
      BY <1>7, <2>1
    <2>5. SubSeq(output, 1, m + 1) = before \o <<w>>
      <3>1. /\ SubSeq(output, 1, m + 1) \in Seq(Words) /\ Len(SubSeq(output, 1, m + 1)) = m + 1
            /\ \A i \in 1 .. m + 1 : SubSeq(output, 1, m + 1)[i] = output[i]
        BY <1>2, <2>1, Slice DEF n
      <3> HIDE DEF before, w
      <3>2. <<w>> \in Seq(Words) /\ Len(<<w>>) = 1 /\ <<w>>[1] = w
        BY <2>2
      <3>3. /\ before \o <<w>> \in Seq(Words) /\ Len(before \o <<w>>) = m + 1
            /\ \A i \in 1 .. m + 1 : (before \o <<w>>)[i] = IF i <= m THEN before[i] ELSE <<w>>[i - m]
        BY <2>3, <3>2, ConcatProperties
      <3>4. \A i \in 1 .. m + 1 : (before \o <<w>>)[i] = output[i]
        <4> SUFFICES ASSUME NEW i \in 1 .. m + 1 PROVE (before \o <<w>>)[i] = output[i]  OBVIOUS
        <4>1. CASE i <= m
          BY <2>3, <3>3, <4>1
        <4>2. CASE i = m + 1
          BY <3>2, <3>3, <4>2 DEF w
        <4>3. i <= m \/ i = m + 1
          OBVIOUS
        <4> QED BY <4>1, <4>2, <4>3, Zenon
      <3> QED BY <3>1, <3>3, <3>4, SeqEqual
    <2> HIDE DEF before, w
    <2>6. <<w>> \in Seq(Words)
      BY <2>2
    <2>7. Embeds(F[m] \o <<w>>, before \o <<w>>) /\ Embeds(F[m], before \o <<w>>)
      BY <2>2, <2>3, <2>6, EmbedsConcat
    <2>8. F[m] \o <<>> = F[m]
      BY <2>2, ConcatEmptySeq
    <2>9. piece(m + 1) = <<>> \/ piece(m + 1) = <<w>>
      BY <1>2, <1>4, <2>1 DEF w
    <2> QED BY <2>4, <2>5, <2>7, <2>8, <2>9
  <1> HIDE DEF Good
  <1>10. n \in Good
    BY <1>2, <1>8, <1>9, Induction
  <1>11. Embeds(F[n], SubSeq(output, 1, n))
    BY <1>2, <1>10 DEF Good
  <1>12. SubSeq(output, 1, n) = output
    BY SubSeqFull DEF n
  <1> QED BY <1>3, <1>5, <1>6, <1>11, <1>12, FlattenIsLast
-----------------------------------------------------------------------------
(* Why the reply ended.                                                    *)

\* While a call is active there is no result; when its loop is done, the counts that
\* StopReason looks at agree with what happened.
StopInv ==
    /\ pc # "idle" => result = None
    /\ pc = "done" =>
         \/ user_stopped = TRUE /\ ended = "refused"
         \/ user_stopped = FALSE /\ ended = "budget" /\ Len(output) >= req.max_tokens
         \/ user_stopped = FALSE /\ ended = "eos" /\ Len(output) < req.max_tokens

ReasonInv == Types /\ StopInv /\ ReasonIsTrue

\* A result that gives the true reason gives the true counts and text.
LEMMA ReturnReason ==
    ASSUME Types, pc # "idle", NEW reason \in Reasons, Return(reason),
           reason = Why[ended'], reason = "eos" <=> ended' = "eos"
    PROVE  StopInv' /\ ReasonIsTrue'
  <1>1. StopInv'
    BY DEF Return, StopInv
  <1>2. result' = Result(Len(output), reason) /\ output \in Seq(Words)
    BY SMTT(40) DEF Return, Types, CallTypes
  <1>3. Last(turns').reply = output
    BY ReturnTurns DEF Last
  <1>4. /\ result'.reason = reason /\ result'.text = Text
        /\ result'.generated_tokens = Len(output) + (IF reason = "eos" THEN 1 ELSE 0)
    BY <1>2 DEF Result
  <1>5. IsSubsequence(Text, output)
    BY <1>2, TextType, TextEmbeds, EmbedsSubsequence
  <1>6. Why' = Why
    BY DEF Why
  <1>7. result'.generated_tokens = Len(output) + (IF ended' = "eos" THEN 1 ELSE 0)
    BY <1>4
  <1>8. ReasonIsTrue'
    BY <1>3, <1>4, <1>5, <1>6, <1>7, Zenon DEF ReasonIsTrue
  <1> QED BY <1>1, <1>8

LEMMA SameReason ==
    ASSUME ReasonInv, UNCHANGED <<pc, req, output, user_stopped, result, turns, ended>>
    PROVE  StopInv' /\ ReasonIsTrue'
  BY DEF ReasonInv, StopInv, ReasonIsTrue

LEMMA NoResult ==
    ASSUME result' = None, pc' # "done"
    PROVE  StopInv' /\ ReasonIsTrue'
  BY DEF StopInv, ReasonIsTrue
LEMMA TurnReason ==
    ASSUME ReasonInv, Turn
    PROVE  StopInv' /\ ReasonIsTrue'
  <1>0. Types /\ StopInv /\ (pc # "idle" => result = None)
    BY DEF ReasonInv, StopInv
  <1>1. CASE (pc = "fit" /\ Evict(Len(req.ids), "refill")) \/ (pc = "feed" /\ Evict(1, "refeed"))
    BY <1>0, <1>1, NoResult DEF Evict
  <1>2. ASSUME NEW w \in Words \cup Eos, Prefill(w) \/ Feed(w) PROVE StopInv' /\ ReasonIsTrue'
    BY <1>0, <1>2, NoResult DEF Prefill, Feed
  <1>3. CASE PrefillFails \/ FeedFails
    BY <1>3, NoResult DEF PrefillFails, FeedFails, Throw
  <1>4. CASE PromptRejected \/ FeedExceeds
    <2>1. pc # "idle" /\ Return("context_length") /\ ended' = "full"
      BY <1>4 DEF PromptRejected, FeedExceeds, Exceeded
    <2>2. "context_length" \in Reasons /\ "context_length" = Why[ended']
      BY <2>1 DEF Reasons, Why
    <2> QED BY <1>0, <2>1, <2>2, ReturnReason
  <1>5. ASSUME NEW refuse \in BOOLEAN, Emit(refuse) PROVE StopInv' /\ ReasonIsTrue'
    <2>1. /\ pc = "top" /\ user_stopped' = refuse /\ pc' = IF refuse THEN "done" ELSE "feed"
          /\ ended' = IF refuse THEN "refused" ELSE ended
          /\ result' = result
      BY <1>5 DEF Emit
    <2>2. CASE refuse = TRUE
      BY <1>0, <2>1, <2>2 DEF StopInv, ReasonIsTrue
    <2>3. CASE refuse = FALSE
      BY <1>0, <2>1, <2>3, NoResult
    <2> QED BY <2>2, <2>3
  <1>6. CASE LoopEnds
    <2>1. /\ pc = "top" /\ pc' = "done" /\ result' = result
          /\ ended' = IF Len(output) < req.max_tokens THEN "eos" ELSE "budget"
          /\ UNCHANGED <<req, output, user_stopped>>
      BY <1>6 DEF LoopEnds, call
    <2>2. user_stopped = FALSE
      BY <1>0, <2>1, Zenon DEF Types, CallTypes, StopTypes
    <2>3. Len(output) \in Nat /\ req.max_tokens \in Nat
      BY <1>0, <2>1, RequestFacts DEF Types, CallTypes
    <2> QED BY <1>0, <2>1, <2>2, <2>3 DEF StopInv, ReasonIsTrue
  <1>7. CASE Finish
    <2>1. pc = "done" /\ Return(StopReason) /\ ended' = ended
      BY <1>7 DEF Finish
    <2>2. Len(output) \in Nat /\ req.max_tokens \in Nat
      BY <1>0, <2>1, RequestFacts DEF Types, CallTypes
    <2>3. /\ StopReason \in Reasons /\ StopReason = Why[ended]
          /\ (StopReason = "eos" <=> ended = "eos")
      <3>1. CASE user_stopped = TRUE /\ ended = "refused"
        BY <3>1 DEF StopReason, Reasons, Why
      <3>2. CASE user_stopped = FALSE /\ ended = "budget" /\ Len(output) >= req.max_tokens
        BY <3>2 DEF StopReason, Reasons, Why
      <3>3. CASE user_stopped = FALSE /\ ended = "eos" /\ Len(output) < req.max_tokens
        BY <2>2, <3>3 DEF StopReason, Reasons, Why
      <3> QED BY <1>0, <2>1, <3>1, <3>2, <3>3 DEF StopInv
    <2> QED BY <1>0, <2>1, <2>3, ReturnReason
  <1> QED BY <1>1, <1>2, <1>3, <1>4, <1>5, <1>6, <1>7 DEF Turn

LEMMA NextReason ==
    ASSUME ReasonInv, [Next]_vars
    PROVE  StopInv' /\ ReasonIsTrue'
  <1>1. ASSUME NEW b \in Bundles, NEW outcome \in Outcomes, Create(b, outcome)
        PROVE  StopInv' /\ ReasonIsTrue'
    BY <1>1, NoResult DEF Create
  <1>2. ASSUME NEW msg \in Messages, NEW tokenized \in BOOLEAN, NEW cfg \in SamplerCfgs,
               NEW max \in MaxTokens, NEW sliding \in Sliding,
               Generate(msg, tokenized, cfg, max, sliding)
        PROVE  StopInv' /\ ReasonIsTrue'
    <2>1. result' = None /\ pc' = "fit"
      BY <1>2 DEF Generate
    <2> QED BY <2>1, NoResult
  <1>3. CASE Error
    <2>1. /\ pc = "idle" /\ pc' = "idle" /\ result'.reason = "error" /\ ended' = "error"
          /\ turns' = <<>> \/ turns' = turns
      BY <1>3 DEF Error, ClearModel
    <2>2. turns' # <<>> => Last(turns').reason # "error"
      <3>1. ASSUME turns # <<>> PROVE Last(turns).reason # "error"
        <4>1. turns \in Seq(TurnRecord) /\ Len(turns) \in 1 .. Len(turns)
          BY <3>1 DEF ReasonInv, Types, ChatTypes
        <4>2. turns[Len(turns)] \in TurnRecord
          BY <4>1
        <4>3. turns[Len(turns)].reason \in Reasons \cup {None} /\ "error" # None
          BY <4>2, PipelineAssumption DEF TurnRecord
        <4> QED BY <4>3 DEF Last, Reasons
      <3> QED BY <2>1, <3>1
    <2>3. StopInv'
      BY <2>1 DEF StopInv
    <2>4. "error" = Why'["error"]
      BY DEF Why
    <2> QED BY <2>1, <2>2, <2>3, <2>4, Zenon DEF ReasonIsTrue
  <1>4. CASE Turn
    BY <1>4, TurnReason
  <1>5. CASE Reset
    BY <1>5, NoResult DEF Reset
  <1>6. CASE SaveKVCache
    BY <1>6, SameReason DEF SaveKVCache, call, history
  <1>7. CASE LoadKVCache
    BY <1>7, SameReason DEF LoadKVCache, call
  <1>8. CASE UNCHANGED vars
    BY <1>8, SameReason DEF vars, call, history
  <1> QED BY <1>1, <1>2, <1>3, <1>4, <1>5, <1>6, <1>7, <1>8 DEF Next

\* The stop reason a front end works out from counts is the one the loop had, the tokens
\* it reports are those it streamed, and its text says nothing that was not sampled.
THEOREM ReasonsAreTrue == Spec => []ReasonIsTrue
  <1>1. Init => ReasonInv
    <2>1. Init => StopInv /\ ReasonIsTrue
      BY DEF Init, StopInv, ReasonIsTrue
    <2> QED BY <2>1, InitTypes DEF ReasonInv
  <1>2. ReasonInv /\ [Next]_vars => ReasonInv'
    BY NextReason, NextTypes DEF ReasonInv
  <1>3. ReasonInv => ReasonIsTrue
    BY DEF ReasonInv
  <1> QED BY <1>1, <1>2, <1>3, PTL DEF Spec
-----------------------------------------------------------------------------
(* BOS is in front of the context, and nowhere else.                       *)

\* What users say does not itself contain BOS.
PlainMessages == \A msg \in Messages : \A i \in DOMAIN msg : msg[i] # Bos

Plain == Token \ {Bos}

NoBosAfter(k, s) == \A i \in k + 1 .. Len(s) : s[i] # Bos

Undamaged == damage \cap {"evicted", "loaded"} = {}
TextOnly == Undamaged /\ \A i \in DOMAIN turns : ~turns[i].tokenized

\* The prompt that waits has BOS in front only if nothing is before it, and has it there
\* if the context is to begin with it.
PromptInv ==
    pc \in {"fit", "refill"} =>
        /\ NoBosAfter(1, req.ids)
        /\ n_past > 0 => req.ids[1] # Bos
        /\ TextOnly /\ bos_token_id # None /\ n_past = 0 => req.ids[1] = Bos

FrontInv == TextOnly /\ bos_token_id # None /\ n_past > 0 => token_history[1] = Bos

BosInv ==
    /\ kind = "auto" => bos_token_id = None
    /\ messages \in Seq(MessageOf(Plain))
    /\ NoBosAfter(1, token_history)
    /\ file # None => NoBosAfter(1, file)
    /\ PromptInv /\ FrontInv
    /\ pc \in {"refill", "refeed"} => ~Undamaged
    /\ pc \in {"top", "feed"} /\ Undamaged => n_past > 0

LEMMA PlainFacts ==
    ASSUME PlainMessages
    PROVE  /\ \A msg \in Messages : msg \in Seq(Plain) /\ msg # <<>>
           /\ EndOfTurn \in Plain /\ Words \subseteq Plain /\ Eos \subseteq Plain
  <1>1. ASSUME NEW msg \in Messages PROVE msg \in Seq(Plain) /\ msg # <<>>
    <2>1. msg \in Seq(Token) /\ msg # <<>> /\ DOMAIN msg = 1 .. Len(msg) /\ Len(msg) \in Nat
      BY TokenFacts
    <2>2. \A i \in 1 .. Len(msg) : msg[i] \in Plain
      BY <2>1 DEF PlainMessages, Plain
    <2> QED BY <2>1, <2>2, IsASeq
  <1> QED BY <1>1, TokenFacts, PipelineAssumption DEF Plain

\* The prompt of a call is plain, but for a BOS put in front when nothing is before it.
LEMMA PromptBos ==
    ASSUME Types, BosInv, PlainMessages, NEW msg \in Messages, NEW tokenized \in BOOLEAN
    PROVE  LET ids == IF tokenized THEN msg ELSE WithBos(Prompt(msg))
           IN  /\ NoBosAfter(1, ids)
               /\ n_past > 0 => ids[1] # Bos
               /\ ~tokenized /\ bos_token_id # None /\ n_past = 0 => ids[1] = Bos
  <1>1. msg \in Seq(Plain) /\ msg # <<>> /\ EndOfTurn \in Plain /\ messages \in Seq(MessageOf(Plain))
    BY PlainFacts DEF BosInv
  <1>2. ASSUME NEW ids \in Seq(Plain), ids # <<>> PROVE NoBosAfter(1, ids) /\ ids[1] # Bos
    <2>1. \A i \in 1 .. Len(ids) : ids[i] # Bos
      BY DEF Plain
    <2>2. 1 \in 1 .. Len(ids) /\ \A i \in 1 + 1 .. Len(ids) : i \in 1 .. Len(ids)
      BY <1>2
    <2> QED BY <2>1, <2>2 DEF NoBosAfter
  <1>3. CASE tokenized = TRUE
    BY <1>1, <1>2, <1>3
  <1>4. CASE tokenized = FALSE
    <2> DEFINE p == Prompt(msg)
    <2>1. p \in Seq(Plain) /\ p # <<>>
      BY <1>1, PromptType
    <2> HIDE DEF p
    <2>2. NoBosAfter(1, p) /\ p[1] # Bos /\ Head(p) = p[1] /\ Len(p) \in Nat
      BY <1>2, <2>1
    <2>3. CASE bos_token_id # None /\ n_past = 0
      <3> DEFINE ids == <<Bos>> \o p
      <3>1. WithBos(p) = ids
        BY <2>2, <2>3 DEF WithBos
      <3>2. <<Bos>> \in Seq(Token) /\ Len(<<Bos>>) = 1 /\ <<Bos>>[1] = Bos /\ p \in Seq(Token)
        BY <2>1, TokenFacts DEF Plain
      <3>3. /\ Len(ids) = 1 + Len(p)
            /\ \A i \in 1 .. 1 + Len(p) : ids[i] = IF i <= 1 THEN <<Bos>>[i] ELSE p[i - 1]
        BY <3>2, ConcatProperties
      <3> HIDE DEF ids
      <3>4. ids[1] = Bos
        BY <2>2, <3>2, <3>3
      <3>5. ASSUME NEW i \in 1 + 1 .. Len(ids) PROVE ids[i] # Bos
        <4>1. i - 1 \in 1 .. Len(p) /\ i \in 1 .. 1 + Len(p) /\ ~ (i <= 1)
          BY <2>2, <3>3
        <4>2. ids[i] = p[i - 1]
          BY <3>3, <4>1
        <4> QED BY <2>1, <4>1, <4>2 DEF Plain
      <3> QED BY <1>4, <2>3, <3>1, <3>4, <3>5 DEF NoBosAfter, p
    <2>4. CASE ~ (bos_token_id # None /\ n_past = 0)
      <3>1. WithBos(p) = p
        BY <2>4 DEF WithBos
      <3> QED BY <1>4, <2>2, <2>4, <3>1 DEF p
    <2> QED BY <2>3, <2>4
  <1> QED BY <1>3, <1>4
\* A step that leaves the context, the chat and the damage alone and does not go back to
\* a prompt that waits.
LEMMA SameBos ==
    ASSUME BosInv, UNCHANGED <<kind, bos_token_id, token_history, file, messages, damage>>,
           \A i \in DOMAIN turns' : i \in DOMAIN turns /\ turns'[i].tokenized = turns[i].tokenized,
           \A i \in DOMAIN turns : i \in DOMAIN turns',
           \/ pc' \in {"idle", "done"}
           \/ pc' \in {"top", "feed"} /\ pc \in {"top", "feed"}
    PROVE  BosInv'
  <1>1. TextOnly' = TextOnly /\ Undamaged' = Undamaged
    BY DEF TextOnly, Undamaged
  <1>2. NoBosAfter(1, token_history') /\ (file' # None => NoBosAfter(1, file'))
    BY DEF BosInv
  <1>3. PromptInv'
    BY DEF PromptInv
  <1>4. FrontInv'
    BY <1>1 DEF BosInv, FrontInv, n_past
  <1> QED BY <1>1, <1>2, <1>3, <1>4 DEF BosInv, n_past

\* resetKVCache and create leave a context with nothing in it.
LEMMA ClearBos ==
    ASSUME BosInv, pc' = "idle", token_history' = <<>>,
           UNCHANGED <<kind, bos_token_id, messages, file>>
    PROVE  BosInv'
  <1>1. n_past' = 0 /\ NoBosAfter(1, token_history')
    BY DEF n_past, NoBosAfter
  <1> QED BY <1>1 DEF BosInv, PromptInv, FrontInv

\* A reply is noted.
LEMMA ReturnBos ==
    ASSUME Types, BosInv, PlainMessages, pc # "idle", NEW reason \in Reasons, Return(reason),
           UNCHANGED <<impl, token_history, file, damage>>
    PROVE  BosInv'
  <1>1. messages' \in Seq(MessageOf(Plain))
    <2>1. messages \in Seq(MessageOf(Plain)) /\ output \in Seq(Words)
      BY DEF BosInv, Types, CallTypes
    <2>2. Text \in Seq(Plain)
      BY <2>1, TextType, PlainFacts
    <2>3. [role |-> "assistant", content |-> Text] \in MessageOf(Plain)
      BY <2>2 DEF MessageOf
    <2> QED BY <2>1, <2>3 DEF Return
  <1>2. /\ DOMAIN turns = 1 .. Len(turns) /\ DOMAIN turns' = 1 .. Len(turns) /\ Len(turns) \in Nat
        /\ \A i \in 1 .. Len(turns) : turns'[i].tokenized = turns[i].tokenized
    <2>1. turns \in Seq(TurnRecord)
      BY DEF Types, ChatTypes
    <2>2. ASSUME NEW i \in 1 .. Len(turns) PROVE turns'[i].tokenized = turns[i].tokenized
      <3>1. CASE i = Len(turns)
        BY ZenonT(40), <3>1, ReturnTurns
      <3>2. CASE i # Len(turns)
        <4>1. i \in 1 .. Len(turns) - 1
          BY <2>1, <3>2
        <4> QED BY <4>1, ReturnTurns
      <3> QED BY SMTT(40), <3>1, <3>2
    <2>3. turns' \in Seq(TurnRecord) /\ Len(turns') = Len(turns)
      BY ReturnTurns
    <2>4. DOMAIN turns = 1 .. Len(turns) /\ DOMAIN turns' = 1 .. Len(turns') /\ Len(turns) \in Nat
      BY <2>1, <2>3
    <2> QED BY <2>2, <2>3, <2>4
  <1>3. TextOnly' = TextOnly /\ Undamaged' = Undamaged
    BY <1>2 DEF TextOnly, Undamaged
  <1>4. pc' = "idle" /\ UNCHANGED <<kind, bos_token_id, token_history, file>>
    BY DEF Return, impl
  <1> QED BY <1>1, <1>3, <1>4 DEF BosInv, PromptInv, FrontInv, n_past

\* A call begins.
LEMMA GenerateBos ==
    ASSUME Types, BosInv, PlainMessages, NEW msg \in Messages, NEW tokenized \in BOOLEAN,
           NEW cfg \in SamplerCfgs, NEW max \in MaxTokens, NEW sliding \in Sliding,
           Generate(msg, tokenized, cfg, max, sliding)
    PROVE  BosInv'
  <1> DEFINE ids == IF tokenized THEN msg ELSE WithBos(Prompt(msg))
             t == [prompt |-> ids, tokenized |-> tokenized, reply |-> <<>>, reason |-> None]
  <1>1. /\ req'.ids = ids /\ turns' = Append(turns, t) /\ pc' = "fit"
        /\ messages' = IF kind = "auto" THEN Append(messages, User(msg)) ELSE messages
        /\ UNCHANGED <<kind, bos_token_id, token_history, file, damage>>
    BY DEF Generate, impl
  <1>2. /\ NoBosAfter(1, ids) /\ (n_past > 0 => ids[1] # Bos)
        /\ ~tokenized /\ bos_token_id # None /\ n_past = 0 => ids[1] = Bos
    BY PromptBos
  <1>3. TextOnly' => TextOnly /\ ~tokenized
    <2> SUFFICES ASSUME TextOnly' PROVE TextOnly /\ ~tokenized  OBVIOUS
    <2>1. turns \in Seq(TurnRecord)
      BY DEF Types, ChatTypes
    <2>2. t.tokenized = tokenized
      OBVIOUS
    <2> HIDE DEF t
    <2>3. /\ DOMAIN turns' = 1 .. Len(turns) + 1 /\ turns'[Len(turns) + 1] = t
          /\ \A i \in 1 .. Len(turns) : turns'[i] = turns[i]
          /\ DOMAIN turns = 1 .. Len(turns) /\ Len(turns) \in Nat
      BY <1>1, <2>1
    <2>4. Undamaged /\ \A i \in DOMAIN turns' : ~turns'[i].tokenized
      BY <1>1 DEF TextOnly, Undamaged
    <2>5. \A i \in DOMAIN turns : ~turns[i].tokenized
      BY <2>3, <2>4
    <2>6. ~tokenized
      BY <2>2, <2>3, <2>4
    <2> QED BY <2>4, <2>5, <2>6 DEF TextOnly
  <1>4. messages' \in Seq(MessageOf(Plain))
    <2>1. User(msg) \in MessageOf(Plain)
      BY PlainFacts DEF User, MessageOf
    <2> QED BY <1>1, <2>1 DEF BosInv
  <1> HIDE DEF ids, t
  <1>5. PromptInv'
    BY <1>1, <1>2, <1>3 DEF PromptInv, n_past
  <1>6. FrontInv'
    BY <1>1, <1>3 DEF BosInv, FrontInv, n_past
  <1> QED BY <1>1, <1>4, <1>5, <1>6 DEF BosInv, n_past

\* What entered of the prompt that waits.
LEMMA EnterBos ==
    ASSUME Types, BosInv, pc \in {"fit", "refill"}, NEW h \in Seq(Token),
           \A i \in 1 .. Len(h) : /\ i <= n_past => h[i] = token_history[i]
                                  /\ i > n_past => i - n_past \in 1 .. Len(req.ids) /\ h[i] = req.ids[i - n_past]
    PROVE  NoBosAfter(1, h) /\ (TextOnly /\ bos_token_id # None /\ Len(h) > 0 => h[1] = Bos)
  <1>1. n_past \in Nat /\ Len(h) \in Nat
    BY DEF Types, ModelTypes, n_past
  <1>2. PromptInv /\ FrontInv /\ NoBosAfter(1, token_history)
    BY DEF BosInv
  <1>3. ASSUME NEW i \in 1 + 1 .. Len(h) PROVE h[i] # Bos
    <2>0. i \in 1 .. Len(h) /\ i >= 2
      BY <1>1
    <2>1. CASE i <= n_past
      <3>1. i \in 1 + 1 .. Len(token_history)
        BY <1>1, <2>1 DEF n_past
      <3> QED BY <1>2, <2>0, <2>1, <3>1 DEF NoBosAfter
    <2>2. CASE i > n_past
      <3>1. h[i] = req.ids[i - n_past] /\ i - n_past \in 1 .. Len(req.ids)
        BY <2>0, <2>2
      <3>2. CASE n_past = 0
        <4>1. i \in 1 + 1 .. Len(req.ids) /\ i - n_past = i
          BY <2>0, <3>1, <3>2
        <4> QED BY <1>2, <3>1, <4>1 DEF PromptInv, NoBosAfter
      <3>3. CASE n_past > 0
        <4>1. i - n_past = 1 \/ i - n_past \in 1 + 1 .. Len(req.ids)
          BY <1>1, <2>0, <3>1
        <4> QED BY <1>2, <3>1, <3>3, <4>1 DEF PromptInv, NoBosAfter
      <3> QED BY <1>1, <3>2, <3>3
    <2> QED BY <1>1, <2>1, <2>2
  <1>4. ASSUME TextOnly, bos_token_id # None, Len(h) > 0 PROVE h[1] = Bos
    <2>1. 1 \in 1 .. Len(h)
      BY <1>1, <1>4
    <2>2. CASE n_past = 0
      <3>1. h[1] = req.ids[1 - n_past] /\ 1 - n_past = 1
        BY <2>1, <2>2
      <3> QED BY <1>2, <1>4, <2>2, <3>1 DEF PromptInv
    <2>3. CASE n_past > 0
      <3>1. 1 <= n_past
        BY <1>1, <2>3
      <3> QED BY <1>2, <1>4, <2>1, <2>3, <3>1 DEF FrontInv
    <2> QED BY <1>1, <2>2, <2>3
  <1> QED BY <1>3, <1>4 DEF NoBosAfter

\* A step that changes the context, and no prompt waits after it.
LEMMA HistoryBos ==
    ASSUME BosInv, UNCHANGED <<kind, bos_token_id, messages, file, turns>>,
           damage' = damage \/ damage' = damage \cup {"exception"},
           NoBosAfter(1, token_history'),
           TextOnly /\ bos_token_id # None /\ n_past' > 0 => token_history'[1] = Bos,
           pc' = "idle" \/ (pc' = "top" /\ n_past' > 0)
    PROVE  BosInv'
  <1>1. TextOnly' = TextOnly /\ Undamaged' = Undamaged
    BY DEF TextOnly, Undamaged
  <1>2. PromptInv' /\ FrontInv'
    BY <1>1 DEF PromptInv, FrontInv
  <1> QED BY <1>1, <1>2 DEF BosInv

LEMMA PrefillBos ==
    ASSUME Types, BosInv, NEW w, Prefill(w)
    PROVE  BosInv'
  <1> DEFINE h == token_history \o req.ids
  <1>1. /\ pc \in {"fit", "refill"} /\ token_history' = h /\ pc' = "top"
        /\ UNCHANGED <<kind, bos_token_id, messages, file, turns, damage>>
    BY DEF Prefill, impl
  <1>2. req \in Request /\ token_history \in Seq(Token)
    BY <1>1 DEF Types, ModelTypes, CallTypes
  <1>3. req.ids \in Seq(Token) /\ Len(req.ids) \in Nat \ {0} /\ n_past \in Nat
    BY <1>2, RequestFacts DEF n_past
  <1>4. /\ h \in Seq(Token) /\ Len(h) = n_past + Len(req.ids)
        /\ \A i \in 1 .. Len(h) : /\ i <= n_past => h[i] = token_history[i]
                                  /\ i > n_past => i - n_past \in 1 .. Len(req.ids) /\ h[i] = req.ids[i - n_past]
    BY <1>2, <1>3 DEF n_past
  <1> HIDE DEF h
  <1>5. NoBosAfter(1, h) /\ (TextOnly /\ bos_token_id # None /\ Len(h) > 0 => h[1] = Bos)
    BY <1>1, <1>4, EnterBos
  <1>6. n_past' = Len(h) /\ Len(h) > 0
    BY <1>1, <1>3, <1>4 DEF n_past
  <1> QED BY <1>1, <1>5, <1>6, HistoryBos

LEMMA PrefillFailsBos ==
    ASSUME Types, BosInv, PrefillFails
    PROVE  BosInv'
  <1>1. /\ pc \in {"fit", "refill"} /\ pc' = "idle" /\ damage' = damage \cup {"exception"}
        /\ UNCHANGED <<kind, bos_token_id, messages, file, turns>>
    BY DEF PrefillFails, Throw, impl
  <1>2. req \in Request /\ token_history \in Seq(Token)
    BY <1>1 DEF Types, ModelTypes, CallTypes
  <1>3. req.ids \in Seq(Token) /\ Len(req.ids) \in Nat \ {0} /\ n_past \in Nat
    BY <1>2, RequestFacts DEF n_past
  <1>4. EffectiveKeep \in Nat
    BY PipelineAssumption DEF EffectiveKeep
  <1>5. PICK k \in (IF pc = "refill" THEN EffectiveKeep ELSE n_past) .. n_past + Len(req.ids) - 1 :
           token_history' = SubSeq(token_history \o req.ids, 1, k)
    BY DEF PrefillFails
  <1>6. k \in 0 .. n_past + Len(req.ids)
    BY <1>3, <1>4, <1>5
  <1> DEFINE h == SubSeq(token_history \o req.ids, 1, k)
  <1>7. /\ h \in Seq(Token) /\ Len(h) = k
        /\ \A i \in 1 .. k : h[i] = IF i <= n_past THEN token_history[i] ELSE req.ids[i - n_past]
    BY <1>2, <1>3, <1>6, CutFacts DEF n_past
  <1>8. token_history' = h
    BY <1>5
  <1> HIDE DEF h
  <1>9. \A i \in 1 .. Len(h) : /\ i <= n_past => h[i] = token_history[i]
                               /\ i > n_past => i - n_past \in 1 .. Len(req.ids) /\ h[i] = req.ids[i - n_past]
    BY <1>3, <1>6, <1>7
  <1>10. NoBosAfter(1, h) /\ (TextOnly /\ bos_token_id # None /\ Len(h) > 0 => h[1] = Bos)
    BY <1>1, <1>7, <1>9, EnterBos
  <1> QED BY <1>1, <1>8, <1>10, HistoryBos DEF n_past

\* What stays of the context, and what an emitted token makes of it.
LEMMA FeedBos ==
    ASSUME Types, BosInv, PlainMessages, NEW w, Feed(w)
    PROVE  BosInv'
  <1>1. /\ pc \in {"feed", "refeed"} /\ token_history' = Append(token_history, next_token) /\ pc' = "top"
        /\ UNCHANGED <<kind, bos_token_id, messages, file, turns, damage>>
    BY DEF Feed, impl
  <1>2. token_history \in Seq(Token) /\ next_token \in Words \cup Eos
    BY <1>1 DEF Types, ModelTypes, CallTypes, Sampled
  <1>3. next_token # Bos /\ next_token \in Token
    BY <1>2, PlainFacts, TokenFacts DEF Plain
  <1>4. /\ n_past \in Nat /\ n_past' = n_past + 1 /\ token_history'[n_past + 1] = next_token
        /\ \A i \in 1 .. n_past : token_history'[i] = token_history[i]
    BY <1>1, <1>2, <1>3 DEF n_past
  <1>5. NoBosAfter(1, token_history) /\ FrontInv /\ (Undamaged => n_past > 0)
    <2>1. pc = "feed" \/ pc = "refeed"
      BY <1>1
    <2> QED BY <2>1 DEF BosInv
  <1>6. NoBosAfter(1, token_history')
    BY <1>3, <1>4, <1>5 DEF NoBosAfter, n_past
  <1>7. TextOnly /\ bos_token_id # None => token_history'[1] = Bos
    <2> SUFFICES ASSUME TextOnly, bos_token_id # None PROVE token_history'[1] = Bos  OBVIOUS
    <2>1. n_past > 0
      BY <1>5 DEF TextOnly
    <2> QED BY <1>4, <1>5, <2>1 DEF FrontInv
  <1>8. n_past' > 0
    BY <1>4
  <1> QED BY <1>1, <1>6, <1>7, <1>8, HistoryBos

LEMMA FeedFailsBos ==
    ASSUME Types, BosInv, FeedFails
    PROVE  BosInv'
  <1>1. /\ pc \in {"feed", "refeed"} /\ pc' = "idle" /\ damage' = damage \cup {"exception"}
        /\ UNCHANGED <<kind, bos_token_id, messages, file, turns>>
    BY DEF FeedFails, Throw, impl
  <1>2. token_history \in Seq(Token) /\ n_past \in Nat
    BY DEF Types, ModelTypes, n_past
  <1>3. EffectiveKeep \in Nat
    BY PipelineAssumption DEF EffectiveKeep
  <1>4. PICK k \in (IF pc = "refeed" THEN EffectiveKeep ELSE n_past) .. n_past :
           token_history' = SubSeq(token_history, 1, k)
    BY DEF FeedFails
  <1>5. k \in Nat /\ k <= n_past
    BY <1>2, <1>3, <1>4
  <1>6. /\ Len(token_history') = k
        /\ \A i \in 1 .. k : token_history'[i] = token_history[i]
    BY <1>2, <1>4, <1>5 DEF n_past
  <1>7. NoBosAfter(1, token_history) /\ FrontInv
    BY DEF BosInv
  <1>8. NoBosAfter(1, token_history')
    BY <1>2, <1>5, <1>6, <1>7 DEF NoBosAfter, n_past
  <1>9. TextOnly /\ bos_token_id # None /\ n_past' > 0 => token_history'[1] = Bos
    BY <1>2, <1>5, <1>6, <1>7 DEF FrontInv, n_past
  <1> QED BY <1>1, <1>8, <1>9, HistoryBos

LEMMA EvictBos ==
    ASSUME Types, BosInv, pc \in {"fit", "feed"}, NEW n_fit \in Nat, NEW next \in {"refill", "refeed"},
           next = "refill" => pc = "fit", Evict(n_fit, next)
    PROVE  BosInv'
  <1> DEFINE keep == EffectiveKeep
             d == Discard(n_fit)
             a == SubSeq(token_history, 1, keep)
             b == SubSeq(token_history, keep + d + 1, n_past)
  <1>1. /\ CanSlide(n_fit) /\ token_history' = a \o b /\ pc' = next
        /\ damage' = damage \cup {"evicted"}
        /\ UNCHANGED <<kind, bos_token_id, messages, file, turns, req>>
    BY DEF Evict, impl, call
  <1>2. token_history \in Seq(Token) /\ req \in Request /\ n_past \in Nat
    BY DEF Types, ModelTypes, CallTypes, n_past
  <1>3. keep \in Nat /\ d \in Nat \ {0} /\ keep + d <= n_past
    BY <1>1, <1>2, EvictFacts
  <1> HIDE DEF keep, d
  <1>4. /\ a \in Seq(Token) /\ Len(a) = keep /\ \A i \in 1 .. keep : a[i] = token_history[i]
        /\ b \in Seq(Token) /\ Len(b) = n_past - (keep + d)
        /\ \A i \in 1 .. n_past - (keep + d) : b[i] = token_history[keep + d + i]
    BY <1>2, <1>3 DEF n_past
  <1> HIDE DEF a, b
  <1>5. /\ Len(a \o b) = keep + Len(b)
        /\ \A i \in 1 .. keep + Len(b) : (a \o b)[i] = IF i <= keep THEN a[i] ELSE b[i - keep]
    BY ZenonT(40), <1>4, ConcatProperties
  <1>6. NoBosAfter(1, token_history)
    BY DEF BosInv
  <1>7. ASSUME NEW i \in 1 + 1 .. Len(token_history') PROVE token_history'[i] # Bos
    <2>1. i \in 1 .. keep + Len(b) /\ i >= 2 /\ i \in Nat
      BY <1>1, <1>3, <1>4, <1>5
    <2>2. CASE i <= keep
      <3>1. i \in 1 .. keep /\ i \in 1 + 1 .. Len(token_history)
        BY <1>2, <1>3, <2>1, <2>2 DEF n_past
      <3>2. (a \o b)[i] = token_history[i]
        BY <1>4, <1>5, <2>1, <2>2, <3>1
      <3> QED BY <1>1, <1>6, <3>1, <3>2 DEF NoBosAfter
    <2>3. CASE ~ (i <= keep)
      <3>1. /\ i - keep \in 1 .. n_past - (keep + d)
            /\ keep + d + (i - keep) = i + d /\ i + d \in 1 + 1 .. Len(token_history)
        BY <1>2, <1>3, <1>4, <2>1, <2>3 DEF n_past
      <3>2. (a \o b)[i] = b[i - keep] /\ b[i - keep] = token_history[i + d]
        BY SMTT(40), <1>4, <1>5, <2>1, <2>3, <3>1
      <3> QED BY <1>1, <1>6, <3>1, <3>2 DEF NoBosAfter
    <2> QED BY <2>2, <2>3
  <1>8. ~Undamaged' /\ ~TextOnly'
    BY <1>1 DEF TextOnly, Undamaged
  <1>9. PromptInv'
    <2>1. CASE next = "refill"
      <3>1. n_past > 0
        BY <1>2, <1>3
      <3> QED BY <1>1, <1>8, <2>1, <3>1 DEF BosInv, PromptInv
    <2>2. CASE next = "refeed"
      BY <1>1, <2>2 DEF PromptInv
    <2> QED BY <2>1, <2>2
  <1>10. FrontInv'
    BY <1>8 DEF FrontInv
  <1> QED BY <1>1, <1>7, <1>8, <1>9, <1>10 DEF BosInv, NoBosAfter

LEMMA TurnBos ==
    ASSUME Types, BosInv, PlainMessages, Turn
    PROVE  BosInv'
  <1>1. CASE pc = "fit" /\ Evict(Len(req.ids), "refill")
    <2>1. Len(req.ids) \in Nat
      BY <1>1, RequestFacts DEF Types, CallTypes
    <2> QED BY <1>1, <2>1, EvictBos
  <1>2. CASE pc = "feed" /\ Evict(1, "refeed")
    BY <1>2, EvictBos
  <1>3. ASSUME NEW w \in Words \cup Eos, Prefill(w) PROVE BosInv'
    BY <1>3, PrefillBos
  <1>4. ASSUME NEW w \in Words \cup Eos, Feed(w) PROVE BosInv'
    BY <1>4, FeedBos
  <1>5. CASE PrefillFails
    BY <1>5, PrefillFailsBos
  <1>6. CASE PromptRejected \/ FeedExceeds
    <2>1. /\ pc # "idle" /\ Return("context_length") /\ "context_length" \in Reasons
          /\ UNCHANGED <<impl, token_history, file, damage>>
      BY <1>6 DEF PromptRejected, FeedExceeds, Exceeded, Reasons
    <2> QED BY <2>1, ReturnBos
  <1>7. ASSUME NEW refuse \in BOOLEAN, Emit(refuse) PROVE BosInv'
    <2>1. /\ pc = "top" /\ pc' \in {"done", "feed"}
          /\ UNCHANGED <<kind, bos_token_id, token_history, file, messages, damage, turns>>
      BY <1>7, Zenon DEF Emit, impl
    <2> QED BY <2>1, SameBos
  <1>8. CASE FeedFails
    BY <1>8, FeedFailsBos
  <1>9. CASE LoopEnds
    <2>1. /\ pc' = "done"
          /\ UNCHANGED <<kind, bos_token_id, token_history, file, messages, damage, turns>>
      BY <1>9 DEF LoopEnds, impl
    <2> QED BY <2>1, SameBos
  <1>10. CASE Finish
    <2>1. /\ pc # "idle" /\ Return(StopReason) /\ StopReason \in Reasons
          /\ UNCHANGED <<impl, token_history, file, damage>>
      BY <1>10 DEF Finish, StopReason, Reasons
    <2> QED BY <2>1, ReturnBos
  <1> QED BY <1>1, <1>2, <1>3, <1>4, <1>5, <1>6, <1>7, <1>8, <1>9, <1>10 DEF Turn

LEMMA NextBos ==
    ASSUME Types, BosInv, PlainMessages, [Next]_vars
    PROVE  BosInv'
  <1>1. ASSUME NEW b \in Bundles, NEW outcome \in Outcomes, Create(b, outcome) PROVE BosInv'
    <2>1. pc' = "idle" /\ token_history' = <<>> /\ UNCHANGED <<kind, bos_token_id, messages, file>>
      BY <1>1 DEF Create
    <2> QED BY <2>1, ClearBos
  <1>2. ASSUME NEW msg \in Messages, NEW tokenized \in BOOLEAN, NEW cfg \in SamplerCfgs,
               NEW max \in MaxTokens, NEW sliding \in Sliding,
               Generate(msg, tokenized, cfg, max, sliding)
        PROVE  BosInv'
    BY <1>2, GenerateBos
  <1>3. CASE Error
    <2>1. pc' = "idle" /\ UNCHANGED <<kind, bos_token_id, messages, file>>
      BY <1>3 DEF Error, impl
    <2>2. CASE ClearModel
      BY <2>1, <2>2, ClearBos DEF ClearModel
    <2>3. CASE UNCHANGED <<token_history, sampler, turns, heard, damage>>
      BY <2>1, <2>3, SameBos
    <2> QED BY <1>3, <2>2, <2>3 DEF Error
  <1>4. CASE Turn
    BY <1>4, TurnBos
  <1>5. CASE Reset
    <2>1. pc' = "idle" /\ token_history' = <<>> /\ UNCHANGED <<kind, bos_token_id, messages, file>>
      BY <1>5 DEF Reset, ClearModel, impl
    <2> QED BY <2>1, ClearBos
  <1>6. CASE SaveKVCache
    <2>1. /\ pc' = "idle" /\ file' = token_history
          /\ UNCHANGED <<kind, bos_token_id, token_history, messages, turns, damage>>
      BY <1>6 DEF SaveKVCache, impl, history
    <2>2. TextOnly' = TextOnly /\ PromptInv'
      BY <2>1 DEF TextOnly, Undamaged, PromptInv
    <2> QED BY <2>1, <2>2 DEF BosInv, FrontInv, n_past
  <1>7. CASE LoadKVCache
    <2>1. /\ pc' = "idle" /\ file # None /\ token_history' = file /\ damage' = damage \cup {"loaded"}
          /\ UNCHANGED <<kind, bos_token_id, messages, file>>
      BY <1>7 DEF LoadKVCache, impl
    <2>2. ~TextOnly' /\ PromptInv'
      BY <2>1 DEF TextOnly, Undamaged, PromptInv
    <2> QED BY <2>1, <2>2 DEF BosInv, FrontInv
  <1>8. CASE UNCHANGED vars
    <2>1. UNCHANGED <<kind, bos_token_id, token_history, file, messages, damage, turns, pc, req>>
      BY <1>8 DEF vars, impl, call, history
    <2> QED BY <2>1 DEF BosInv, PromptInv, FrontInv, TextOnly, Undamaged, n_past
  <1> QED BY <1>1, <1>2, <1>3, <1>4, <1>5, <1>6, <1>7, <1>8 DEF Next

\* If no message holds BOS, a context made of text begins with BOS and has it nowhere
\* else, whatever was rejected, thrown away, saved or evicted before.
THEOREM BosKeptAtFront == PlainMessages => (Spec => []BosOnceAtFront)
  <1> SUFFICES ASSUME PlainMessages PROVE Spec => []BosOnceAtFront
    OBVIOUS
  <1> DEFINE Inv == Types /\ BosInv
  <1>1. Init => Inv
    <2>1. Init => BosInv
      BY DEF Init, BosInv, PromptInv, FrontInv, NoBosAfter, n_past
    <2> QED BY <2>1, InitTypes
  <1>2. Inv /\ [Next]_vars => Inv'
    BY NextBos, NextTypes
  <1>3. Inv => BosOnceAtFront
    BY DEF Types, BosInv, FrontInv, TextOnly, Undamaged, NoBosAfter, BosOnceAtFront, n_past
  <1> QED BY <1>1, <1>2, <1>3, PTL DEF Spec
-----------------------------------------------------------------------------
(* The context is the transcript of the turns.                             *)

\* What the first n turns of ts left in the context.
Spoken(ts, n) == FlattenSeq([i \in 1 .. n |-> Entered(ts[i])])

\* What the active call has fed of the reply it is about to return.
Fed == IF StopReason = "user" THEN Front(output) ELSE output

TranscriptInv ==
    damage = {} =>
        /\ pc \notin {"refill", "refeed"}
        /\ pc = "idle" => token_history = Spoken(turns, Len(turns))
        /\ pc = "fit" => output = <<>> /\ token_history = Spoken(turns, Len(turns) - 1)
        /\ pc = "top" => token_history = Spoken(turns, Len(turns) - 1) \o (req.ids \o output)
        /\ pc = "feed" => /\ output # <<>> /\ Last(output) = next_token
                          /\ token_history = Spoken(turns, Len(turns) - 1) \o (req.ids \o Front(output))
        /\ pc = "done" => /\ StopReason = "user" => output # <<>>
                          /\ token_history = Spoken(turns, Len(turns) - 1) \o (req.ids \o Fed)

LEMMA EnteredType ==
    ASSUME NEW t \in TurnRecord
    PROVE  Entered(t) \in Seq(Token)
  <1>1. t.prompt \in Seq(Token) /\ t.reply \in Seq(Token)
    <2>1. t.reply \in Seq(Words)
      BY DEF TurnRecord
    <2> QED BY <2>1, TokenFacts DEF TurnRecord
  <1>2. Front(t.reply) \in Seq(Token)
    BY <1>1 DEF Front
  <1>3. t.prompt \o t.reply \in Seq(Token) /\ t.prompt \o Front(t.reply) \in Seq(Token)
    BY <1>1, <1>2, ConcatProperties
  <1> QED BY <1>3 DEF Entered

\* A turn more.
LEMMA SpokenTurn ==
    ASSUME NEW ts \in Seq(TurnRecord), NEW n \in 1 .. Len(ts)
    PROVE  /\ Spoken(ts, n - 1) \in Seq(Token)
           /\ Spoken(ts, n) = Spoken(ts, n - 1) \o Entered(ts[n])
  <1> DEFINE s == [i \in 1 .. n - 1 |-> Entered(ts[i])]
             x == Entered(ts[n])
  <1>1. n \in Nat \ {0} /\ Len(ts) \in Nat /\ n - 1 \in Nat
    OBVIOUS
  <1>2. \A i \in 1 .. n : ts[i] \in TurnRecord
    BY <1>1
  <1>3. \A i \in 1 .. n : Entered(ts[i]) \in Seq(Token)
    BY <1>2, EnteredType
  <1>4. s \in Seq(Seq(Token)) /\ x \in Seq(Token) /\ Len(s) = n - 1
    <2>1. \A i \in 1 .. n - 1 : Entered(ts[i]) \in Seq(Token)
      BY <1>1, <1>3
    <2>2. s \in Seq(Seq(Token))
      BY <1>1, <2>1, IsASeq
    <2>3. DOMAIN s = 1 .. n - 1
      OBVIOUS
    <2>4. Len(s) = n - 1
      BY <1>1, <2>2, <2>3, LenProperties
    <2> QED BY <1>1, <1>3, <2>2, <2>4
  <1>5. [i \in 1 .. n |-> Entered(ts[i])] = Append(s, x)
    <2>1. Append(s, x) = [i \in 1 .. n |-> IF i <= n - 1 THEN s[i] ELSE x]
      <3>1. Append(s, x) = [i \in 1 .. Len(s) + 1 |-> IF i <= Len(s) THEN s[i] ELSE x]
        BY <1>4
      <3>2. Len(s) + 1 = n
        BY <1>1, <1>4
      <3> QED BY <1>4, <3>1, <3>2
    <2>2. \A i \in 1 .. n : Entered(ts[i]) = IF i <= n - 1 THEN s[i] ELSE x
      <3>1. ASSUME NEW i \in 1 .. n PROVE Entered(ts[i]) = IF i <= n - 1 THEN s[i] ELSE x
        <4>1. CASE i <= n - 1
          <5>1. i \in 1 .. n - 1
            BY <1>1, <4>1
          <5> QED BY <4>1, <5>1
        <4>2. CASE ~ (i <= n - 1)
          <5>1. i = n
            BY <1>1, <4>2
          <5> QED BY <4>2, <5>1
        <4> QED BY <4>1, <4>2
      <3> QED BY <3>1
    <2> QED BY <2>1, <2>2
  <1> HIDE DEF s, x
  <1>6. FlattenSeq(Append(s, x)) = FlattenSeq(s) \o x /\ FlattenSeq(s) \in Seq(Token)
    BY <1>4, FlattenAppend, FlattenType
  <1> QED BY <1>5, <1>6 DEF Spoken, s, x

\* What is noted of the last turn changes nothing before it.
LEMMA SpokenSame ==
    ASSUME NEW ts, NEW us, NEW n, \A i \in 1 .. n : us[i] = ts[i]
    PROVE  Spoken(us, n) = Spoken(ts, n)
  <1>1. [i \in 1 .. n |-> Entered(us[i])] = [i \in 1 .. n |-> Entered(ts[i])]
    OBVIOUS
  <1> QED BY <1>1 DEF Spoken

LEMMA SpokenNothing == Spoken(<<>>, 0) = <<>>
  <1>1. [i \in 1 .. 0 |-> Entered((<<>>)[i])] = <<>>
    OBVIOUS
  <1> QED BY <1>1, FlattenEmpty DEF Spoken

\* The turn that is returned is noted as it entered.
LEMMA ReturnTranscript ==
    ASSUME Types, pc # "idle", NEW reason \in Reasons, Return(reason),
           damage' = {} => token_history' = Spoken(turns, Len(turns) - 1) \o Entered(turns'[Len(turns)])
    PROVE  TranscriptInv'
  <1> DEFINE n == Len(turns)
  <1>1. /\ n \in Nat \ {0} /\ Len(turns') = n /\ turns' \in Seq(TurnRecord)
        /\ \A i \in 1 .. n - 1 : turns'[i] = turns[i]
    BY ReturnTurns
  <1>2. Spoken(turns', n - 1) = Spoken(turns, n - 1)
    BY <1>1, SpokenSame
  <1>3. n \in 1 .. Len(turns')
    BY <1>1
  <1>4. Spoken(turns', n) = Spoken(turns', n - 1) \o Entered(turns'[n])
    BY <1>1, <1>3, SpokenTurn
  <1>5. pc' = "idle"
    BY DEF Return
  <1> HIDE DEF n
  <1>6. damage' = {} => token_history' = Spoken(turns', Len(turns'))
    BY <1>1, <1>2, <1>4 DEF n
  <1> QED BY SMTT(40), <1>5, <1>6 DEF TranscriptInv

LEMMA ClearTranscript ==
    ASSUME pc' = "idle", token_history' = <<>>, turns' = <<>>
    PROVE  TranscriptInv'
  <1>1. Len(turns') = 0
    OBVIOUS
  <1> QED BY <1>1, SpokenNothing DEF TranscriptInv

LEMMA GenerateTranscript ==
    ASSUME Types, TranscriptInv, NEW msg \in Messages, NEW tokenized \in BOOLEAN,
           NEW cfg \in SamplerCfgs, NEW max \in MaxTokens, NEW sliding \in Sliding,
           Generate(msg, tokenized, cfg, max, sliding)
    PROVE  TranscriptInv'
  <1> DEFINE ids == IF tokenized THEN msg ELSE WithBos(Prompt(msg))
             t == [prompt |-> ids, tokenized |-> tokenized, reply |-> <<>>, reason |-> None]
             n == Len(turns)
  <1>1. /\ pc = "idle" /\ pc' = "fit" /\ output' = <<>> /\ turns' = Append(turns, t)
        /\ UNCHANGED <<token_history, damage>>
    BY DEF Generate
  <1>2. turns \in Seq(TurnRecord)
    BY DEF Types, ChatTypes
  <1> HIDE DEF t
  <1>3. n \in Nat /\ Len(turns') = n + 1 /\ \A i \in 1 .. n : turns'[i] = turns[i]
    BY <1>1, <1>2
  <1>4. Spoken(turns', n) = Spoken(turns, n)
    BY <1>3, SpokenSame
  <1>5. Len(turns') - 1 = n
    BY <1>3
  <1> HIDE DEF n
  <1>6. damage' = {} => token_history' = Spoken(turns', Len(turns') - 1)
    BY <1>1, <1>4, <1>5 DEF TranscriptInv, n
  <1> QED BY <1>1, <1>6 DEF TranscriptInv

LEMMA PrefillTranscript ==
    ASSUME Types, TranscriptInv, NEW w, Prefill(w)
    PROVE  TranscriptInv'
  <1>1. /\ pc \in {"fit", "refill"} /\ pc' = "top" /\ token_history' = token_history \o req.ids
        /\ UNCHANGED <<req, output, turns, damage>>
    BY DEF Prefill
  <1> SUFFICES ASSUME damage = {}
               PROVE  token_history' = Spoken(turns, Len(turns) - 1) \o (req.ids \o output)
    BY <1>1 DEF TranscriptInv
  <1>2. output = <<>> /\ token_history = Spoken(turns, Len(turns) - 1)
    BY <1>1 DEF TranscriptInv
  <1>3. req.ids \in Seq(Token)
    BY <1>1, RequestFacts DEF Types, CallTypes
  <1>4. req.ids \o output = req.ids
    BY <1>2, <1>3, ConcatEmptySeq
  <1> QED BY <1>1, <1>2, <1>4

LEMMA FeedTranscript ==
    ASSUME Types, TranscriptInv, NEW w, Feed(w)
    PROVE  TranscriptInv'
  <1> DEFINE before == Spoken(turns, Len(turns) - 1)
  <1>1. /\ pc \in {"feed", "refeed"} /\ pc' = "top" /\ token_history' = Append(token_history, next_token)
        /\ UNCHANGED <<req, output, turns, damage>>
    BY DEF Feed
  <1> SUFFICES ASSUME damage = {}
               PROVE  token_history' = before \o (req.ids \o output)
    BY <1>1 DEF TranscriptInv
  <1>2. output # <<>> /\ Last(output) = next_token /\ token_history = before \o (req.ids \o Front(output))
    BY <1>1 DEF TranscriptInv
  <1>3. req.ids \in Seq(Token) /\ token_history \in Seq(Token)
    BY <1>1, RequestFacts DEF Types, CallTypes, ModelTypes
  <1>4. output \in Seq(Token)
    BY TokenFacts DEF Types, CallTypes
  <1>5. before \in Seq(Token)
    <2>1. turns \in Seq(TurnRecord) /\ Len(turns) \in 1 .. Len(turns)
      BY <1>1 DEF Types, ChatTypes
    <2> QED BY <2>1, SpokenTurn
  <1> HIDE DEF before
  <1>6. /\ Front(output) \in Seq(Token) /\ next_token \in Token /\ <<next_token>> \in Seq(Token)
        /\ Front(output) \o <<next_token>> = output
    <2>1. /\ Front(output) \in Seq(Token) /\ Last(output) \in Token
          /\ Front(output) \o <<Last(output)>> = output
      BY <1>2, <1>4, FrontLast
    <2> QED BY <1>2, <2>1
  <1> DEFINE one == <<next_token>>
  <1>7. token_history' = token_history \o one
    BY <1>1, <1>3, <1>6, AppendIsConcat
  <1>8. one \in Seq(Token) /\ Front(output) \o one = output
    BY <1>6
  <1> HIDE DEF one
  <1>9. (before \o (req.ids \o Front(output))) \o one = before \o (req.ids \o (Front(output) \o one))
    <2> DEFINE ids == req.ids
               fed == Front(output)
    <2>1. before \in Seq(Token) /\ ids \in Seq(Token) /\ fed \in Seq(Token) /\ one \in Seq(Token)
      BY <1>3, <1>5, <1>6, <1>8
    <2> HIDE DEF ids, fed
    <2>2. (before \o (ids \o fed)) \o one = before \o (ids \o (fed \o one))
      BY <2>1, SMTT(40)
    <2> QED BY <2>2 DEF ids, fed
  <1> QED BY <1>2, <1>7, <1>8, <1>9

LEMMA EmitTranscript ==
    ASSUME Types, TranscriptInv, NEW refuse \in BOOLEAN, Emit(refuse)
    PROVE  TranscriptInv'
  <1>1. /\ pc = "top" /\ output' = Append(output, next_token) /\ user_stopped' = refuse
        /\ pc' = (IF refuse THEN "done" ELSE "feed")
        /\ UNCHANGED <<token_history, req, next_token, turns, damage>>
    BY Zenon DEF Emit, OutputWith
  <1>2. next_token \in Token /\ output \in Seq(Token)
    BY <1>1, TokenFacts DEF Types, CallTypes, Sampled
  <1>3. Front(output') = output /\ Last(output') = next_token /\ output' # <<>>
    BY <1>1, <1>2, FrontAppend, AppendProperties
  <1>4. damage = {} => token_history = Spoken(turns, Len(turns) - 1) \o (req.ids \o output)
    BY <1>1 DEF TranscriptInv
  <1>5. CASE refuse = TRUE
    <2>1. pc' = "done" /\ StopReason' = "user"
      BY <1>1, <1>5, Zenon DEF StopReason
    <2>2. Fed' = output
      BY <1>3, <2>1 DEF Fed
    <2> QED BY <1>1, <1>3, <1>4, <2>1, <2>2 DEF TranscriptInv
  <1>6. CASE refuse = FALSE
    <2>1. pc' = "feed"
      BY <1>1, <1>6, Zenon
    <2> QED BY <1>1, <1>3, <1>4, <2>1 DEF TranscriptInv
  <1> QED BY <1>5, <1>6

LEMMA LoopEndsTranscript ==
    ASSUME Types, TranscriptInv, LoopEnds
    PROVE  TranscriptInv'
  <1>1. /\ pc = "top" /\ pc' = "done"
        /\ UNCHANGED <<token_history, req, output, user_stopped, turns, damage>>
    BY DEF LoopEnds, call
  <1>2. user_stopped' = FALSE
    BY <1>1, Zenon DEF Types, CallTypes, StopTypes
  <1>3. StopReason' # "user"
    <2>1. StopReason' = IF Len(output') >= req'.max_tokens THEN "length" ELSE "eos"
      BY <1>2, Zenon DEF StopReason
    <2> QED BY <2>1
  <1>4. Fed' = output
    BY <1>1, <1>3 DEF Fed
  <1> QED BY <1>1, <1>3, <1>4 DEF TranscriptInv

\* What the three ways to return note of the turn.
LEMMA RejectedTranscript ==
    ASSUME Types, TranscriptInv, PromptRejected
    PROVE  TranscriptInv'
  <1>1. /\ pc = "fit" /\ Return("context_length") /\ "context_length" \in Reasons
        /\ UNCHANGED <<token_history, damage>>
    BY SMTT(40) DEF PromptRejected, Exceeded, Reasons
  <1> DEFINE t == turns'[Len(turns)]
  <1>2. t.reply = output /\ t.reason = "context_length"
    BY <1>1, ReturnTurns
  <1>3. damage' = {} => token_history' = Spoken(turns, Len(turns) - 1) \o Entered(t)
    <2> SUFFICES ASSUME damage' = {} PROVE token_history' = Spoken(turns, Len(turns) - 1) \o Entered(t)
      OBVIOUS
    <2>1. output = <<>> /\ token_history = Spoken(turns, Len(turns) - 1)
      BY <1>1 DEF TranscriptInv
    <2>2. Entered(t) = <<>>
      BY <1>2, <2>1 DEF Entered
    <2>3. token_history \in Seq(Token)
      BY DEF Types, ModelTypes
    <2> HIDE DEF t
    <2>4. token_history = token_history \o <<>>
      BY <2>3, ConcatEmptySeq
    <2> QED BY <1>1, <2>1, <2>2, <2>4
  <1> QED BY <1>1, <1>3, ReturnTranscript

LEMMA ExceedsTranscript ==
    ASSUME Types, TranscriptInv, FeedExceeds
    PROVE  TranscriptInv'
  <1>1. /\ pc = "feed" /\ Return("context_length") /\ "context_length" \in Reasons
        /\ UNCHANGED <<token_history, damage>>
    BY SMTT(40) DEF FeedExceeds, Exceeded, Reasons
  <1> DEFINE t == turns'[Len(turns)]
  <1>2. t.reply = output /\ t.reason = "context_length" /\ t.prompt = req.ids
    BY <1>1, ReturnTurns
  <1>3. damage' = {} => token_history' = Spoken(turns, Len(turns) - 1) \o Entered(t)
    <2> SUFFICES ASSUME damage' = {} PROVE token_history' = Spoken(turns, Len(turns) - 1) \o Entered(t)
      OBVIOUS
    <2>1. output # <<>> /\ token_history = Spoken(turns, Len(turns) - 1) \o (req.ids \o Front(output))
      BY <1>1 DEF TranscriptInv
    <2>2. Entered(t) = req.ids \o Front(output)
      BY <1>2, <2>1 DEF Entered
    <2> QED BY <1>1, <2>1, <2>2
  <1> QED BY <1>1, <1>3, ReturnTranscript

LEMMA FinishTranscript ==
    ASSUME Types, TranscriptInv, Finish
    PROVE  TranscriptInv'
  <1>1. /\ pc = "done" /\ Return(StopReason) /\ StopReason \in {"user", "length", "eos"}
        /\ UNCHANGED <<token_history, damage>>
    BY DEF Finish, StopReason
  <1>2. StopReason \in Reasons /\ StopReason # "context_length"
    BY SMTT(40), <1>1 DEF Reasons
  <1> DEFINE t == turns'[Len(turns)]
  <1>3. t.reply = output /\ t.reason = StopReason /\ t.prompt = req.ids
    BY <1>1, <1>2, ReturnTurns
  <1>4. damage' = {} => token_history' = Spoken(turns, Len(turns) - 1) \o Entered(t)
    <2> SUFFICES ASSUME damage' = {} PROVE token_history' = Spoken(turns, Len(turns) - 1) \o Entered(t)
      OBVIOUS
    <2>1. token_history = Spoken(turns, Len(turns) - 1) \o (req.ids \o Fed)
      BY <1>1 DEF TranscriptInv
    <2>2. Entered(t) = req.ids \o Fed
      BY <1>2, <1>3 DEF Entered, Fed
    <2> QED BY <1>1, <2>1, <2>2
  <1> QED BY <1>1, <1>2, <1>4, ReturnTranscript

\* A step after which something has gone wrong.
LEMMA DamagedTranscript ==
    ASSUME damage' # {}
    PROVE  TranscriptInv'
  BY DEF TranscriptInv

LEMMA SameTranscript ==
    ASSUME TranscriptInv, UNCHANGED <<pc, token_history, turns, damage>>,
           UNCHANGED call \/ pc = "idle"
    PROVE  TranscriptInv'
  <1>1. CASE pc = "idle"
    BY <1>1 DEF TranscriptInv
  <1>2. CASE UNCHANGED call
    <2>1. UNCHANGED <<req, next_token, output>> /\ user_stopped' = user_stopped
      BY <1>2 DEF call
    <2>2. StopReason' = StopReason
      BY <2>1, Zenon DEF StopReason
    <2>3. Fed' = Fed
      BY <2>1, <2>2 DEF Fed
    <2> QED BY <2>1, <2>2, <2>3 DEF TranscriptInv
  <1> QED BY <1>1, <1>2

LEMMA NextTranscript ==
    ASSUME Types, TranscriptInv, [Next]_vars
    PROVE  TranscriptInv'
  <1>1. ASSUME NEW b \in Bundles, NEW outcome \in Outcomes, Create(b, outcome) PROVE TranscriptInv'
    <2>1. pc' = "idle" /\ token_history' = <<>> /\ turns' = <<>>
      BY <1>1 DEF Create
    <2> QED BY <2>1, ClearTranscript
  <1>2. ASSUME NEW msg \in Messages, NEW tokenized \in BOOLEAN, NEW cfg \in SamplerCfgs,
               NEW max \in MaxTokens, NEW sliding \in Sliding,
               Generate(msg, tokenized, cfg, max, sliding)
        PROVE  TranscriptInv'
    BY <1>2, GenerateTranscript
  <1>3. CASE Error
    <2>1. CASE ClearModel
      BY <1>3, <2>1, ClearTranscript DEF Error, ClearModel
    <2>2. CASE UNCHANGED <<token_history, sampler, turns, heard, damage>>
      BY <1>3, <2>2, SameTranscript DEF Error
    <2> QED BY <1>3, <2>1, <2>2 DEF Error
  <1>4. CASE Turn
    <2>1. ASSUME NEW n_fit, NEW next, Evict(n_fit, next) PROVE TranscriptInv'
      <3>1. damage' # {}
        BY <2>1 DEF Evict
      <3> QED BY <3>1, DamagedTranscript
    <2>2. ASSUME Throw PROVE TranscriptInv'
      <3>1. damage' # {}
        BY <2>2 DEF Throw
      <3> QED BY <3>1, DamagedTranscript
    <2> QED BY <1>4, <2>1, <2>2, PrefillTranscript, FeedTranscript, EmitTranscript, LoopEndsTranscript,
               RejectedTranscript, ExceedsTranscript, FinishTranscript, Zenon
            DEF Turn, PrefillFails, FeedFails
  <1>5. CASE Reset
    BY <1>5, ClearTranscript DEF Reset, ClearModel
  <1>6. CASE SaveKVCache
    BY <1>6, SameTranscript DEF SaveKVCache, history
  <1>7. CASE LoadKVCache
    <2>1. damage' # {}
      BY <1>7 DEF LoadKVCache
    <2> QED BY <2>1, DamagedTranscript
  <1>8. CASE UNCHANGED vars
    BY <1>8, SameTranscript DEF vars, history
  <1> QED BY <1>1, <1>2, <1>3, <1>4, <1>5, <1>6, <1>7, <1>8 DEF Next

\* Between the calls of a conversation in which nothing was evicted, loaded or thrown, the
\* context is what was submitted and streamed: no token is fed twice, and none that was
\* refused or for which there was no room.
THEOREM ContextIsTheTranscript == Spec => []ContextIsTranscript
  <1> DEFINE Inv == Types /\ TranscriptInv
  <1>1. Init => Inv
    <2>1. Init => TranscriptInv
      BY SpokenNothing DEF Init, TranscriptInv
    <2> QED BY <2>1, InitTypes
  <1>2. Inv /\ [Next]_vars => Inv'
    BY NextTranscript, NextTypes
  <1>3. Inv => ContextIsTranscript
    <2> SUFFICES ASSUME Inv, pc = "idle", damage = {}
                 PROVE  token_history = FlattenSeq([i \in DOMAIN turns |-> Entered(turns[i])])
      BY DEF ContextIsTranscript
    <2>1. token_history = Spoken(turns, Len(turns))
      BY DEF TranscriptInv
    <2>2. DOMAIN turns = 1 .. Len(turns)
      BY DEF Types, ChatTypes
    <2> QED BY <2>1, <2>2 DEF Spoken
  <1> QED BY <1>1, <1>2, <1>3, PTL DEF Spec
-----------------------------------------------------------------------------
(* What a sampler has heard.                                               *)

\* What a sampler has heard of the active call and is not yet in the context.
Pending ==
    IF pc = "fit" THEN req.ids ELSE IF pc \in {"top", "feed"} THEN <<next_token>> ELSE <<>>

\* The part of the context a sampler has been there for.
Since(s) == SubSeq(token_history, s.since + 1, n_past)

HeardInv ==
    sampler # None =>
        /\ \E h \in Seq(Token) : heard = h \o sampler.seen
        /\ Undamaged => sampler.since <= n_past /\ Embeds(Since(sampler) \o Pending, sampler.seen)

\* What is not in the context any more is evicted.
RefillInv == pc \in {"refill", "refeed"} => ~Undamaged

\* A part of what is waited for can be left out.
LEMMA EmbedsCut ==
    ASSUME NEW s \in Seq(Token), NEW t \in Seq(Token), NEW k \in 0 .. Len(s), Embeds(s, t)
    PROVE  Embeds(SubSeq(s, 1, k), t)
  <1> DEFINE a == SubSeq(s, 1, k)
             b == SubSeq(s, k + 1, Len(s))
  <1>1. a \o b = s
    <2>1. 1 \in 1 .. Len(s) + 1 /\ k \in 1 - 1 .. Len(s) /\ Len(s) \in k .. Len(s)
      OBVIOUS
    <2>2. SubSeq(s, 1, k) \o SubSeq(s, k + 1, Len(s)) = SubSeq(s, 1, Len(s))
      BY <2>1, ConcatAdjacentSubSeq
    <2>3. SubSeq(s, 1, Len(s)) = s
      BY SubSeqFull
    <2> QED BY <2>2, <2>3
  <1>2. a \in Seq(Token) /\ b \in Seq(Token)
    OBVIOUS
  <1> HIDE DEF a, b
  <1>3. Embeds(a, t)
    BY <1>1, <1>2, EmbedsPrefix
  <1> QED BY <1>3, ZenonT(40) DEF a

LEMMA SamplerFacts ==
    ASSUME Types, sampler # None, sampler.since <= n_past
    PROVE  /\ sampler \in Sampler /\ sampler.seen \in Seq(Token) /\ sampler.since \in 0 .. n_past
           /\ token_history \in Seq(Token) /\ n_past \in Nat /\ Since(sampler) \in Seq(Token)
           /\ Len(Since(sampler)) = n_past - sampler.since
           /\ Undamaged /\ HeardInv => Embeds(Since(sampler) \o Pending, sampler.seen)
           /\ Pending \in Seq(Token)
  <1>1. sampler \in Sampler /\ token_history \in Seq(Token) /\ n_past \in Nat
    BY DEF Types, ModelTypes, n_past
  <1>2. sampler.seen \in Seq(Token) /\ sampler.since \in 0 .. n_past
    BY <1>1 DEF Sampler
  <1>3. Since(sampler) \in Seq(Token) /\ Len(Since(sampler)) = n_past - sampler.since
    <2> DEFINE m == sampler.since + 1
    <2>1. m \in Nat \ {0} /\ m <= n_past + 1 /\ n_past - m + 1 = n_past - sampler.since
      BY <1>1, <1>2
    <2> HIDE DEF m
    <2>2. SubSeq(token_history, m, n_past) \in Seq(Token)
          /\ Len(SubSeq(token_history, m, n_past)) = IF m <= n_past THEN n_past - m + 1 ELSE 0
      BY <1>1, <2>1, Slice DEF n_past
    <2>3. Len(SubSeq(token_history, m, n_past)) = n_past - m + 1
      BY <1>1, <2>1, <2>2
    <2> QED BY <2>1, <2>2, <2>3 DEF Since, m
  <1>4. Pending \in Seq(Token)
    <2>1. pc = "fit" => req.ids \in Seq(Token)
      BY RequestFacts DEF Types, CallTypes
    <2>2. pc \in {"top", "feed"} => next_token \in Token
      BY TokenFacts DEF Types, CallTypes, Sampled
    <2>3. pc \in {"top", "feed"} => <<next_token>> \in Seq(Token)
      BY <2>2
    <2> QED BY <2>1, <2>3 DEF Pending
  <1> QED BY <1>1, <1>2, <1>3, <1>4 DEF HeardInv

\* A step at which the sampler hears nothing, and what was waited for stays or is dropped.
LEMMA QuietHeard ==
    ASSUME Types, HeardInv, UNCHANGED <<sampler, heard, token_history>>,
           Undamaged' => Undamaged, Pending' = Pending \/ Pending' = <<>>
    PROVE  HeardInv'
  <1> SUFFICES ASSUME sampler # None, Undamaged'
               PROVE  sampler.since <= n_past /\ Embeds(Since(sampler) \o Pending', sampler.seen)
    BY DEF HeardInv, Since, n_past
  <1>1. sampler.since <= n_past /\ Embeds(Since(sampler) \o Pending, sampler.seen)
    BY DEF HeardInv
  <1>2. Since(sampler) \in Seq(Token) /\ Pending \in Seq(Token) /\ sampler.seen \in Seq(Token)
    BY <1>1, SamplerFacts
  <1> HIDE DEF Since, Pending
  <1>3. Embeds(Since(sampler), sampler.seen)
    BY <1>1, <1>2, EmbedsPrefix
  <1>4. Since(sampler) \o <<>> = Since(sampler)
    BY <1>2, ConcatEmptySeq
  <1> QED BY <1>1, <1>3, <1>4

\* A step after which the context is no longer this conversation's.
LEMMA DamagedHeard ==
    ASSUME HeardInv, UNCHANGED <<sampler, heard>>, ~Undamaged'
    PROVE  HeardInv'
  BY DEF HeardInv

\* What was waited for enters, and what the model samples is heard.
LEMMA SampledHeard ==
    ASSUME Types, HeardInv, RefillInv, pc \in {"fit", "refill", "feed", "refeed"},
           NEW ids \in Seq(Token), pc \in {"fit", "feed"} => ids = Pending,
           token_history' = token_history \o ids, pc' = "top", damage' = damage,
           NEW w, SampleNextToken(w)
    PROVE  HeardInv'
  <1>0. w \in Token /\ <<w>> \in Seq(Token)
    <2>1. w \in Token
      BY TokenFacts DEF SampleNextToken
    <2> QED BY <2>1
  <1>1. next_token' = w /\ heard' = Append(heard, w) /\ Pending' = <<w>>
    BY DEF SampleNextToken, Pending
  <1> SUFFICES ASSUME sampler' # None
               PROVE  /\ \E h \in Seq(Token) : heard' = h \o sampler'.seen
                      /\ Undamaged' => /\ sampler'.since <= n_past'
                                       /\ Embeds(Since(sampler)' \o Pending', sampler'.seen)
    BY DEF HeardInv
  <1>2. sampler # None /\ sampler' = [sampler EXCEPT !.seen = Append(@, w)]
    BY DEF SampleNextToken
  <1>3. sampler \in Sampler /\ heard \in Seq(Token)
    BY <1>2 DEF Types, ModelTypes
  <1>4. /\ sampler.seen \in Seq(Token) /\ sampler'.seen = Append(sampler.seen, w)
        /\ sampler'.since = sampler.since
    BY <1>2, <1>3 DEF Sampler
  <1> DEFINE one == <<w>>
             seen == sampler.seen
  <1>5. one \in Seq(Token) /\ seen \in Seq(Token) /\ sampler'.seen = seen \o one /\ heard' = heard \o one
    BY <1>0, <1>1, <1>3, <1>4, AppendIsConcat
  <1>6. \E h \in Seq(Token) : heard' = h \o sampler'.seen
    <2>1. PICK h \in Seq(Token) : heard = h \o seen
      BY <1>2 DEF HeardInv
    <2> HIDE DEF one, seen
    <2>2. (h \o seen) \o one = h \o (seen \o one)
      BY <1>5, SMTT(40)
    <2>3. heard' = h \o sampler'.seen
      BY <1>5, <2>1, <2>2
    <2> QED BY <2>3
  <1>7. ASSUME Undamaged'
        PROVE  sampler'.since <= n_past' /\ Embeds(Since(sampler)' \o Pending', sampler'.seen)
    <2>1. Undamaged /\ pc \in {"fit", "feed"} /\ ids = Pending
      BY <1>7 DEF Undamaged, RefillInv
    <2>2. sampler.since <= n_past /\ Embeds(Since(sampler) \o ids, seen)
      BY <1>2, <2>1 DEF HeardInv
    <2>3. /\ Since(sampler) \in Seq(Token) /\ sampler.since \in 0 .. Len(token_history)
          /\ token_history \in Seq(Token)
      BY <1>2, <2>2, SamplerFacts DEF n_past
    <2>4. Since(sampler)' = Since(sampler) \o ids
      <3> DEFINE m == sampler.since
      <3> HIDE DEF m
      <3>1. SubSeq(token_history \o ids, m + 1, Len(token_history \o ids))
              = SubSeq(token_history, m + 1, Len(token_history)) \o ids
        BY <2>3, EndOfConcat DEF m
      <3> QED BY <1>4, <3>1 DEF Since, n_past, m
    <2>5. sampler'.since <= n_past'
      BY <1>4, <2>3 DEF n_past
    <2> DEFINE a == Since(sampler) \o ids
    <2>6. a \in Seq(Token)
      BY <2>3, ConcatProperties
    <2> HIDE DEF a, one, seen
    <2>7. Embeds(a, seen)
      BY <2>2 DEF a
    <2>8. Embeds(a \o one, seen \o one)
      BY <1>5, <2>6, <2>7, EmbedsConcat
    <2>9. Pending' = one
      BY <1>1 DEF one
    <2> QED BY <1>5, <2>4, <2>5, <2>8, <2>9 DEF a
  <1> QED BY <1>6, <1>7

\* What is heard of a new prompt.
LEMMA GenerateHeard ==
    ASSUME Types, HeardInv, NEW msg \in Messages, NEW tokenized \in BOOLEAN,
           NEW cfg \in SamplerCfgs, NEW max \in MaxTokens, NEW sliding \in Sliding,
           Generate(msg, tokenized, cfg, max, sliding)
    PROVE  HeardInv'
  <1> DEFINE ids == IF tokenized THEN msg ELSE WithBos(Prompt(msg))
  <1>1. /\ pc = "idle" /\ pc' = "fit" /\ req'.ids = ids /\ sampler' = PreparedSampler(cfg, ids)
        /\ heard' = heard \o ids /\ UNCHANGED <<token_history, damage>>
    BY DEF Generate
  <1>2. ids \in Seq(Token)
    <2>1. msg \in Seq(Token) /\ msg # <<>> /\ messages \in Seq(MessageOf(Token)) /\ EndOfTurn \in Token
      BY TokenFacts DEF Types, ChatTypes
    <2>2. Prompt(msg) \in Seq(Token) /\ Prompt(msg) # <<>>
      BY <2>1, PromptType
    <2>3. WithBos(Prompt(msg)) \in Seq(Token)
      BY <2>2, WithBosType
    <2> QED BY <2>1, <2>3
  <1> HIDE DEF ids
  <1>3. Pending = <<>> /\ Pending' = ids
    BY <1>1 DEF Pending
  <1>4. token_history \in Seq(Token) /\ n_past \in Nat /\ heard \in Seq(Token)
    BY DEF Types, ModelTypes, n_past
  <1> SUFFICES ASSUME sampler' # None
               PROVE  /\ \E h \in Seq(Token) : heard' = h \o sampler'.seen
                      /\ Undamaged' => /\ sampler'.since <= n_past
                                       /\ Embeds(Since(sampler)' \o ids, sampler'.seen)
    BY <1>1, <1>3 DEF HeardInv, n_past
  <1>5. CASE CanReuse(cfg)
    <2>1. sampler # None /\ sampler' = [sampler EXCEPT !.seen = @ \o ids]
      BY <1>1, <1>5 DEF PreparedSampler, CanReuse
    <2>2. sampler \in Sampler
      BY <2>1 DEF Types, ModelTypes
    <2> DEFINE seen == sampler.seen
    <2>3. seen \in Seq(Token) /\ sampler'.seen = seen \o ids /\ sampler'.since = sampler.since
      BY <2>1, <2>2 DEF Sampler
    <2>4. Since(sampler)' = Since(sampler)
      BY <1>1, <2>3 DEF Since, n_past
    <2>5. \E h \in Seq(Token) : heard' = h \o sampler'.seen
      <3>1. PICK h \in Seq(Token) : heard = h \o seen
        BY <2>1 DEF HeardInv
      <3> HIDE DEF seen
      <3>2. (h \o seen) \o ids = h \o (seen \o ids)
        BY <1>2, <2>3, SMTT(40)
      <3>3. heard' = h \o sampler'.seen
        BY <1>1, <2>3, <3>1, <3>2
      <3> QED BY <3>3
    <2>6. ASSUME Undamaged' PROVE sampler.since <= n_past /\ Embeds(Since(sampler) \o ids, seen \o ids)
      <3>1. Undamaged
        BY <1>1, <2>6 DEF Undamaged
      <3>2. sampler.since <= n_past /\ Embeds(Since(sampler) \o <<>>, seen)
        BY <1>3, <2>1, <3>1 DEF HeardInv
      <3>3. Since(sampler) \in Seq(Token)
        BY <2>1, <3>2, SamplerFacts
      <3> DEFINE a == Since(sampler)
      <3>4. a \in Seq(Token) /\ Embeds(a, seen)
        BY <3>2, <3>3, ConcatEmptySeq
      <3> HIDE DEF a, seen
      <3>5. Embeds(a \o ids, seen \o ids)
        BY <1>2, <2>3, <3>4, EmbedsConcat
      <3> QED BY <3>2, <3>5 DEF a
    <2> QED BY <2>3, <2>4, <2>5, <2>6
  <1>6. CASE ~CanReuse(cfg)
    <2>1. sampler' = [cfg |-> cfg, seen |-> ids, since |-> n_past]
      BY <1>1, <1>6 DEF PreparedSampler
    <2>2. sampler'.seen = ids /\ sampler'.since = n_past
      BY <2>1
    <2>3. Since(sampler)' = <<>>
      <3>1. SubSeq(token_history, n_past + 1, n_past) = <<>>
        BY <1>4, SubSeqEmpty
      <3> QED BY <1>1, <2>2, <3>1 DEF Since, n_past
    <2>4. Embeds(<<>> \o ids, <<>> \o ids)
      <3> DEFINE e == <<>>
      <3>0. e \in Seq(Token) /\ e = <<>>
        OBVIOUS
      <3> HIDE DEF e
      <3>1. e \in Seq(Token) /\ Embeds(e, e)
        <4>1. Embeds(<<>>, e)
          BY <3>0, EmbedsEmpty
        <4> QED BY <3>0, <4>1
      <3>2. Embeds(e \o ids, e \o ids)
        BY <1>2, <3>1, EmbedsConcat
      <3> QED BY <3>2 DEF e
    <2>5. <<>> \o ids = ids
      BY <1>2, ConcatEmptySeq
    <2> QED BY SMTT(40), <1>1, <1>4, <2>2, <2>3, <2>4, <2>5
  <1> QED BY <1>5, <1>6

\* A graph fails with a part of the prompt in the context.
LEMMA PrefillFailsHeard ==
    ASSUME Types, HeardInv, RefillInv, PrefillFails
    PROVE  HeardInv'
  <1>1. /\ pc \in {"fit", "refill"} /\ pc' = "idle" /\ damage' = damage \cup {"exception"}
        /\ UNCHANGED <<sampler, heard>>
    BY DEF PrefillFails, Throw
  <1>2. CASE pc = "refill"
    <2>1. ~Undamaged'
      BY <1>1, <1>2 DEF RefillInv, Undamaged
    <2> QED BY <1>1, <2>1, DamagedHeard
  <1>3. CASE pc = "fit"
    <2> SUFFICES ASSUME sampler # None, Undamaged'
                 PROVE  /\ sampler.since <= n_past'
                        /\ Embeds(Since(sampler)' \o Pending', sampler.seen)
      BY <1>1 DEF HeardInv
    <2> DEFINE ids == req.ids
               m == sampler.since
               all == token_history \o ids
    <2>1. ids \in Seq(Token) /\ Pending = ids /\ Pending' = <<>>
      BY <1>1, <1>3, RequestFacts DEF Types, CallTypes, Pending
    <2>2. Undamaged
      BY <1>1 DEF Undamaged
    <2>3. m <= n_past /\ Embeds(Since(sampler) \o ids, sampler.seen)
      BY <2>1, <2>2 DEF HeardInv
    <2>4. /\ Since(sampler) \in Seq(Token) /\ m \in 0 .. n_past /\ n_past \in Nat
          /\ token_history \in Seq(Token) /\ sampler.seen \in Seq(Token)
          /\ Len(Since(sampler)) = n_past - m
      BY <2>3, SamplerFacts
    <2> HIDE DEF ids
    <2>5. PICK k \in n_past .. n_past + Len(ids) - 1 : token_history' = SubSeq(all, 1, k)
      BY <1>3 DEF PrefillFails, ids
    <2>6. /\ all \in Seq(Token) /\ Len(all) = n_past + Len(ids) /\ Len(ids) \in Nat
      BY <2>1, <2>4, ConcatProperties DEF n_past
    <2>7. k \in 0 .. Len(all) /\ m \in 0 .. k /\ k - m \in 0 .. n_past - m + Len(ids)
      BY SMTT(40), <2>4, <2>5, <2>6
    <2>8. SubSeq(all, m + 1, Len(all)) = Since(sampler) \o ids
      <3> HIDE DEF m
      <3>1. SubSeq(token_history \o ids, m + 1, Len(token_history \o ids))
              = SubSeq(token_history, m + 1, Len(token_history)) \o ids
        BY <2>1, <2>4, EndOfConcat DEF n_past
      <3> QED BY <3>1 DEF Since, n_past, m
    <2> HIDE DEF all, m
    <2>9. Len(token_history') = k
      BY <2>5, <2>6, <2>7
    <2>10. SubSeq(token_history', m + 1, k) = SubSeq(Since(sampler) \o ids, 1, k - m)
      <3>1. SubSeq(SubSeq(all, 1, k), m + 1, k) = SubSeq(SubSeq(all, m + 1, Len(all)), 1, k - m)
        BY <2>6, <2>7, EndOfCut
      <3> QED BY <2>5, <2>8, <3>1
    <2> DEFINE a == Since(sampler) \o ids
               d == k - m
    <2>11. a \in Seq(Token) /\ Len(a) = n_past - m + Len(ids)
      BY <2>1, <2>4, ConcatProperties
    <2> HIDE DEF a
    <2>12. d \in 0 .. Len(a) /\ Embeds(a, sampler.seen)
      BY <2>3, <2>7, <2>11 DEF a
    <2> HIDE DEF d
    <2>13. Embeds(SubSeq(a, 1, d), sampler.seen) /\ SubSeq(a, 1, d) \in Seq(Token)
      <3>1. SubSeq(a, 1, d) \in Seq(Token)
        BY <2>11, <2>12
      <3> QED BY <2>4, <2>11, <2>12, <3>1, EmbedsCut
    <2>14. Since(sampler)' = SubSeq(a, 1, d)
      BY <1>1, <2>9, <2>10 DEF Since, n_past, a, d, m
    <2>15. SubSeq(a, 1, d) \o <<>> = SubSeq(a, 1, d)
      BY <2>13, ConcatEmptySeq
    <2>16. m <= k
      BY <2>7
    <2> QED BY <1>1, <2>1, <2>9, <2>13, <2>14, <2>15, <2>16 DEF n_past, m
  <1> QED BY <1>1, <1>2, <1>3

LEMMA FeedFailsHeard ==
    ASSUME Types, HeardInv, RefillInv, FeedFails
    PROVE  HeardInv'
  <1>1. /\ pc \in {"feed", "refeed"} /\ pc' = "idle" /\ damage' = damage \cup {"exception"}
        /\ UNCHANGED <<sampler, heard>>
    BY DEF FeedFails, Throw
  <1>2. CASE pc = "refeed"
    <2>1. ~Undamaged'
      BY <1>1, <1>2 DEF RefillInv, Undamaged
    <2> QED BY <1>1, <2>1, DamagedHeard
  <1>3. CASE pc = "feed"
    <2>1. PICK k \in n_past .. n_past : token_history' = SubSeq(token_history, 1, k)
      BY <1>3 DEF FeedFails
    <2>2. token_history \in Seq(Token) /\ n_past \in Nat
      BY DEF Types, ModelTypes, n_past
    <2>3. k = Len(token_history)
      BY <2>1, <2>2 DEF n_past
    <2>4. token_history' = token_history
      BY <2>1, <2>2, <2>3, SubSeqFull
    <2>5. Pending' = <<>> /\ (Undamaged' => Undamaged)
      BY <1>1 DEF Pending, Undamaged
    <2> QED BY <1>1, <2>4, <2>5, QuietHeard
  <1> QED BY <1>1, <1>2, <1>3

LEMMA TurnHeard ==
    ASSUME Types, HeardInv, RefillInv, Turn
    PROVE  HeardInv'
  <1>1. ASSUME NEW n_fit, NEW next, Evict(n_fit, next) PROVE HeardInv'
    <2>1. UNCHANGED <<sampler, heard>> /\ ~Undamaged'
      BY <1>1 DEF Evict, Undamaged
    <2> QED BY <2>1, DamagedHeard
  <1>2. ASSUME NEW w \in Words \cup Eos, Prefill(w) PROVE HeardInv'
    <2> DEFINE ids == req.ids
    <2>1. /\ pc \in {"fit", "refill"} /\ token_history' = token_history \o ids /\ pc' = "top"
          /\ damage' = damage /\ SampleNextToken(w)
      BY <1>2 DEF Prefill
    <2>2. ids \in Seq(Token)
      BY <2>1, RequestFacts DEF Types, CallTypes
    <2>3. pc \in {"fit", "feed"} => ids = Pending
      BY <2>1 DEF Pending
    <2> HIDE DEF ids
    <2> QED BY <2>1, <2>2, <2>3, SampledHeard
  <1>3. ASSUME NEW w \in Words \cup Eos, Feed(w) PROVE HeardInv'
    <2> DEFINE one == <<next_token>>
    <2>1. /\ pc \in {"feed", "refeed"} /\ token_history' = Append(token_history, next_token) /\ pc' = "top"
          /\ damage' = damage /\ SampleNextToken(w)
      BY <1>3 DEF Feed
    <2>2. next_token \in Token /\ token_history \in Seq(Token)
      BY <2>1, TokenFacts DEF Types, CallTypes, Sampled, ModelTypes
    <2>3. one \in Seq(Token) /\ token_history' = token_history \o one
      BY <2>1, <2>2, AppendIsConcat
    <2>4. pc \in {"fit", "feed"} => one = Pending
      BY <2>1 DEF Pending
    <2> HIDE DEF one
    <2> QED BY <2>1, <2>3, <2>4, SampledHeard
  <1>4. CASE PromptRejected \/ FeedExceeds \/ Finish
    <2>1. UNCHANGED <<sampler, heard, token_history, damage>> /\ pc' = "idle"
      BY <1>4 DEF PromptRejected, FeedExceeds, Finish, Exceeded, Return
    <2>2. (Undamaged' => Undamaged) /\ Pending' = <<>>
      BY <2>1 DEF Undamaged, Pending
    <2> QED BY <2>1, <2>2, QuietHeard
  <1>5. ASSUME NEW refuse \in BOOLEAN, Emit(refuse) PROVE HeardInv'
    <2>1. /\ UNCHANGED <<sampler, heard, token_history, damage, next_token>>
          /\ pc = "top" /\ pc' \in {"done", "feed"}
      BY <1>5, Zenon DEF Emit
    <2>2. (Undamaged' => Undamaged) /\ (Pending' = Pending \/ Pending' = <<>>)
      BY <2>1 DEF Undamaged, Pending
    <2> QED BY <2>1, <2>2, QuietHeard
  <1>6. CASE LoopEnds
    <2>1. UNCHANGED <<sampler, heard, token_history, damage>> /\ pc' = "done"
      BY <1>6 DEF LoopEnds
    <2>2. (Undamaged' => Undamaged) /\ Pending' = <<>>
      BY <2>1 DEF Undamaged, Pending
    <2> QED BY <2>1, <2>2, QuietHeard
  <1> QED BY <1>1, <1>2, <1>3, <1>4, <1>5, <1>6, PrefillFailsHeard, FeedFailsHeard, Zenon DEF Turn

LEMMA NextHeard ==
    ASSUME Types, HeardInv, RefillInv, [Next]_vars
    PROVE  HeardInv'
  <1>1. ASSUME sampler' = None PROVE HeardInv'
    BY <1>1 DEF HeardInv
  <1>2. ASSUME UNCHANGED <<sampler, heard, token_history, damage, pc, req, next_token>> PROVE HeardInv'
    <2>1. (Undamaged' => Undamaged) /\ Pending' = Pending
      BY <1>2 DEF Undamaged, Pending
    <2> QED BY <1>2, <2>1, QuietHeard
  <1>3. ASSUME NEW b \in Bundles, NEW outcome \in Outcomes, Create(b, outcome) PROVE HeardInv'
    BY <1>1, <1>3 DEF Create
  <1>4. ASSUME NEW msg \in Messages, NEW tokenized \in BOOLEAN, NEW cfg \in SamplerCfgs,
               NEW max \in MaxTokens, NEW sliding \in Sliding,
               Generate(msg, tokenized, cfg, max, sliding)
        PROVE  HeardInv'
    BY <1>4, GenerateHeard
  <1>5. CASE Error
    <2>1. CASE ClearModel
      BY <1>1, <2>1 DEF ClearModel
    <2>2. CASE UNCHANGED <<token_history, sampler, turns, heard, damage>>
      BY <1>2, <1>5, <2>2 DEF Error, call
    <2> QED BY <1>5, <2>1, <2>2 DEF Error
  <1>6. CASE Turn
    BY <1>6, TurnHeard
  <1>7. CASE Reset
    BY <1>1, <1>7 DEF Reset, ClearModel
  <1>8. CASE SaveKVCache
    BY <1>2, <1>8 DEF SaveKVCache, call, history
  <1>9. CASE LoadKVCache
    <2>1. UNCHANGED <<sampler, heard>> /\ ~Undamaged'
      BY <1>9 DEF LoadKVCache, Undamaged
    <2> QED BY <2>1, DamagedHeard
  <1>10. CASE UNCHANGED vars
    BY <1>2, <1>10 DEF vars, call, history
  <1> QED BY <1>3, <1>4, <1>5, <1>6, <1>7, <1>8, <1>9, <1>10 DEF Next

LEMMA NextRefill ==
    ASSUME RefillInv, [Next]_vars
    PROVE  RefillInv'
  <1>1. ASSUME pc' \notin {"refill", "refeed"} PROVE RefillInv'
    BY <1>1 DEF RefillInv
  <1>2. CASE Turn
    <2>1. ASSUME NEW n_fit, NEW next, Evict(n_fit, next) PROVE RefillInv'
      BY <2>1 DEF Evict, RefillInv, Undamaged
    <2>2. ASSUME NEW refuse \in BOOLEAN, Emit(refuse) PROVE RefillInv'
      <3>1. pc' \in {"done", "feed"}
        BY <2>2, Zenon DEF Emit
      <3> QED BY <1>1, <3>1
    <2> QED BY <1>1, <1>2, <2>1, <2>2
            DEF Turn, Prefill, Feed, PrefillFails, FeedFails, Throw, PromptRejected, FeedExceeds,
                Exceeded, Return, LoopEnds, Finish
  <1>3. CASE Error \/ Reset \/ SaveKVCache \/ LoadKVCache
    BY <1>1, <1>3 DEF Error, Reset, SaveKVCache, LoadKVCache
  <1>4. ASSUME NEW b \in Bundles, NEW outcome \in Outcomes, Create(b, outcome) PROVE RefillInv'
    BY <1>1, <1>4 DEF Create
  <1>5. ASSUME NEW msg \in Messages, NEW tokenized \in BOOLEAN, NEW cfg \in SamplerCfgs,
               NEW max \in MaxTokens, NEW sliding \in Sliding,
               Generate(msg, tokenized, cfg, max, sliding)
        PROVE  RefillInv'
    BY <1>1, <1>5 DEF Generate
  <1>6. CASE UNCHANGED vars
    BY <1>6 DEF vars, history, RefillInv, Undamaged
  <1> QED BY <1>2, <1>3, <1>4, <1>5, <1>6 DEF Next

\* A sampler has heard nothing from before the last reset and nothing out of order, and
\* every token that entered the context since it was made.
THEOREM SamplerHearsTheConversation == Spec => []SamplerHearsConversation
  <1> DEFINE Inv == Types /\ HeardInv /\ RefillInv
  <1>1. Init => Inv
    <2>1. Init => HeardInv /\ RefillInv
      BY DEF Init, HeardInv, RefillInv
    <2> QED BY <2>1, InitTypes
  <1>2. Inv /\ [Next]_vars => Inv'
    BY NextHeard, NextRefill, NextTypes
  <1>3. Inv => SamplerHearsConversation
    <2> SUFFICES ASSUME Inv, sampler # None
                 PROVE  /\ IsSuffix(sampler.seen, heard)
                        /\ Undamaged => IsSubsequence(Since(sampler), sampler.seen)
      BY DEF SamplerHearsConversation, Undamaged, Since
    <2>1. sampler.seen \in Seq(Token)
      BY DEF Types, ModelTypes, Sampler
    <2>2. IsSuffix(sampler.seen, heard)
      <3> DEFINE seen == sampler.seen
      <3>1. PICK h \in Seq(Token) : heard = h \o seen
        BY DEF HeardInv
      <3> HIDE DEF seen
      <3>2. IsSuffix(seen, h \o seen)
        BY <2>1, SuffixOfConcat DEF seen
      <3> QED BY <3>1, <3>2 DEF seen
    <2>3. ASSUME Undamaged PROVE IsSubsequence(Since(sampler), sampler.seen)
      <3> DEFINE a == Since(sampler)
                 seen == sampler.seen
      <3>1. sampler.since <= n_past /\ Embeds(a \o Pending, seen)
        BY <2>3 DEF HeardInv
      <3>2. a \in Seq(Token) /\ Pending \in Seq(Token) /\ seen \in Seq(Token)
        BY <3>1, SamplerFacts
      <3> HIDE DEF a, seen, Pending
      <3>3. Embeds(a, seen)
        BY <3>1, <3>2, EmbedsPrefix
      <3>4. IsSubsequence(a, seen)
        BY <3>2, <3>3, EmbedsSubsequence
      <3> QED BY <3>4 DEF a, seen
    <2> QED BY <2>2, <2>3
  <1> QED BY <1>1, <1>2, <1>3, PTL DEF Spec
=============================================================================
