----------------------------- MODULE CBLLMModel -----------------------------
(***************************************************************************)
(* Continuous batching (examples/continuous_batching/common/cb): one       *)
(* prefill graph serves many sessions at once.  Each step of generateBatch *)
(* packs the next tokens of several sessions into one input (Scheduler),   *)
(* makes room behind each session's slice of the one KV cache              *)
(* (KVCacheManager), runs the shards under a block-diagonal mask, appends  *)
(* the new KV entries, samples a token per session, and closes the holes   *)
(* that finished sessions leave.                                           *)
(*                                                                         *)
(* As in LLMModel, the result computed for a token is the context it was   *)
(* computed from, Junk if what the mask let it see was not one session's   *)
(* own context, and the token sampled from it is arbitrary.                *)
(***************************************************************************)
EXTENDS KVBuffer, KVCacheManager

CONSTANTS
    Token, Eos,
    ContextLengths,   \* spec_.context_lengths, ascending
    SeqLen,           \* spec_.seq_len_prefill, the input rows of a step
    NumShards, KVShards,
    Rows,             \* rows of a KV tensor
    Queries,          \* prompts: the k-th session of a scheduler takes Queries[k]
    MaxTokens,        \* values of max_tokens
    Faults,           \* what may fail: "execute", "callback"
    Zero, Junk, Pad

NumCL == Len(ContextLengths)
KVLen(cl) == ContextLengths[cl] - SeqLen
Addr == 0 .. Rows * KVLen(NumCL) - 1
Row == 0 .. Rows - 1
SessionId == DOMAIN Queries

ASSUME CBAssumption ==
    /\ Eos \subseteq Token /\ Pad \notin Token /\ Junk \notin Seq(Token)
    /\ ContextLengths \in Seq(Nat) /\ ContextLengths # <<>>
    /\ \A c \in 1 .. Len(ContextLengths) - 1 : ContextLengths[c] < ContextLengths[c + 1]
    /\ SeqLen \in Nat \ {0} /\ SeqLen < ContextLengths[1]
    /\ NumShards \in Nat \ {0} /\ KVShards \subseteq 1 .. NumShards
    /\ Rows \in Nat \ {0}
    /\ Queries \in Seq(Seq(Token) \ {<<>>})
    /\ MaxTokens \subseteq Nat /\ Faults \subseteq {"execute", "callback"}

VARIABLES
    sessions,    \* Scheduler: sequence of sessions in insertion order
    segments,    \* KVCacheManager: sequence of segments
    active_cl, kv,
    moves,       \* the moves KVCacheManager asked for and still to be made
    pc,
    batch,       \* the sessions of this step (their ids), in order
    lens,        \* lens[id]: how many tokens session id contributes
    in_start,    \* in_start[id]: the input row of its first token
    kv_segs,     \* kv_segs[id]: its segment when the inputs were built
    act,         \* act[row]: the hidden state of an input row, as its context
    shard, next, \* loop variables: the shard to run, the session to sample
    overflow     \* a step needed more than the largest cache (history variable)

step == <<batch, lens, in_start, kv_segs, act, shard, next>>
vars == <<sessions, segments, active_cl, kv, moves, pc, batch, lens, in_start, kv_segs, act,
          shard, next, overflow>>

NoStep ==
    /\ batch' = <<>> /\ lens' = <<>> /\ in_start' = <<>> /\ kv_segs' = <<>> /\ act' = <<>>
    /\ shard' = 1 /\ next' = 1

Init ==
    /\ sessions = <<>> /\ segments = <<>>
    /\ active_cl = 1 /\ kv = [s \in KVShards |-> [a \in Addr |-> Zero]]
    /\ moves = <<>>
    /\ pc = "idle"
    /\ batch = <<>> /\ lens = <<>> /\ in_start = <<>> /\ kv_segs = <<>> /\ act = <<>>
    /\ shard = 1 /\ next = 1
    /\ overflow = FALSE
-----------------------------------------------------------------------------
(* The caller.                                                             *)

AddSession(max_tokens) ==
    /\ pc = "idle" /\ Len(sessions) < Len(Queries)
    /\ LET id == Len(sessions) + 1
       IN  sessions' = Append(sessions,
             [id |-> id, query |-> Queries[id], processed |-> 0, status |-> "waiting",
              generated |-> <<>>, max_tokens |-> max_tokens, pending |-> Pad])
    /\ UNCHANGED <<segments, active_cl, kv, moves, pc, step, overflow>>

GenerateBatch ==
    /\ pc = "idle" /\ sessions # <<>>
    /\ pc' = "pick"
    /\ UNCHANGED <<sessions, segments, active_cl, kv, moves, step, overflow>>

\* A new Scheduler and KVCacheManager: alone, as generate() does, or after
\* resetKVCache(), as the demos do between rounds and after an exception.  Without
\* the reset the old entries stay behind; no session may read them, so they count
\* as Junk.
NewScheduler(reset) ==
    /\ pc \in {"idle", "thrown"} /\ sessions # <<>>
    /\ pc' = "idle"
    /\ sessions' = <<>> /\ segments' = <<>> /\ overflow' = FALSE
    /\ active_cl' = IF reset THEN 1 ELSE active_cl
    /\ kv' = [s \in KVShards |-> [a \in Addr |-> IF reset THEN Zero ELSE Junk]]
    /\ UNCHANGED <<moves, step>>

-----------------------------------------------------------------------------
(* One step of generateBatch.                                              *)

Active == {i \in DOMAIN sessions : sessions[i].status # "completed"}
Prefilling(s) == s.processed < Len(s.query)

\* How many tokens a session would like to contribute, and those before it together.
Want(s) == IF Prefilling(s) THEN Len(s.query) - s.processed ELSE 1
Before(i) == SumUpTo([j \in Active |-> Want(sessions[j])], i - 1)

\* Mutant: a chunk is capped by all the input rows, not by those that are left.
NextBatchOwnBudget ==
    [i \in {j \in Active : Before(j) < SeqLen} |-> Min2(Want(sessions[i]), SeqLen)]

\* Mutant: a prompt is admitted only as a whole.
NextBatchWhole ==
    [i \in {j \in Active : Before(j) + Want(sessions[j]) <= SeqLen} |-> Want(sessions[i])]

\* getNextBatch() and the chunk lengths: in insertion order, each active session
\* gets what it wants until the input rows run out, the last one what is left.
NextBatch ==
    [i \in {j \in Active : Before(j) < SeqLen} |-> Min2(Want(sessions[i]), SeqLen - Before(i))]

\* No session is active, or none fits: generateBatch returns.
Return ==
    /\ pc = "pick" /\ moves = <<>>
    /\ DOMAIN NextBatch = {}
    /\ pc' = "idle"
    /\ UNCHANGED <<sessions, segments, active_cl, kv, moves, step, overflow>>

Pick ==
    /\ pc = "pick" /\ moves = <<>>
    /\ DOMAIN NextBatch # {}
    /\ lens' = NextBatch
    /\ batch' = Those([i \in DOMAIN sessions |-> i], DOMAIN NextBatch)
    /\ in_start' = [i \in DOMAIN NextBatch |-> SumUpTo(NextBatch, i - 1)]
    /\ sessions' = [i \in DOMAIN sessions |->
                      IF i \in DOMAIN NextBatch
                        THEN [sessions[i] EXCEPT !.status = "running"] ELSE sessions[i]]
    /\ pc' = "prepare"
    /\ UNCHANGED <<segments, active_cl, kv, moves, kv_segs, act, shard, next, overflow>>

\* The tokens session s contributes.
Fed(s) == IF Prefilling(s) THEN SubSeq(s.query, s.processed + 1, s.processed + lens[s.id])
          ELSE <<s.pending>>

InputRow == 0 .. SeqLen - 1

\* The session an input row belongs to, if any.
Owner(row) == {id \in DOMAIN lens : in_start[id] <= row /\ row < in_start[id] + lens[id]}

\* What session s has processed so far.
History(s) == SubSeq(s.query \o s.generated, 1, s.processed)

\* moveKVBuffer for the next move, in every shard: tokens src .. src + len - 1 of
\* each row go to dst, read as a whole before they are written.
MoveKVBuffer ==
    /\ moves # <<>>
    /\ LET m == Head(moves)
           kv_len == KVLen(active_cl)
           moved(a) == a \div kv_len < Rows /\ a % kv_len \in m.dst .. m.dst + m.len - 1
       IN  kv' = [s \in KVShards |-> [a \in Addr |->
                    IF moved(a) THEN kv[s][a + m.src - m.dst] ELSE kv[s][a]]]
    /\ moves' = Tail(moves)
    /\ UNCHANGED <<sessions, segments, active_cl, pc, step, overflow>>

\* selectCL(): the cache after it has settled on variant cl.
SelectedKV(cl, n_valid) ==
    IF cl = active_cl THEN kv
    ELSE [s \in KVShards |-> Restride(kv[s], Rows, KVLen(active_cl), KVLen(cl), n_valid, Zero)]

\* The variant selectCL() settles on: the first that fits, or the largest.
SelectCL(required) ==
    CHOOSE c \in active_cl .. NumCL :
        /\ c = NumCL \/ KVLen(c) >= required
        /\ \A d \in active_cl .. c - 1 : KVLen(d) < required

\* Allocate new sessions, promote the variant, shift for growth, build the inputs.
\* When even the largest cache is too small, rows are written and read past their
\* ends: from then on the contents are not followed.
Prepare ==
    /\ pc = "prepare"
    /\ LET unseated == {k \in DOMAIN batch : ~HasSegment(segments, batch[k])}
           segs == Allocate(segments, Those(batch, unseated))
           used == TotalUsed(segs)
           growth == SumUpTo(lens, Len(sessions))
           cl == SelectCL(used + growth)
       IN  /\ active_cl' = cl
           /\ overflow' = (overflow \/ used + growth > KVLen(cl))
           /\ kv' = IF overflow' THEN [s \in KVShards |-> [a \in Addr |-> Junk]]
                    ELSE SelectedKV(cl, used)
           /\ moves' = IF overflow' THEN <<>> ELSE ShiftMoves(segs, lens)
           /\ segments' = ShiftForGrowth(segs, lens)
           /\ kv_segs' = [id \in DOMAIN lens |-> GetSegment(segments', id)]
    /\ act' = [row \in InputRow |->
                 IF Owner(row) = {} THEN Pad
                 ELSE LET id == CHOOSE id \in Owner(row) : TRUE
                      IN  History(sessions[id]) \o
                            SubSeq(Fed(sessions[id]), 1, row - in_start[id] + 1)]
    /\ pc' = "shard" /\ shard' = 1
    /\ UNCHANGED <<sessions, batch, lens, in_start, next>>

Entry(r, c) == IF c = Junk THEN Junk ELSE <<r, c>>

\* What the mask shows row `row' of session id in shard s is the context that row
\* stands for: the columns it may attend to, in order, hold the entries of the
\* tokens before the step and then the hidden states of the rows before it, and the
\* row is at the position it has in its own session.
SeesOwnContext(s, id, row) ==
    LET kv_len == KVLen(active_cl)
        columns == MaskColumns(kv_segs[id], kv_len, in_start[id], row - in_start[id])
        context == act[row]
        upto(c) == SubSeq(context, 1, Cardinality({d \in columns : d <= c}))
    IN  /\ context # Junk
        /\ Cardinality(columns) = Len(context)
        /\ PositionId(kv_segs[id], row - in_start[id]) = Len(context) - 1
        /\ \A c \in columns :
              IF c < kv_len THEN \A r \in Row : kv[s][r * kv_len + c] = Entry(r, upto(c))
              ELSE act[c - kv_len] = upto(c)

\* A shard runs on the packed input.
ShardOut(s) ==
    [row \in InputRow |->
        IF /\ s \in KVShards
           /\ \E id \in Owner(row) : overflow \/ ~SeesOwnContext(s, id, row)
          THEN Junk ELSE act[row]]

\* Where the new entries of session id begin.
NewSlot(id) == SegEnd(kv_segs[id])

\* copyNewKV: session after session, the new entries go behind its segment.
CopyNewKV(buf, out) ==
    LET kv_len == KVLen(active_cl)
        writers(t) == {id \in DOMAIN lens : NewSlot(id) <= t /\ t < NewSlot(id) + lens[id]}
    IN  [a \in Addr |->
           LET t == a % kv_len
               w == writers(t)
           IN  IF w = {} \/ a \div kv_len >= Rows THEN buf[a]
               ELSE Entry(a \div kv_len, out[in_start[Max(w)] + t - NewSlot(Max(w))])]

RunShard ==
    /\ pc = "shard" /\ moves = <<>>
    /\ LET out == ShardOut(shard)
       IN  /\ act' = out
           /\ kv' = IF shard \in KVShards /\ ~overflow
                      THEN [kv EXCEPT ![shard] = CopyNewKV(@, out)] ELSE kv
    /\ IF shard < NumShards THEN shard' = shard + 1 /\ UNCHANGED pc
       ELSE shard' = 1 /\ pc' = "update"
    /\ UNCHANGED <<sessions, segments, active_cl, moves, batch, lens, in_start, kv_segs, next,
                   overflow>>

\* An exception leaves generateBatch.
Throw ==
    /\ pc' = "thrown"
    /\ NoStep
    /\ UNCHANGED <<segments, active_cl, kv, moves, overflow>>

ExecuteFails ==
    /\ pc = "shard" /\ moves = <<>> /\ "execute" \in Faults
    /\ Throw
    /\ UNCHANGED sessions

\* Scheduler::updateSession and KVCacheManager::extend for the whole batch.
Update ==
    /\ pc = "update"
    /\ sessions' = [i \in DOMAIN sessions |->
                      IF i \in DOMAIN lens
                        THEN [sessions[i] EXCEPT !.processed = @ + lens[i]] ELSE sessions[i]]
    /\ segments' = Extend(segments, lens)
    /\ pc' = "sample" /\ next' = 1
    /\ UNCHANGED <<active_cl, kv, moves, batch, lens, in_start, kv_segs, act, shard, overflow>>

\* Mutant: a session that is still reading its prompt is sampled from as well.
DonePrefillAlways(s) == TRUE

DonePrefill(s) == ~Prefilling(s)

\* The token sampled for session s ends it, or is emitted.
Ends(s, tok) == tok \in Eos \/ Len(s.generated) >= s.max_tokens
Emitted(s, tok) == [s EXCEPT !.generated = Append(@, tok), !.pending = tok]

\* One session of the batch is sampled, if it has read its prompt.
Sample ==
    /\ pc = "sample" /\ next <= Len(batch)
    /\ LET s == sessions[batch[next]]
       IN  \/ /\ DonePrefill(s)
              /\ \E tok \in Token :
                    sessions' = [sessions EXCEPT ![s.id] =
                      IF Ends(s, tok) THEN [s EXCEPT !.status = "completed"] ELSE Emitted(s, tok)]
           \/ /\ ~DonePrefill(s)
              /\ UNCHANGED sessions
    /\ next' = next + 1
    /\ UNCHANGED <<segments, active_cl, kv, moves, pc, batch, lens, in_start, kv_segs, act,
                   shard, overflow>>

\* The token callback throws; the token has already been recorded.
CallbackThrows ==
    /\ pc = "sample" /\ next <= Len(batch) /\ "callback" \in Faults
    /\ LET s == sessions[batch[next]]
       IN  /\ DonePrefill(s)
           /\ \E tok \in Token : ~Ends(s, tok) /\ sessions' = [sessions EXCEPT ![s.id] = Emitted(s, tok)]
    /\ Throw

\* Completed sessions give up their segments, and the holes are closed.
ReleaseAndCompact ==
    /\ pc = "sample" /\ next > Len(batch)
    /\ LET done == {sessions[i].id : i \in DOMAIN sessions \ Active}
           segs == Release(segments, done)
       IN  /\ segments' = Compact(segs)
           /\ moves' = IF overflow THEN <<>> ELSE CompactMoves(segs)
    /\ pc' = "pick"
    /\ NoStep
    /\ UNCHANGED <<sessions, active_cl, kv, overflow>>
-----------------------------------------------------------------------------
BatchStep ==
    \/ Return \/ Pick \/ Prepare \/ MoveKVBuffer \/ RunShard \/ ExecuteFails \/ Update \/ Sample
    \/ CallbackThrows \/ ReleaseAndCompact

Next ==
    \/ \E m \in MaxTokens : AddSession(m)
    \/ GenerateBatch
    \/ \E reset \in BOOLEAN : NewScheduler(reset)
    \/ BatchStep

Spec == Init /\ [][Next]_vars

\* The calling thread keeps running inside generateBatch.
FairSpec == Spec /\ WF_vars(BatchStep)
-----------------------------------------------------------------------------
SessionType ==
    [id : SessionId, query : {Queries[i] : i \in SessionId}, processed : Nat,
     status : {"waiting", "running", "completed"}, generated : Seq(Token),
     max_tokens : MaxTokens, pending : Token \cup {Pad}]
SegmentType == [id : SessionId, start : Nat, length : Nat]

\* The state of Scheduler, KVCacheManager and generateBatch keeps its types, and a
\* step never packs more than its input rows.
TypeOK ==
    /\ sessions \in Seq(SessionType) /\ segments \in Seq(SegmentType)
    /\ active_cl \in 1 .. NumCL
    /\ kv \in [KVShards -> [Addr -> {Zero, Junk} \cup (Row \X Seq(Token))]]
    /\ pc \in {"idle", "pick", "prepare", "shard", "update", "sample", "thrown"}
    /\ batch \in Seq(SessionId) /\ DOMAIN lens \subseteq SessionId
    /\ \A id \in DOMAIN lens : lens[id] \in 1 .. SeqLen
    /\ SumUpTo(lens, Len(Queries)) <= SeqLen
    /\ shard \in 1 .. NumShards /\ next \in 1 .. Len(batch) + 1
    /\ overflow \in BOOLEAN

\* Between steps each running session's segment holds, in every row of every shard,
\* exactly the entries of its own tokens.
SegmentsMirrorSessions ==
    (pc = "pick" /\ moves = <<>> /\ ~overflow) =>
        \A i \in DOMAIN segments :
            LET seg == segments[i]
                h == History(sessions[seg.id])
            IN  /\ seg.length = Len(h)
                /\ \A s \in KVShards, r \in Row, k \in 0 .. seg.length - 1 :
                      kv[s][r * KVLen(active_cl) + seg.start + k] = Entry(r, SubSeq(h, 1, k + 1))

\* Each token is sampled from the logits of exactly its own session's context,
\* whoever shares the batch.
SampledFromOwnContext ==
    (pc = "sample" /\ ~overflow) =>
        \A k \in next .. Len(batch) :
            LET s == sessions[batch[k]]
            IN  act[in_start[s.id] + lens[s.id] - 1] = History(s)

\* A session is fed its prompt and then each of its own tokens, once and in order.
FedInOrder ==
    pc = "prepare" =>
        \A id \in DOMAIN lens :
            LET s == sessions[id]
            IN  Fed(s) = SubSeq(s.query \o s.generated, s.processed + 1, s.processed + lens[id])

\* generateBatch: "Drives all scheduled sessions until each hits EOS or max_tokens".
\* Once it runs, every session completes, unless an exception ends it.
EverySessionCompletes ==
    \A id \in SessionId :
        (pc = "pick" /\ id \in DOMAIN sessions) ~> (pc = "thrown" \/ id \notin Active)
=============================================================================
