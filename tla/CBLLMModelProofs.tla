-------------------------- MODULE CBLLMModelProofs --------------------------
(***************************************************************************)
(* Proofs about CBLLMModel and KVCacheManager: sessions are fed in order,  *)
(* their segments hold their own tokens through every shift, promotion and *)
(* compaction, and each samples from its own context, whoever shares the   *)
(* batch.                                                                  *)
(***************************************************************************)
EXTENDS CBLLMModel, SharedFacts

-----------------------------------------------------------------------------
(* The invariant.  Its parts take what they speak of as parameters: ss the *)
(* sessions, segs the segments, mv the moves still to be made.             *)

Text(s) == s.query \o s.generated
ActiveOf(ss) == {i \in DOMAIN ss : ss[i].status # "completed"}

\* A session between steps: it has read part of its prompt, or all tokens but the one
\* it sampled last.
Ready(s) ==
    IF Prefilling(s) THEN s.generated = <<>>
    ELSE s.generated # <<>> /\ s.pending = Last(s.generated) /\ s.processed + 1 = Len(Text(s))

\* A session that was in a step and is still to be sampled.
Stepped(s) == IF Prefilling(s) THEN s.generated = <<>> ELSE s.processed = Len(Text(s))

Due(b, n) == {b[k] : k \in n .. Len(b)}

Sessions(ss) ==
    /\ ss \in Seq(SessionType) /\ Len(ss) <= Len(Queries)
    /\ \A i \in DOMAIN ss : ss[i].id = i /\ ss[i].processed <= Len(Text(ss[i]))

SessionsInOrder ==
    /\ Sessions(sessions)
    /\ pc \in {"idle", "pick", "prepare", "shard", "update"} =>
         \A i \in ActiveOf(sessions) : Ready(sessions[i])
    /\ pc = "sample" =>
         /\ Due(batch, next) \subseteq ActiveOf(sessions)
         /\ \A i \in ActiveOf(sessions) : IF i \in Due(batch, next) THEN Stepped(sessions[i]) ELSE Ready(sessions[i])

\* A batch: whose turn it is, with how many tokens, at which input rows.
Batched(ss, b, ln, at) ==
    /\ DOMAIN ln \subseteq DOMAIN ss
    /\ b \in Seq(DOMAIN ln) /\ \A k, l \in DOMAIN b : b[k] = b[l] => k = l
    /\ \A id \in DOMAIN ln : \E k \in DOMAIN b : b[k] = id
    /\ \A id \in DOMAIN ln : ln[id] \in Nat \ {0} /\ at[id] \in Nat /\ at[id] + ln[id] <= SeqLen
    /\ \A i, j \in DOMAIN ln : i < j => at[i] + ln[i] <= at[j]
    /\ SumUpTo(ln, Len(Queries)) <= SeqLen

\* No session is given more than it wants.
Wanted(ss, ln) == \A id \in DOMAIN ln : id \in ActiveOf(ss) /\ ln[id] <= Want(ss[id])

BatchInOrder ==
    /\ Batched(sessions, batch, lens, in_start)
    /\ pc \in {"prepare", "shard", "update"} => Wanted(sessions, lens)
    /\ pc \in {"idle", "pick", "thrown"} => batch = <<>> /\ lens = <<>>

\* The segments of sessions, and what they reach to when grown.
Lengths(segs) == [i \in DOMAIN segs |-> segs[i].length]
Widths(segs, growth) == [i \in DOMAIN segs |-> segs[i].length + Growth(segs, growth, i)]

\* Segments one behind the other from the beginning of the cache.
Laid(segs, width) ==
    \A i \in DOMAIN segs : segs[i].start = SumUpTo(width, i - 1) /\ width[i] > 0

\* Each session that has begun has one segment, as long as what it has processed.
Seated(ss, segs) ==
    /\ \A i, j \in DOMAIN segs : segs[i].id = segs[j].id => i = j
    /\ \A i \in DOMAIN segs : segs[i].id \in DOMAIN ss /\ segs[i].length = ss[segs[i].id].processed
    /\ \A id \in ActiveOf(ss) : ss[id].processed > 0 => HasSegment(segs, id)

Growing == pc \in {"shard", "update"}
Width == IF Growing THEN Widths(segments, lens) ELSE Lengths(segments)

SegmentsInOrder ==
    /\ segments \in Seq(SegmentType)
    /\ pc # "thrown" =>
         /\ Seated(sessions, segments) /\ Laid(segments, Width)
         /\ ~overflow => SumUpTo(Width, Len(segments)) <= KVLen(active_cl)
    /\ pc \in {"idle", "pick", "prepare"} => \A i \in DOMAIN segments : segments[i].id \in ActiveOf(sessions)
    /\ Growing => \A id \in DOMAIN lens : HasSegment(segments, id) /\ kv_segs[id] = GetSegment(segments, id)

\* The moves left bring segments to their starts, and none writes where a later one reads.
MoveType == [src : Nat, dst : Nat, len : Nat \ {0}]
Brings(m, seg) == m.dst = seg.start /\ m.len = seg.length
MovesLeft(mv, segs, kv_len) ==
    /\ mv \in Seq(MoveType)
    /\ \A k \in DOMAIN mv : mv[k].src + mv[k].len <= kv_len /\ \E i \in DOMAIN segs : Brings(mv[k], segs[i])
    /\ \A k, l \in DOMAIN mv : k < l =>
          /\ mv[k].dst # mv[l].dst
          /\ mv[k].dst + mv[k].len <= mv[l].src \/ mv[l].src + mv[l].len <= mv[k].dst

MovesInOrder ==
    /\ MovesLeft(moves, segments, KVLen(active_cl))
    /\ moves # <<>> => ~overflow /\ (pc = "pick" \/ (pc = "shard" /\ shard = 1))

\* The first n tokens of a text have their entries from at on.
Holds(buf, kv_len, at, text, n) ==
    \A r \in Row, k \in 0 .. n - 1 : buf[r * kv_len + (at + k)] = <<r, SubSeq(text, 1, k + 1)>>

\* The entries of each session are where its segment is, or where they are still to be
\* moved from.
Held(c, kv_len, ss, segs, mv) ==
    \A s \in KVShards, i \in DOMAIN segs :
        LET h == ss[segs[i].id]
            here(at) == Holds(c[s], kv_len, at, Text(h), h.processed)
        IN  /\ \A k \in DOMAIN mv : mv[k].dst = segs[i].start => here(mv[k].src)
            /\ (\A k \in DOMAIN mv : mv[k].dst # segs[i].start) => here(segs[i].start)

\* The shards that have run have the entries of the step's tokens as well.
Extended(c, kv_len, ss, segs, ln, ran) ==
    \A s \in KVShards \cap ran, id \in DOMAIN ln :
        Holds(c[s], kv_len, segs[id].start, Text(ss[id]), ss[id].processed + ln[id])

\* The input rows hold the hidden states of their own contexts.
RowsOf(a, ss, ln, at) ==
    \A id \in DOMAIN ln : \A k \in 0 .. ln[id] - 1 :
        a[at[id] + k] = SubSeq(Text(ss[id]), 1, ss[id].processed + k + 1)

Ran == IF pc = "update" THEN 1 .. NumShards ELSE 1 .. shard - 1

Contents ==
    /\ ~overflow /\ pc # "thrown" => Held(kv, KVLen(active_cl), sessions, segments, moves)
    /\ ~overflow /\ Growing =>
         /\ Extended(kv, KVLen(active_cl), sessions, kv_segs, lens, Ran)
         /\ RowsOf(act, sessions, lens, in_start)
    /\ ~overflow /\ pc = "sample" =>
         \A k \in next .. Len(batch) :
            LET s == sessions[batch[k]]
            IN  act[in_start[s.id] + lens[s.id] - 1] = SubSeq(Text(s), 1, s.processed)

Loops ==
    /\ pc \in {"idle", "pick", "prepare", "shard", "update", "sample", "thrown"}
    /\ shard \in 1 .. NumShards /\ next \in 1 .. Len(batch) + 1
    /\ pc # "shard" => shard = 1

Cell == {Zero, Junk} \cup (Row \X Seq(Token))
Cells == active_cl \in 1 .. NumCL /\ kv \in [KVShards -> [Addr -> Cell]]
Flag == overflow \in BOOLEAN

OrderInv == Loops /\ SessionsInOrder /\ BatchInOrder
CBInv == OrderInv /\ Cells /\ Flag /\ SegmentsInOrder /\ MovesInOrder /\ Contents
-----------------------------------------------------------------------------
(* Sums.                                                                   *)

NatValued(f) == \A i \in DOMAIN f : f[i] \in Nat
At(f, i) == IF i \in DOMAIN f THEN f[i] ELSE 0

\* The sums of the first n places.
Sums(f, n, g) == g \in [0 .. n -> Nat] /\ g[0] = 0 /\ \A i \in 1 .. n : g[i] = g[i - 1] + At(f, i)

LEMMA SumsExist ==
    ASSUME NEW f, NatValued(f), NEW n \in Nat
    PROVE  \E g : Sums(f, n, g)
  <1> DEFINE add == [i \in Nat |-> [x \in Nat |-> x + At(f, i)]]
  <1>1. \A i \in Nat : At(f, i) \in Nat
    BY DEF At, NatValued
  <1>2. add \in Steps(Nat)
    BY <1>1 DEF Steps
  <1>3. \A i \in 1 .. n, x \in Nat : add[i][x] = x + At(f, i)
    OBVIOUS
  <1> HIDE DEF add
  <1>4. PICK g : Iterates(g, Nat, 0, add, n)
    BY <1>2, Recursion
  <1>5. ASSUME NEW i \in 1 .. n PROVE g[i] = g[i - 1] + At(f, i)
    <2>1. i - 1 \in 0 .. n
      OBVIOUS
    <2> QED BY <1>3, <1>4, <2>1 DEF Iterates
  <1> QED BY <1>4, <1>5 DEF Sums, Iterates

LEMMA SumIsLast ==
    ASSUME NEW f, NatValued(f), NEW n \in Nat, NEW g, Sums(f, n, g)
    PROVE  SumUpTo(f, n) = g[n]
  <1> DEFINE Is(h) == h = [i \in 0 .. n |-> IF i = 0 THEN 0 ELSE h[i - 1] + (IF i \in DOMAIN f THEN f[i] ELSE 0)]
             sum == CHOOSE h : Is(h)
  <1>1. g \in [0 .. n -> Nat] /\ g[0] = 0 /\ \A i \in 1 .. n : g[i] = g[i - 1] + At(f, i)
    BY DEF Sums
  <1>2. Is(g)
    <2>1. ASSUME NEW i \in 0 .. n
          PROVE  g[i] = IF i = 0 THEN 0 ELSE g[i - 1] + (IF i \in DOMAIN f THEN f[i] ELSE 0)
      <3>1. CASE i = 0
        BY <1>1, <3>1
      <3>2. CASE i # 0
        <4>1. i \in 1 .. n
          BY <3>2
        <4> QED BY <1>1, <3>2, <4>1 DEF At
      <3> QED BY <3>1, <3>2
    <2>2. g = [i \in 0 .. n |-> g[i]]
      BY <1>1
    <2> QED BY <2>1, <2>2
  <1>3. Is(sum)
    <2> HIDE DEF Is
    <2> QED BY <1>2
  <1>4. SumUpTo(f, n) = sum[n]
    BY DEF SumUpTo
  <1> HIDE DEF sum
  <1>5. sum[0] = 0 /\ \A i \in 1 .. n : sum[i] = sum[i - 1] + At(f, i)
    <2>1. \A i \in 0 .. n : sum[i] = IF i = 0 THEN 0 ELSE sum[i - 1] + (IF i \in DOMAIN f THEN f[i] ELSE 0)
      BY <1>3
    <2> HIDE DEF Is
    <2>2. \A i \in 1 .. n : i \in 0 .. n /\ i # 0
      OBVIOUS
    <2>3. 0 \in 0 .. n
      OBVIOUS
    <2> QED BY <2>1, <2>2, <2>3 DEF At
  <1> HIDE DEF Is
  <1> DEFINE S == {m \in Nat : m <= n => sum[m] = g[m]}
  <1>6. 0 \in S
    BY <1>1, <1>5
  <1>7. ASSUME NEW m \in Nat, m \in S PROVE m + 1 \in S
    <2> SUFFICES ASSUME m + 1 <= n PROVE sum[m + 1] = g[m + 1]
      OBVIOUS
    <2>1. m + 1 \in 1 .. n /\ (m + 1) - 1 = m /\ sum[m] = g[m]
      BY <1>7
    <2> QED BY <1>1, <1>5, <2>1
  <1> HIDE DEF S
  <1>8. n \in S
    BY <1>6, <1>7, Induction
  <1> QED BY <1>4, <1>8 DEF S

LEMMA SumFacts ==
    ASSUME NEW f, NatValued(f), NEW n \in Nat
    PROVE  /\ SumUpTo(f, 0) = 0 /\ SumUpTo(f, n) \in Nat /\ At(f, n + 1) \in Nat
           /\ SumUpTo(f, n + 1) = SumUpTo(f, n) + At(f, n + 1)
  <1>1. PICK g : Sums(f, n + 1, g)
    BY SumsExist
  <1> DEFINE h == [i \in 0 .. n |-> g[i]]
             z == [i \in 0 .. 0 |-> g[i]]
  <1>2. g \in [0 .. n + 1 -> Nat] /\ g[0] = 0 /\ \A i \in 1 .. n + 1 : g[i] = g[i - 1] + At(f, i)
    BY <1>1 DEF Sums
  <1>3. Sums(f, n, h)
    <2>1. h \in [0 .. n -> Nat] /\ h[0] = 0
      BY <1>2
    <2>2. ASSUME NEW i \in 1 .. n PROVE h[i] = h[i - 1] + At(f, i)
      <3>1. i \in 1 .. n + 1 /\ i - 1 \in 0 .. n /\ i \in 0 .. n
        OBVIOUS
      <3> QED BY <1>2, <3>1
    <2> QED BY <2>1, <2>2 DEF Sums
  <1>4. Sums(f, 0, z)
    BY <1>2 DEF Sums
  <1>5. SumUpTo(f, n) = g[n] /\ SumUpTo(f, 0) = 0 /\ SumUpTo(f, n + 1) = g[n + 1]
    <2>1. SumUpTo(f, n) = h[n]
      BY <1>3, SumIsLast
    <2>2. SumUpTo(f, 0) = z[0]
      BY <1>4, SumIsLast
    <2>3. SumUpTo(f, n + 1) = g[n + 1]
      BY <1>1, SumIsLast
    <2> QED BY <1>2, <2>1, <2>2, <2>3
  <1>6. n + 1 \in 1 .. n + 1 /\ (n + 1) - 1 = n /\ n \in 0 .. n + 1
    OBVIOUS
  <1>7. At(f, n + 1) \in Nat
    BY DEF At, NatValued
  <1> QED BY <1>2, <1>5, <1>6, <1>7

LEMMA SumMonotone ==
    ASSUME NEW f, NatValued(f), NEW n \in Nat, NEW m \in 0 .. n
    PROVE  SumUpTo(f, m) <= SumUpTo(f, n)
  <1> DEFINE S == {k \in Nat : m <= k => SumUpTo(f, m) <= SumUpTo(f, k)}
  <1>1. 0 \in S
    BY SumFacts
  <1>2. ASSUME NEW k \in Nat, k \in S PROVE k + 1 \in S
    <2>1. CASE m <= k
      BY <1>2, <2>1, SumFacts
    <2>2. CASE m = k + 1
      BY <2>2, SumFacts
    <2> QED BY <2>1, <2>2
  <1> HIDE DEF S
  <1>3. n \in S
    BY <1>1, <1>2, Induction
  <1> QED BY <1>3 DEF S

\* A place of the sum: what is before it, itself, and the sum of all.
LEMMA SumAround ==
    ASSUME NEW f, NatValued(f), NEW n \in Nat, NEW i \in 1 .. n
    PROVE  /\ SumUpTo(f, i - 1) \in Nat /\ At(f, i) \in Nat
           /\ SumUpTo(f, i) = SumUpTo(f, i - 1) + At(f, i)
           /\ SumUpTo(f, i) <= SumUpTo(f, n)
  <1>1. i - 1 \in Nat /\ (i - 1) + 1 = i /\ i \in 0 .. n
    OBVIOUS
  <1> QED BY <1>1, SumFacts, SumMonotone

\* Sums of equal and of added terms.
LEMMA SumAgrees ==
    ASSUME NEW f, NatValued(f), NEW g, NatValued(g), NEW n \in Nat, \A i \in 1 .. n : At(f, i) = At(g, i)
    PROVE  SumUpTo(f, n) = SumUpTo(g, n)
  <1> DEFINE S == {k \in Nat : k <= n => SumUpTo(f, k) = SumUpTo(g, k)}
  <1>1. 0 \in S
    BY SumFacts
  <1>2. ASSUME NEW k \in Nat, k \in S PROVE k + 1 \in S
    <2> SUFFICES ASSUME k + 1 <= n PROVE SumUpTo(f, k + 1) = SumUpTo(g, k + 1)
      OBVIOUS
    <2>1. k + 1 \in 1 .. n /\ SumUpTo(f, k) = SumUpTo(g, k)
      BY <1>2
    <2> QED BY <2>1, SumFacts
  <1> HIDE DEF S
  <1>3. n \in S
    BY <1>1, <1>2, Induction
  <1> QED BY <1>3 DEF S

LEMMA SumAdds ==
    ASSUME NEW f, NatValued(f), NEW g, NatValued(g), NEW h, NatValued(h), NEW n \in Nat,
           \A i \in 1 .. n : At(h, i) = At(f, i) + At(g, i)
    PROVE  SumUpTo(h, n) = SumUpTo(f, n) + SumUpTo(g, n)
  <1> DEFINE S == {k \in Nat : k <= n => SumUpTo(h, k) = SumUpTo(f, k) + SumUpTo(g, k)}
  <1>1. 0 \in S
    BY SumFacts
  <1>2. ASSUME NEW k \in Nat, k \in S PROVE k + 1 \in S
    <2> SUFFICES ASSUME k + 1 <= n PROVE SumUpTo(h, k + 1) = SumUpTo(f, k + 1) + SumUpTo(g, k + 1)
      OBVIOUS
    <2>1. k + 1 \in 1 .. n /\ SumUpTo(h, k) = SumUpTo(f, k) + SumUpTo(g, k)
      BY <1>2
    <2>2. At(h, k + 1) = At(f, k + 1) + At(g, k + 1)
      BY <2>1
    <2>3. /\ SumUpTo(f, k) \in Nat /\ At(f, k + 1) \in Nat /\ SumUpTo(f, k + 1) = SumUpTo(f, k) + At(f, k + 1)
          /\ SumUpTo(g, k) \in Nat /\ At(g, k + 1) \in Nat /\ SumUpTo(g, k + 1) = SumUpTo(g, k) + At(g, k + 1)
          /\ SumUpTo(h, k + 1) = SumUpTo(h, k) + At(h, k + 1)
      BY SumFacts
    <2> QED BY <2>1, <2>2, <2>3
  <1> HIDE DEF S
  <1>3. n \in S
    BY <1>1, <1>2, Induction
  <1> QED BY <1>3 DEF S

\* Places past the last term add nothing.
LEMMA SumPast ==
    ASSUME NEW f, NatValued(f), NEW m \in Nat, NEW n \in Nat, m <= n, \A i \in DOMAIN f : i <= m
    PROVE  SumUpTo(f, n) = SumUpTo(f, m)
  <1> DEFINE S == {k \in Nat : m <= k => SumUpTo(f, k) = SumUpTo(f, m)}
  <1>1. 0 \in S
    OBVIOUS
  <1>2. ASSUME NEW k \in Nat, k \in S PROVE k + 1 \in S
    <2>1. CASE m <= k
      <3>1. k + 1 \notin DOMAIN f
        <4> SUFFICES ASSUME k + 1 \in DOMAIN f PROVE FALSE  OBVIOUS
        <4>1. k + 1 <= m
          OBVIOUS
        <4> QED BY <2>1, <4>1
      <3>2. SumUpTo(f, k + 1) = SumUpTo(f, k) + At(f, k + 1) /\ At(f, k + 1) = 0 /\ SumUpTo(f, k) \in Nat
        BY <3>1, SumFacts DEF At
      <3> QED BY <1>2, <2>1, <3>2
    <2>2. CASE m = k + 1
      BY <2>2
    <2> QED BY <2>1, <2>2
  <1> HIDE DEF S
  <1>3. n \in S
    BY <1>1, <1>2, Induction
  <1> QED BY <1>3 DEF S

\* A sum without one of its terms.
LEMMA SumWithout ==
    ASSUME NEW n \in Nat, NEW f \in [1 .. n -> Nat], NEW j \in 1 .. n
    PROVE  SumUpTo(f, n) = SumUpTo([f EXCEPT ![j] = 0], n) + f[j]
  <1> DEFINE g == [f EXCEPT ![j] = 0]
             rest(k) == IF j <= k THEN f[j] ELSE 0
             S == {k \in Nat : k <= n => SumUpTo(f, k) = SumUpTo(g, k) + rest(k)}
  <1>1. g \in [1 .. n -> Nat] /\ NatValued(f) /\ NatValued(g)
    BY DEF NatValued
  <1>2. ASSUME NEW k \in 1 .. n PROVE At(f, k) = f[k] /\ At(g, k) = (IF k = j THEN 0 ELSE f[k]) /\ f[k] \in Nat
    BY <1>1 DEF At
  <1> HIDE DEF g
  <1>3. 0 \in S
    BY <1>1, SumFacts
  <1>4. ASSUME NEW k \in Nat, k \in S PROVE k + 1 \in S
    <2> SUFFICES ASSUME k + 1 <= n PROVE SumUpTo(f, k + 1) = SumUpTo(g, k + 1) + rest(k + 1)
      OBVIOUS
    <2>1. k + 1 \in 1 .. n /\ SumUpTo(f, k) = SumUpTo(g, k) + rest(k)
      BY <1>4
    <2>2. SumUpTo(f, k) \in Nat /\ SumUpTo(f, k + 1) = SumUpTo(f, k) + At(f, k + 1)
      BY <1>1, SumFacts
    <2>3. SumUpTo(g, k) \in Nat /\ SumUpTo(g, k + 1) = SumUpTo(g, k) + At(g, k + 1)
      BY <1>1, SumFacts
    <2>4. f[j] \in Nat
      OBVIOUS
    <2> QED BY SMTT(40), <1>2, <2>1, <2>2, <2>3, <2>4
  <1> HIDE DEF S
  <1>5. n \in S
    BY <1>3, <1>4, Induction
  <1> QED BY <1>5 DEF S, g

\* Terms that are picked once at most add up to no more than all.
LEMMA SumPicked ==
    ASSUME NEW n \in Nat, NEW m \in Nat, NEW f \in [1 .. n -> Nat], NEW ix \in [1 .. m -> 1 .. n],
           \A i, j \in 1 .. m : ix[i] = ix[j] => i = j
    PROVE  SumUpTo([i \in 1 .. m |-> f[ix[i]]], m) <= SumUpTo(f, n)
  <1> DEFINE picked(g, k) == [i \in 1 .. k |-> g[ix[i]]]
             Fits(k) == \A g \in [1 .. n -> Nat] : SumUpTo(picked(g, k), k) <= SumUpTo(g, n)
             S == {k \in Nat : k <= m => Fits(k)}
  <1>1. ASSUME NEW g \in [1 .. n -> Nat], NEW k \in 0 .. m
        PROVE  /\ NatValued(g) /\ NatValued(picked(g, k))
               /\ \A i \in 1 .. k : At(picked(g, k), i) = g[ix[i]]
    <2>1. \A i \in 1 .. k : ix[i] \in 1 .. n
      OBVIOUS
    <2> QED BY <2>1 DEF NatValued, At
  <1> HIDE DEF picked, Fits
  <1>2. 0 \in S
    <2>1. ASSUME NEW g \in [1 .. n -> Nat] PROVE SumUpTo(picked(g, 0), 0) <= SumUpTo(g, n)
      <3>1. NatValued(g) /\ NatValued(picked(g, 0))
        BY SMTT(40), <1>1
      <3> QED BY <3>1, SumFacts
    <2>2. Fits(0)
      BY <2>1 DEF Fits
    <2> QED BY <2>2
  <1>3. ASSUME NEW k \in Nat, k \in S PROVE k + 1 \in S
    <2> SUFFICES ASSUME k + 1 <= m PROVE Fits(k + 1)
      OBVIOUS
    <2> SUFFICES ASSUME NEW g \in [1 .. n -> Nat]
                 PROVE  SumUpTo(picked(g, k + 1), k + 1) <= SumUpTo(g, n)
      BY DEF Fits
    <2> DEFINE j == ix[k + 1]
               h == [g EXCEPT ![j] = 0]
    <2>1. j \in 1 .. n /\ h \in [1 .. n -> Nat] /\ k \in 0 .. m /\ k + 1 \in 0 .. m
      OBVIOUS
    <2>2. \A x \in [1 .. n -> Nat] : SumUpTo(picked(x, k), k) <= SumUpTo(x, n)
      <3> HIDE DEF Fits
      <3>1. Fits(k)
        BY <1>3, <2>1
      <3> QED BY <3>1 DEF Fits
    <2>3. SumUpTo(g, n) = SumUpTo(h, n) + g[j]
      BY ZenonT(40), <2>1, SumWithout
    <2>4. ASSUME NEW i \in 1 .. k PROVE h[ix[i]] = g[ix[i]]
      <3>1. i \in 1 .. m /\ k + 1 \in 1 .. m /\ i # k + 1
        BY <2>1
      <3>2. ix[i] # j /\ ix[i] \in 1 .. n
        BY <3>1
      <3> QED BY <3>2
    <2> HIDE DEF h, j
    <2>5. /\ NatValued(picked(h, k)) /\ NatValued(picked(g, k + 1)) /\ NatValued(h) /\ NatValued(g)
          /\ \A i \in 1 .. k : At(picked(h, k), i) = h[ix[i]]
          /\ \A i \in 1 .. k + 1 : At(picked(g, k + 1), i) = g[ix[i]]
      BY <1>1, <2>1
    <2>6. SumUpTo(picked(g, k + 1), k) = SumUpTo(picked(h, k), k)
      <3>1. \A i \in 1 .. k : At(picked(g, k + 1), i) = At(picked(h, k), i)
        <4>1. \A i \in 1 .. k : i \in 1 .. k + 1
          BY <2>1
        <4> QED BY <2>4, <2>5, <4>1
      <3> QED BY <2>5, <3>1, SumAgrees
    <2>7. SumUpTo(picked(g, k + 1), k + 1) = SumUpTo(picked(g, k + 1), k) + At(picked(g, k + 1), k + 1)
      BY <2>5, SumFacts
    <2>8. At(picked(g, k + 1), k + 1) = g[j] /\ g[j] \in Nat
      <3>1. k + 1 \in 1 .. k + 1
        OBVIOUS
      <3> QED BY <2>1, <2>5, <3>1 DEF j
    <2>9. SumUpTo(picked(h, k), k) \in Nat /\ SumUpTo(h, n) \in Nat
      BY <2>5, SumFacts
    <2>10. SumUpTo(picked(h, k), k) <= SumUpTo(h, n)
      BY <2>1, <2>2
    <2> DEFINE was == SumUpTo(picked(h, k), k)
               of_h == SumUpTo(h, n)
               it == g[j]
    <2>11. was \in Nat /\ of_h \in Nat /\ it \in Nat /\ was <= of_h
      BY <2>8, <2>9, <2>10
    <2>12. SumUpTo(picked(g, k + 1), k + 1) = was + it /\ SumUpTo(g, n) = of_h + it
      BY <2>3, <2>6, <2>7, <2>8
    <2> HIDE DEF was, of_h, it, S
    <2>13. was + it <= of_h + it
      BY <2>11
    <2> QED BY <2>12, <2>13
  <1> HIDE DEF S
  <1>4. m \in S
    BY <1>2, <1>3, Induction
  <1>5. Fits(m)
    BY <1>4 DEF S
  <1> QED BY <1>5 DEF Fits, picked
-----------------------------------------------------------------------------
(* The elements of a sequence at some of its places.                       *)

\* ix tells for each element of t where in s it is from.
PickedBy(t, s, K, ix) ==
    /\ ix \in [1 .. Len(t) -> DOMAIN s]
    /\ \A q \in 1 .. Len(t) : ix[q] \in K /\ t[q] = s[ix[q]]
    /\ \A p, q \in 1 .. Len(t) : p < q => ix[p] < ix[q]
    /\ \A k \in DOMAIN s : k \in K => \E q \in 1 .. Len(t) : ix[q] = k

LEMMA ThosePicked ==
    ASSUME NEW T, NEW s \in Seq(T), NEW K
    PROVE  Those(s, K) \in Seq(T) /\ \E ix : PickedBy(Those(s, K), s, K, ix)
  <1> DEFINE n == Len(s)
             t == Those(s, K)
             ix == [q \in 1 .. Len(t) |-> CHOOSE k \in 1 .. n : k \in K /\ Count(K, k) = q]
  <1>1. n \in Nat /\ DOMAIN s = 1 .. n /\ \A k \in 1 .. n : s[k] \in T
    OBVIOUS
  <1>2. t = Pushed(s, K, n)
    BY <1>1 DEF Those, Pushed, PushOrNot
  <1> HIDE DEF n, t
  <1>3. PushedInOrder(T, s, K, n)
    BY <1>1, PushedFacts
  <1>4. /\ t \in Seq(T) /\ Len(t) = Count(K, n)
        /\ \A k \in 1 .. n : k \in K => Count(K, k) \in 1 .. Len(t) /\ t[Count(K, k)] = s[k]
        /\ \A q \in 1 .. Len(t) : \E k \in 1 .. n : k \in K /\ Count(K, k) = q
    BY <1>2, <1>3 DEF PushedInOrder
  <1>5. Len(t) \in Nat
    BY <1>4
  <1>6. ASSUME NEW q \in 1 .. Len(t)
        PROVE  ix[q] \in 1 .. n /\ ix[q] \in K /\ Count(K, ix[q]) = q /\ t[q] = s[ix[q]]
    <2> DEFINE it == CHOOSE k \in 1 .. n : k \in K /\ Count(K, k) = q
    <2>1. it \in 1 .. n /\ it \in K /\ Count(K, it) = q
      BY <1>4
    <2>2. ix[q] = it
      OBVIOUS
    <2> HIDE DEF it, ix
    <2> QED BY <1>4, <2>1, <2>2
  <1>7. ix = [q \in 1 .. Len(t) |-> ix[q]]
    OBVIOUS
  <1> HIDE DEF ix
  <1>8. ix \in [1 .. Len(t) -> DOMAIN s]
    BY <1>1, <1>6, <1>7
  <1>9. ASSUME NEW p \in 1 .. Len(t), NEW q \in 1 .. Len(t), p < q PROVE ix[p] < ix[q]
    <2> SUFFICES ASSUME ~ (ix[p] < ix[q]) PROVE FALSE
      OBVIOUS
    <2>1. ix[q] \in Nat /\ ix[p] \in Nat /\ ix[q] <= ix[p]
      BY <1>1, <1>6
    <2>2. Count(K, ix[q]) <= Count(K, ix[p])
      BY <2>1, CountMonotone
    <2>3. q <= p
      BY <1>6, <2>2
    <2> QED BY <1>5, <1>9, <2>3
  <1>10. ASSUME NEW k \in DOMAIN s, k \in K PROVE \E q \in 1 .. Len(t) : ix[q] = k
    <2> DEFINE q == Count(K, k)
    <2>1. q \in 1 .. Len(t) /\ k \in 1 .. n
      BY <1>1, <1>4, <1>10
    <2> HIDE DEF q
    <2>2. ix[q] \in 1 .. n /\ ix[q] \in K /\ Count(K, ix[q]) = q /\ k \in Nat /\ ix[q] \in Nat
      BY <1>1, <1>6, <2>1
    <2>3. ~ (ix[q] < k)
      <3> SUFFICES ASSUME ix[q] < k PROVE FALSE  OBVIOUS
      <3>1. k \in Nat \ {0} /\ ix[q] <= k - 1 /\ k - 1 \in Nat
        BY <1>1, <2>1, <2>2
      <3>2. Count(K, k) = Count(K, k - 1) + 1 /\ Count(K, k - 1) \in 0 .. k - 1
        BY <1>10, <3>1, CountMember, CountFacts
      <3>3. Count(K, ix[q]) <= Count(K, k - 1)
        BY <2>2, <3>1, CountMonotone
      <3> QED BY <2>2, <3>2, <3>3 DEF q
    <2>4. ~ (k < ix[q])
      <3> SUFFICES ASSUME k < ix[q] PROVE FALSE  OBVIOUS
      <3>1. ix[q] \in Nat \ {0} /\ k <= ix[q] - 1 /\ ix[q] - 1 \in Nat
        BY <1>1, <2>1, <2>2
      <3>2. Count(K, ix[q]) = Count(K, ix[q] - 1) + 1 /\ Count(K, ix[q] - 1) \in 0 .. ix[q] - 1
        BY <2>2, <3>1, CountMember, CountFacts
      <3>3. Count(K, k) <= Count(K, ix[q] - 1)
        BY <2>2, <3>1, CountMonotone
      <3> DEFINE c == Count(K, ix[q] - 1)
      <3>4. c \in Nat
        BY <3>2
      <3>5. q = c + 1
        BY <2>2, <3>2
      <3>6. q <= c
        BY <3>3 DEF q
      <3> HIDE DEF c
      <3> QED BY <3>4, <3>5, <3>6
    <2> QED BY <2>1, <2>2, <2>3, <2>4
  <1> QED BY SMTT(40), <1>4, <1>6, <1>8, <1>9, <1>10 DEF PickedBy, t

\* Everything is picked but once.
LEMMA PickedOnce ==
    ASSUME NEW t, NEW s, NEW K, NEW ix, PickedBy(t, s, K, ix), Len(t) \in Nat, NEW T, s \in Seq(T)
    PROVE  \A p, q \in 1 .. Len(t) : ix[p] = ix[q] => p = q
  <1> SUFFICES ASSUME NEW p \in 1 .. Len(t), NEW q \in 1 .. Len(t), ix[p] = ix[q], p # q PROVE FALSE
    OBVIOUS
  <1>1. (p < q => ix[p] < ix[q]) /\ (q < p => ix[q] < ix[p]) /\ ix[p] \in DOMAIN s
    BY DEF PickedBy
  <1>2. ix[p] \in Nat
    BY <1>1
  <1> QED BY <1>1, <1>2
-----------------------------------------------------------------------------
(* What sessions want, and what the scheduler gives them.                  *)

Wants == [j \in Active |-> Want(sessions[j])]

LEMMA SessionFacts ==
    ASSUME Sessions(sessions), NEW i \in DOMAIN sessions
    PROVE  /\ sessions[i] \in SessionType /\ sessions[i].id = i /\ i \in SessionId /\ i \in Nat \ {0}
           /\ sessions[i].query \in Seq(Token) /\ sessions[i].query # <<>>
           /\ sessions[i].processed \in Nat /\ sessions[i].generated \in Seq(Token)
           /\ sessions[i].processed <= Len(Text(sessions[i]))
           /\ Text(sessions[i]) \in Seq(Token)
           /\ Len(Text(sessions[i])) = Len(sessions[i].query) + Len(sessions[i].generated)
           /\ Len(sessions[i].query) \in Nat /\ Len(sessions[i].generated) \in Nat
  <1>1. /\ sessions \in Seq(SessionType) /\ Len(sessions) <= Len(Queries)
        /\ sessions[i].id = i /\ sessions[i].processed <= Len(Text(sessions[i]))
    BY DEF Sessions
  <1>2. sessions[i] \in SessionType
    BY <1>1
  <1>3. Queries \in Seq(Seq(Token) \ {<<>>})
    BY CBAssumption DEF CBAssumption
  <1>4. i \in SessionId
    <2>1. DOMAIN sessions = 1 .. Len(sessions) /\ DOMAIN Queries = 1 .. Len(Queries)
      BY <1>1, <1>3
    <2> QED BY <1>1, <1>3, <2>1 DEF SessionId
  <1>5. sessions[i].query \in Seq(Token) /\ sessions[i].query # <<>>
    <2>1. PICK q \in SessionId : sessions[i].query = Queries[q]
      BY <1>2 DEF SessionType
    <2>2. Queries[q] \in Seq(Token) \ {<<>>}
      BY <1>3, <2>1 DEF SessionId
    <2> QED BY <2>1, <2>2
  <1>6. sessions[i].processed \in Nat /\ sessions[i].generated \in Seq(Token)
    BY <1>2 DEF SessionType
  <1>7. /\ Text(sessions[i]) \in Seq(Token)
        /\ Len(Text(sessions[i])) = Len(sessions[i].query) + Len(sessions[i].generated)
    BY <1>5, <1>6, ConcatProperties DEF Text
  <1>8. i \in Nat \ {0}
    BY <1>1
  <1>9. Len(sessions[i].query) \in Nat /\ Len(sessions[i].generated) \in Nat
    BY <1>5, <1>6
  <1> QED BY Zenon, <1>1, <1>2, <1>4, <1>5, <1>6, <1>7, <1>8, <1>9

LEMMA WantsFacts ==
    ASSUME Sessions(sessions)
    PROVE  /\ NatValued(Wants) /\ DOMAIN Wants = Active /\ Active \subseteq 1 .. Len(sessions)
           /\ Len(sessions) \in Nat
           /\ \A i \in Active : Wants[i] = Want(sessions[i]) /\ Want(sessions[i]) \in Nat \ {0}
           /\ \A i \in DOMAIN sessions : Before(i) = SumUpTo(Wants, i - 1) /\ Before(i) \in Nat
  <1>1. DOMAIN sessions = 1 .. Len(sessions) /\ Len(sessions) \in Nat
    BY DEF Sessions
  <1>2. DOMAIN Wants = Active /\ Active \subseteq 1 .. Len(sessions)
    BY <1>1 DEF Wants, Active
  <1>3. ASSUME NEW i \in Active PROVE Wants[i] = Want(sessions[i]) /\ Want(sessions[i]) \in Nat \ {0}
    <2>1. i \in DOMAIN sessions
      BY <1>3 DEF Active
    <2>2. sessions[i].processed \in Nat /\ Len(sessions[i].query) \in Nat
      BY <2>1, SessionFacts
    <2> QED BY <1>3, <2>2 DEF Wants, Want, Prefilling
  <1>4. NatValued(Wants)
    BY <1>2, <1>3 DEF NatValued
  <1>5. ASSUME NEW i \in DOMAIN sessions PROVE Before(i) = SumUpTo(Wants, i - 1) /\ Before(i) \in Nat
    <2>1. i - 1 \in Nat
      BY <1>1
    <2>2. Before(i) = SumUpTo(Wants, i - 1)
      BY DEF Before, Wants
    <2> QED BY <1>4, <2>1, <2>2, SumFacts
  <1> QED BY <1>1, <1>2, <1>3, <1>4, <1>5

LEMMA SeqLenPositive == SeqLen \in Nat \ {0}
  BY CBAssumption DEF CBAssumption

LEMMA NextBatchType ==
    ASSUME Sessions(sessions)
    PROVE  /\ DOMAIN NextBatch \subseteq Active /\ NatValued(NextBatch)
           /\ DOMAIN NextBatch = {j \in Active : Before(j) < SeqLen}
           /\ \A i \in DOMAIN NextBatch :
                 /\ NextBatch[i] = Min2(Want(sessions[i]), SeqLen - Before(i))
                 /\ NextBatch[i] \in Nat \ {0} /\ NextBatch[i] <= Want(sessions[i])
                 /\ Before(i) \in Nat /\ Before(i) + NextBatch[i] <= SeqLen
  <1> DEFINE D == {j \in Active : Before(j) < SeqLen}
  <1>1. NextBatch = [i \in D |-> Min2(Want(sessions[i]), SeqLen - Before(i))]
    BY DEF NextBatch
  <1>2. DOMAIN NextBatch = D /\ D \subseteq Active
    BY <1>1
  <1>3. ASSUME NEW i \in D
        PROVE  /\ NextBatch[i] = Min2(Want(sessions[i]), SeqLen - Before(i))
               /\ NextBatch[i] \in Nat \ {0} /\ NextBatch[i] <= Want(sessions[i])
               /\ Before(i) \in Nat /\ Before(i) + NextBatch[i] <= SeqLen
    <2>1. NextBatch[i] = Min2(Want(sessions[i]), SeqLen - Before(i))
      BY <1>1
    <2>2. Before(i) < SeqLen /\ i \in Active
      OBVIOUS
    <2>3. i \in DOMAIN sessions
      BY <2>2 DEF Active
    <2>4. Want(sessions[i]) \in Nat \ {0} /\ Before(i) \in Nat
      BY <2>2, <2>3, WantsFacts
    <2> QED BY <2>1, <2>2, <2>4, SeqLenPositive DEF Min2
  <1> HIDE DEF D
  <1> QED BY <1>2, <1>3 DEF NatValued, D

\* The input rows are given out in order, as far as they go.
LEMMA RowsShared ==
    ASSUME Sessions(sessions), NEW n \in Nat
    PROVE  SumUpTo(NextBatch, n) = Min2(SumUpTo(Wants, n), SeqLen)
  <1> DEFINE S == {m \in Nat : SumUpTo(NextBatch, m) = Min2(SumUpTo(Wants, m), SeqLen)}
  <1>0. NatValued(Wants) /\ NatValued(NextBatch)
    BY WantsFacts, NextBatchType
  <1>1. 0 \in S
    BY <1>0, SumFacts, SeqLenPositive DEF Min2
  <1>2. ASSUME NEW m \in Nat, m \in S PROVE m + 1 \in S
    <2> DEFINE w == SumUpTo(Wants, m)
               x == SumUpTo(NextBatch, m)
    <2>1. w \in Nat /\ SumUpTo(Wants, m + 1) = w + At(Wants, m + 1)
      BY <1>0, SumFacts
    <2>2. x \in Nat /\ SumUpTo(NextBatch, m + 1) = x + At(NextBatch, m + 1)
      BY <1>0, SumFacts
    <2>3. x = Min2(w, SeqLen)
      BY <1>2
    <2> HIDE DEF w, x
    <2>4. CASE m + 1 \in Active
      <3> DEFINE i == m + 1
      <3>0. i \in DOMAIN sessions /\ i - 1 = m
        BY <2>4 DEF Active
      <3>1. Before(i) = w
        BY <3>0, WantsFacts DEF w
      <3> DEFINE u == Want(sessions[i])
      <3>2. At(Wants, i) = u /\ u \in Nat \ {0}
        BY <2>4, WantsFacts DEF At
      <3>3. CASE w < SeqLen
        <4>1. i \in DOMAIN NextBatch
          BY <2>4, <3>1, <3>3, NextBatchType
        <4>2. At(NextBatch, i) = Min2(u, SeqLen - w)
          BY <3>1, <4>1, NextBatchType DEF At
        <4> HIDE DEF u
        <4>3. x + Min2(u, SeqLen - w) = Min2(w + u, SeqLen)
          BY <2>1, <2>3, <3>2, <3>3, SeqLenPositive DEF Min2
        <4> QED BY <2>1, <2>2, <3>2, <4>2, <4>3
      <3>4. CASE ~ (w < SeqLen)
        <4>1. i \notin DOMAIN NextBatch
          BY <3>1, <3>4, NextBatchType
        <4>2. At(NextBatch, i) = 0
          BY <4>1 DEF At
        <4> HIDE DEF u
        <4>3. x + 0 = Min2(w + u, SeqLen)
          BY <2>1, <2>3, <3>2, <3>4, SeqLenPositive DEF Min2
        <4> QED BY <2>1, <2>2, <3>2, <4>2, <4>3
      <3> QED BY <3>3, <3>4
    <2>5. CASE m + 1 \notin Active
      <3>1. At(Wants, m + 1) = 0 /\ At(NextBatch, m + 1) = 0
        BY <2>5, WantsFacts, NextBatchType DEF At
      <3> QED BY <2>1, <2>2, <2>3, <3>1 DEF w
    <2> QED BY <2>4, <2>5
  <1> HIDE DEF S
  <1>3. n \in S
    BY <1>1, <1>2, Induction
  <1> QED BY <1>3 DEF S

\* The batch that is picked.
PickedBatch == Those([i \in DOMAIN sessions |-> i], DOMAIN NextBatch)
PickedRows == [i \in DOMAIN NextBatch |-> SumUpTo(NextBatch, i - 1)]

LEMMA PickedInOrder ==
    ASSUME Sessions(sessions)
    PROVE  Batched(sessions, PickedBatch, NextBatch, PickedRows) /\ Wanted(sessions, NextBatch)
  <1> DEFINE n == Len(sessions)
             v == [i \in DOMAIN sessions |-> i]
             K == DOMAIN NextBatch
             b == PickedBatch
  <1>0. n \in Nat /\ DOMAIN sessions = 1 .. n /\ n <= Len(Queries) /\ Len(Queries) \in Nat
    <2>1. Queries \in Seq(Seq(Token) \ {<<>>})
      BY CBAssumption DEF CBAssumption
    <2> QED BY <2>1 DEF Sessions
  <1>1. K \subseteq Active /\ Active \subseteq 1 .. n /\ Active = ActiveOf(sessions)
    BY NextBatchType, WantsFacts DEF Active, ActiveOf
  <1>2. NatValued(NextBatch) /\ NatValued(Wants)
    BY NextBatchType, WantsFacts
  <1>3. v \in Seq(1 .. n) /\ DOMAIN v = 1 .. n /\ \A i \in 1 .. n : v[i] = i
    BY <1>0
  <1> HIDE DEF v
  <1>4. b \in Seq(1 .. n) /\ \E ix : PickedBy(b, v, K, ix)
    <2>1. b = Those(v, K)
      BY DEF PickedBatch, v
    <2> QED BY <1>3, <2>1, ThosePicked
  <1>5. PICK ix : PickedBy(b, v, K, ix)
    BY <1>4
  <1>6. Len(b) \in Nat /\ DOMAIN b = 1 .. Len(b)
    BY <1>4
  <1>7. \A q \in 1 .. Len(b) : ix[q] \in K /\ b[q] = ix[q]
    BY <1>3, <1>5 DEF PickedBy
  <1> HIDE DEF K, b, n
  <1>8. b \in Seq(K)
    <2>1. \A q \in 1 .. Len(b) : b[q] \in K
      BY <1>7
    <2> QED BY <1>4, <1>6, <2>1
  <1>9. \A k, l \in DOMAIN b : b[k] = b[l] => k = l
    <2>1. \A p, q \in 1 .. Len(b) : ix[p] = ix[q] => p = q
      BY <1>3, <1>5, <1>6, PickedOnce
    <2> QED BY <1>6, <1>7, <2>1
  <1>10. \A id \in K : \E k \in DOMAIN b : b[k] = id
    <2> SUFFICES ASSUME NEW id \in K PROVE \E k \in DOMAIN b : b[k] = id
      OBVIOUS
    <2>1. id \in DOMAIN v
      BY <1>1, <1>3
    <2>2. PICK q \in 1 .. Len(b) : ix[q] = id
      BY <1>5, <2>1 DEF PickedBy
    <2> QED BY <1>6, <1>7, <2>2
  <1>11. ASSUME NEW i \in K
         PROVE  /\ i \in 1 .. n /\ PickedRows[i] = Before(i) /\ PickedRows[i] = SumUpTo(NextBatch, i - 1)
                /\ i - 1 \in Nat
                /\ NextBatch[i] \in Nat \ {0} /\ PickedRows[i] \in Nat /\ PickedRows[i] + NextBatch[i] <= SeqLen
                /\ NextBatch[i] <= Want(sessions[i])
    <2>1. i \in 1 .. n /\ i \in DOMAIN sessions
      BY <1>0, <1>1
    <2>2. i - 1 \in Nat
      BY <1>0, <2>1
    <2>3. PickedRows[i] = SumUpTo(NextBatch, i - 1)
      BY DEF PickedRows, K
    <2>4. SumUpTo(NextBatch, i - 1) = Min2(Before(i), SeqLen)
      BY <2>1, <2>2, RowsShared, WantsFacts
    <2>5. Before(i) < SeqLen /\ Before(i) \in Nat /\ NextBatch[i] \in Nat \ {0} /\ Before(i) + NextBatch[i] <= SeqLen
          /\ NextBatch[i] <= Want(sessions[i])
      BY NextBatchType DEF K
    <2> QED BY <2>1, <2>2, <2>3, <2>4, <2>5, SeqLenPositive DEF Min2
  <1>12. ASSUME NEW i \in K, NEW j \in K, i < j PROVE PickedRows[i] + NextBatch[i] <= PickedRows[j]
    <2>1. i \in Nat \ {0} /\ j \in Nat \ {0} /\ i - 1 \in Nat /\ (i - 1) + 1 = i /\ j - 1 \in Nat /\ i \in 0 .. j - 1
      BY <1>0, <1>1, <1>12
    <2>2. SumUpTo(NextBatch, i) = SumUpTo(NextBatch, i - 1) + At(NextBatch, i)
      BY <1>2, <2>1, SumFacts
    <2>3. SumUpTo(NextBatch, i) <= SumUpTo(NextBatch, j - 1)
      BY <1>2, <2>1, SumMonotone
    <2>4. At(NextBatch, i) = NextBatch[i]
      BY DEF At, K
    <2> QED BY <1>11, <2>2, <2>3, <2>4
  <1>13. SumUpTo(NextBatch, Len(Queries)) <= SeqLen
    <2>1. SumUpTo(NextBatch, Len(Queries)) = Min2(SumUpTo(Wants, Len(Queries)), SeqLen)
      BY <1>0, RowsShared
    <2>2. SumUpTo(Wants, Len(Queries)) \in Nat
      BY <1>0, <1>2, SumFacts
    <2> QED BY <2>1, <2>2, SeqLenPositive DEF Min2
  <1>14. K \subseteq DOMAIN sessions
    BY <1>0, <1>1
  <1>15. Batched(sessions, b, NextBatch, PickedRows)
    BY <1>8, <1>9, <1>10, <1>11, <1>12, <1>13, <1>14 DEF Batched, K
  <1>16. Wanted(sessions, NextBatch)
    BY <1>1, <1>11 DEF Wanted, K
  <1> QED BY <1>15, <1>16 DEF b
-----------------------------------------------------------------------------
(* Sessions and batches are in order.                                      *)

LEMMA SessionsKept ==
    ASSUME NEW ss, Sessions(ss), NEW tt, tt = [i \in DOMAIN ss |-> tt[i]],
           \A i \in DOMAIN ss : tt[i] \in SessionType /\ tt[i].id = i /\ tt[i].processed <= Len(Text(tt[i]))
    PROVE  Sessions(tt) /\ DOMAIN tt = DOMAIN ss
  <1>1. DOMAIN ss = 1 .. Len(ss) /\ Len(ss) \in Nat /\ Len(ss) <= Len(Queries)
    BY DEF Sessions
  <1>2. DOMAIN tt = DOMAIN ss
    OBVIOUS
  <1>3. tt \in Seq(SessionType) /\ Len(tt) = Len(ss)
    <2>1. tt = [i \in 1 .. Len(ss) |-> tt[i]]
      BY <1>1
    <2>2. \A i \in 1 .. Len(ss) : tt[i] \in SessionType
      BY <1>1
    <2> QED BY <1>1, <2>1, <2>2
  <1> QED BY <1>1, <1>2, <1>3 DEF Sessions

\* A batch stays one when sessions change or are added.
LEMMA BatchKept ==
    ASSUME NEW ss, NEW tt, NEW b, NEW ln, NEW at, Batched(ss, b, ln, at), DOMAIN ss \subseteq DOMAIN tt
    PROVE  Batched(tt, b, ln, at)
  BY DEF Batched

LEMMA NoBatch ==
    ASSUME NEW ss, NEW at
    PROVE  Batched(ss, <<>>, <<>>, at)
  <1> DEFINE e == <<>>
  <1>1. DOMAIN e = {} /\ e \in Seq({}) /\ NatValued(e)
    BY DEF NatValued
  <1>2. Len(Queries) \in Nat
    BY CBAssumption DEF CBAssumption
  <1>3. SumUpTo(e, Len(Queries)) <= SeqLen
    <2> HIDE DEF e
    <2>1. SumUpTo(e, Len(Queries)) = SumUpTo(e, 0) /\ SumUpTo(e, 0) = 0
      BY <1>1, <1>2, SumPast, SumFacts
    <2> QED BY <2>1, SeqLenPositive
  <1> HIDE DEF e
  <1>4. Batched(ss, e, e, at)
    BY <1>1, <1>3 DEF Batched
  <1> QED BY <1>4 DEF e

LEMMA ShardPositive == NumShards \in Nat \ {0}
  BY CBAssumption DEF CBAssumption

LEMMA InitOrder == Init => OrderInv
  <1> SUFFICES ASSUME Init PROVE OrderInv
    OBVIOUS
  <1>1. sessions = <<>> /\ pc = "idle" /\ batch = <<>> /\ lens = <<>> /\ shard = 1 /\ next = 1
    BY DEF Init
  <1>2. Loops
    BY <1>1, ShardPositive DEF Loops
  <1>3. SessionsInOrder
    <2>1. Len(Queries) \in Nat
      BY CBAssumption DEF CBAssumption
    <2>2. Sessions(sessions)
      BY <1>1, <2>1 DEF Sessions
    <2>3. ActiveOf(sessions) = {}
      BY <1>1 DEF ActiveOf
    <2> QED BY <1>1, <2>2, <2>3 DEF SessionsInOrder
  <1>4. BatchInOrder
    BY <1>1, NoBatch DEF BatchInOrder
  <1> QED BY <1>2, <1>3, <1>4 DEF OrderInv

\* What OrderInv speaks of.
orderVars == <<sessions, pc, batch, lens, in_start, shard, next>>

LEMMA OrderUnchanged ==
    ASSUME OrderInv, UNCHANGED orderVars
    PROVE  OrderInv'
  BY DEF OrderInv, orderVars, Loops, SessionsInOrder, BatchInOrder

LEMMA AddSessionOrder ==
    ASSUME OrderInv, NEW m \in MaxTokens, AddSession(m)
    PROVE  OrderInv'
  <1> DEFINE n == Len(sessions)
             id == n + 1
             new == [id |-> id, query |-> Queries[id], processed |-> 0, status |-> "waiting",
                     generated |-> <<>>, max_tokens |-> m, pending |-> Pad]
  <1>1. /\ pc = "idle" /\ n < Len(Queries) /\ sessions' = Append(sessions, new)
        /\ pc' = pc /\ batch' = batch /\ lens' = lens /\ in_start' = in_start /\ shard' = shard /\ next' = next
    BY DEF AddSession, step
  <1>2. /\ Sessions(sessions) /\ \A i \in ActiveOf(sessions) : Ready(sessions[i])
        /\ Batched(sessions, batch, lens, in_start) /\ batch = <<>> /\ lens = <<>>
    BY <1>1 DEF OrderInv, SessionsInOrder, BatchInOrder
  <1>3. Queries \in Seq(Seq(Token) \ {<<>>}) /\ Len(Queries) \in Nat
    BY CBAssumption DEF CBAssumption
  <1>4. sessions \in Seq(SessionType) /\ n \in Nat /\ DOMAIN sessions = 1 .. n
    BY <1>2 DEF Sessions
  <1>5. id \in SessionId /\ Queries[id] \in Seq(Token) /\ Queries[id] # <<>>
    BY <1>1, <1>3, <1>4 DEF SessionId
  <1>6. new \in SessionType
    BY <1>5 DEF SessionType
  <1>7. new.processed = 0 /\ new.id = id /\ new.query = Queries[id] /\ new.generated = <<>>
    OBVIOUS
  <1> HIDE DEF new
  <1>8. /\ sessions' \in Seq(SessionType) /\ Len(sessions') = n + 1 /\ DOMAIN sessions' = 1 .. n + 1
        /\ \A i \in 1 .. n : sessions'[i] = sessions[i]
        /\ sessions'[id] = new
    BY <1>1, <1>4, <1>6
  <1>9. Len(Text(new)) \in Nat /\ Prefilling(new)
    <2>1. Text(new) \in Seq(Token)
      BY <1>5, <1>7, ConcatProperties DEF Text
    <2>2. Len(Queries[id]) \in Nat \ {0}
      BY <1>5, EmptySeq
    <2> QED BY <1>7, <2>1, <2>2 DEF Prefilling
  <1>10. Ready(new)
    BY <1>7, <1>9 DEF Ready
  <1>11. Sessions(sessions')
    <2>1. ASSUME NEW i \in DOMAIN sessions'
          PROVE  sessions'[i].id = i /\ sessions'[i].processed <= Len(Text(sessions'[i]))
      <3>1. CASE i \in 1 .. n
        BY <1>2, <1>4, <1>8, <3>1 DEF Sessions
      <3>2. CASE i = id
        BY <1>7, <1>8, <1>9, <3>2
      <3> QED BY <1>4, <1>8, <3>1, <3>2
    <2>2. Len(sessions') <= Len(Queries)
      BY <1>1, <1>3, <1>4, <1>8
    <2> QED BY <1>8, <2>1, <2>2 DEF Sessions
  <1>12. ASSUME NEW i \in ActiveOf(sessions') PROVE Ready(sessions'[i])
    <2>1. i \in 1 .. n + 1 /\ sessions'[i].status # "completed"
      BY <1>8, <1>12 DEF ActiveOf
    <2>2. CASE i \in 1 .. n
      <3>1. i \in ActiveOf(sessions)
        BY <1>4, <1>8, <2>1, <2>2 DEF ActiveOf
      <3> QED BY <1>2, <1>8, <2>2, <3>1
    <2>3. CASE i = id
      BY <1>8, <1>10, <2>3
    <2> QED BY <1>4, <2>1, <2>2, <2>3
  <1>13. SessionsInOrder'
    BY <1>1, <1>11, <1>12 DEF SessionsInOrder
  <1>14. BatchInOrder'
    BY <1>1, <1>2, NoBatch DEF BatchInOrder
  <1>15. Loops'
    BY <1>1 DEF OrderInv, Loops
  <1> QED BY <1>13, <1>14, <1>15 DEF OrderInv

\* Where only the control moves on.
LEMMA IdleOrder ==
    ASSUME OrderInv, GenerateBatch \/ Return
    PROVE  OrderInv'
  <1>1. /\ pc \in {"idle", "pick"} /\ pc' \in {"idle", "pick"}
        /\ sessions' = sessions /\ batch' = batch /\ lens' = lens /\ in_start' = in_start
        /\ shard' = shard /\ next' = next
    BY DEF GenerateBatch, Return, step
  <1>2. Loops'
    BY <1>1 DEF OrderInv, Loops
  <1>3. SessionsInOrder'
    BY <1>1 DEF OrderInv, SessionsInOrder
  <1>4. BatchInOrder'
    BY <1>1 DEF OrderInv, BatchInOrder
  <1> QED BY <1>2, <1>3, <1>4 DEF OrderInv

LEMMA NewSchedulerOrder ==
    ASSUME OrderInv, NEW reset \in BOOLEAN, NewScheduler(reset)
    PROVE  OrderInv'
  <1>1. /\ pc \in {"idle", "thrown"} /\ pc' = "idle" /\ sessions' = <<>>
        /\ batch' = batch /\ lens' = lens /\ in_start' = in_start /\ shard' = shard /\ next' = next
    BY DEF NewScheduler, step
  <1>2. Loops'
    BY <1>1 DEF OrderInv, Loops
  <1>3. SessionsInOrder'
    <2>1. Len(Queries) \in Nat
      BY CBAssumption DEF CBAssumption
    <2>2. Sessions(sessions') /\ ActiveOf(sessions') = {}
      BY <1>1, <2>1 DEF Sessions, ActiveOf
    <2> QED BY <1>1, <2>2 DEF SessionsInOrder
  <1>4. BatchInOrder'
    <2>1. batch = <<>> /\ lens = <<>>
      BY <1>1 DEF OrderInv, BatchInOrder
    <2> QED BY <1>1, <2>1, NoBatch DEF BatchInOrder
  <1> QED BY <1>2, <1>3, <1>4 DEF OrderInv

LEMMA PickOrder ==
    ASSUME OrderInv, Pick
    PROVE  OrderInv'
  <1> DEFINE running(i) == IF i \in DOMAIN NextBatch THEN [sessions[i] EXCEPT !.status = "running"]
                           ELSE sessions[i]
  <1>1. /\ pc = "pick" /\ pc' = "prepare"
        /\ lens' = NextBatch /\ batch' = PickedBatch /\ in_start' = PickedRows
        /\ sessions' = [i \in DOMAIN sessions |-> running(i)]
        /\ shard' = shard /\ next' = next
    BY DEF Pick, PickedBatch, PickedRows
  <1>2. /\ Sessions(sessions) /\ shard = 1 /\ batch = <<>> /\ next \in 1 .. Len(batch) + 1
        /\ \A i \in ActiveOf(sessions) : Ready(sessions[i])
    BY <1>1 DEF OrderInv, SessionsInOrder, BatchInOrder, Loops
  <1>3. Batched(sessions, PickedBatch, NextBatch, PickedRows) /\ Wanted(sessions, NextBatch)
    BY <1>2, PickedInOrder
  <1>4. ASSUME NEW i \in DOMAIN sessions
        PROVE  /\ sessions'[i] \in SessionType /\ sessions'[i].id = i
               /\ sessions'[i].processed = sessions[i].processed /\ sessions'[i].query = sessions[i].query
               /\ sessions'[i].generated = sessions[i].generated /\ sessions'[i].pending = sessions[i].pending
               /\ (i \in ActiveOf(sessions') <=> i \in ActiveOf(sessions))
    <2>1. sessions[i] \in SessionType /\ sessions[i].id = i
      BY <1>2, SessionFacts
    <2>2. sessions'[i] = running(i) /\ DOMAIN sessions' = DOMAIN sessions
      BY <1>1
    <2>3. CASE i \in DOMAIN NextBatch
      <3>1. i \in Active
        BY <1>2, <2>3, NextBatchType
      <3> QED BY <2>1, <2>2, <2>3, <3>1 DEF SessionType, ActiveOf, Active
    <2>4. CASE i \notin DOMAIN NextBatch
      BY <2>1, <2>2, <2>4 DEF SessionType, ActiveOf
    <2> QED BY <2>3, <2>4
  <1>5. sessions' = [i \in DOMAIN sessions |-> sessions'[i]]
    BY <1>1
  <1> HIDE DEF running
  <1>6. ASSUME NEW i \in DOMAIN sessions
        PROVE  /\ Text(sessions'[i]) = Text(sessions[i]) /\ (Prefilling(sessions'[i]) <=> Prefilling(sessions[i]))
               /\ Want(sessions'[i]) = Want(sessions[i])
               /\ (Ready(sessions[i]) => Ready(sessions'[i]))
    BY <1>4 DEF Text, Prefilling, Want, Ready
  <1>7. Sessions(sessions') /\ DOMAIN sessions' = DOMAIN sessions
    <2>1. \A i \in DOMAIN sessions : sessions'[i].processed <= Len(Text(sessions'[i]))
      BY <1>2, <1>4, <1>6, SessionFacts
    <2> QED BY <1>2, <1>4, <1>5, <2>1, SessionsKept
  <1>8. ActiveOf(sessions') = ActiveOf(sessions)
    BY <1>4, <1>7 DEF ActiveOf
  <1>9. \A i \in ActiveOf(sessions') : Ready(sessions'[i])
    <2>1. \A i \in ActiveOf(sessions) : i \in DOMAIN sessions
      BY DEF ActiveOf
    <2> QED BY <1>2, <1>6, <1>8, <2>1
  <1>10. SessionsInOrder'
    BY <1>1, <1>7, <1>9 DEF SessionsInOrder
  <1>11. Batched(sessions', batch', lens', in_start')
    BY <1>1, <1>3, <1>7, BatchKept
  <1>12. Wanted(sessions', lens')
    <2>1. \A i \in ActiveOf(sessions) : i \in DOMAIN sessions
      BY DEF ActiveOf
    <2> QED BY <1>1, <1>3, <1>6, <1>8, <2>1 DEF Wanted
  <1>13. BatchInOrder'
    BY <1>1, <1>11, <1>12 DEF BatchInOrder
  <1>14. Loops'
    <2>1. next = 1
      BY <1>2
    <2>2. Len(batch') \in Nat
      BY <1>11 DEF Batched
    <2> QED BY <1>1, <1>2, <2>1, <2>2, ShardPositive DEF Loops
  <1> QED BY <1>10, <1>13, <1>14 DEF OrderInv

LEMMA PrepareOrder ==
    ASSUME OrderInv, Prepare
    PROVE  OrderInv'
  <1>1. /\ pc = "prepare" /\ pc' = "shard" /\ shard' = 1
        /\ sessions' = sessions /\ batch' = batch /\ lens' = lens /\ in_start' = in_start /\ next' = next
    BY DEF Prepare
  <1>2. Loops'
    BY <1>1, ShardPositive DEF OrderInv, Loops
  <1>3. SessionsInOrder'
    BY <1>1 DEF OrderInv, SessionsInOrder
  <1>4. BatchInOrder'
    BY <1>1 DEF OrderInv, BatchInOrder
  <1> QED BY <1>2, <1>3, <1>4 DEF OrderInv

LEMMA RunShardOrder ==
    ASSUME OrderInv, RunShard
    PROVE  OrderInv'
  <1>1. /\ pc = "shard"
        /\ \/ pc' = "shard" /\ shard < NumShards /\ shard' = shard + 1
           \/ pc' = "update" /\ shard' = 1
        /\ sessions' = sessions /\ batch' = batch /\ lens' = lens /\ in_start' = in_start /\ next' = next
    BY DEF RunShard
  <1>2. Loops'
    BY <1>1, ShardPositive DEF OrderInv, Loops
  <1>3. SessionsInOrder'
    BY <1>1 DEF OrderInv, SessionsInOrder
  <1>4. BatchInOrder'
    BY <1>1 DEF OrderInv, BatchInOrder
  <1> QED BY <1>2, <1>3, <1>4 DEF OrderInv

\* An exception, with whatever the sessions have become.
LEMMA ThrowOrder ==
    ASSUME Sessions(sessions'), Throw
    PROVE  OrderInv'
  <1>1. pc' = "thrown" /\ batch' = <<>> /\ lens' = <<>> /\ shard' = 1 /\ next' = 1
    BY DEF Throw, NoStep
  <1>2. Loops'
    BY <1>1, ShardPositive DEF Loops
  <1>3. SessionsInOrder'
    BY <1>1 DEF SessionsInOrder
  <1>4. BatchInOrder'
    BY <1>1, NoBatch DEF BatchInOrder
  <1> QED BY <1>2, <1>3, <1>4 DEF OrderInv

LEMMA ExecuteFailsOrder ==
    ASSUME OrderInv, ExecuteFails
    PROVE  OrderInv'
  <1>1. sessions' = sessions /\ Throw
    BY DEF ExecuteFails
  <1>2. Sessions(sessions')
    BY <1>1 DEF OrderInv, SessionsInOrder
  <1> QED BY <1>1, <1>2, ThrowOrder

\* The sessions of the batch have read what they were given.
LEMMA UpdateOrder ==
    ASSUME OrderInv, Update
    PROVE  OrderInv'
  <1> DEFINE read(i) == IF i \in DOMAIN lens THEN [sessions[i] EXCEPT !.processed = @ + lens[i]]
                        ELSE sessions[i]
  <1>1. /\ pc = "update" /\ pc' = "sample" /\ next' = 1
        /\ sessions' = [i \in DOMAIN sessions |-> read(i)]
        /\ batch' = batch /\ lens' = lens /\ in_start' = in_start /\ shard' = shard
    BY DEF Update
  <1>2. /\ Sessions(sessions) /\ shard = 1
        /\ Batched(sessions, batch, lens, in_start) /\ Wanted(sessions, lens)
        /\ \A i \in ActiveOf(sessions) : Ready(sessions[i])
    BY <1>1, ShardPositive DEF OrderInv, SessionsInOrder, BatchInOrder, Loops
  <1>3. DOMAIN lens \subseteq DOMAIN sessions
    BY <1>2 DEF Batched
  <1>4. ASSUME NEW i \in DOMAIN sessions
        PROVE  /\ sessions'[i] \in SessionType /\ sessions'[i].id = i /\ sessions'[i].status = sessions[i].status
               /\ sessions'[i].processed = sessions[i].processed + At(lens, i)
               /\ Text(sessions'[i]) = Text(sessions[i])
               /\ sessions'[i].query = sessions[i].query /\ sessions'[i].generated = sessions[i].generated
    <2>1. sessions[i] \in SessionType /\ sessions[i].id = i /\ sessions[i].processed \in Nat
      BY <1>2, SessionFacts
    <2>2. sessions'[i] = read(i)
      BY <1>1
    <2>3. CASE i \in DOMAIN lens
      <3>1. lens[i] \in Nat
        BY <1>2, <2>3 DEF Batched
      <3> QED BY SMTT(40), <2>1, <2>2, <2>3, <3>1 DEF SessionType, Text, At
    <2>4. CASE i \notin DOMAIN lens
      BY <2>1, <2>2, <2>4 DEF SessionType, Text, At
    <2> QED BY <2>3, <2>4
  <1>5. sessions' = [i \in DOMAIN sessions |-> sessions'[i]]
    BY <1>1
  <1> HIDE DEF read
  <1>6. ASSUME NEW i \in DOMAIN lens
        PROVE  Stepped(sessions'[i]) /\ sessions'[i].processed <= Len(Text(sessions'[i])) /\ i \in ActiveOf(sessions)
    <2> DEFINE s == sessions[i]
               t == sessions'[i]
               n == Len(s.query)
    <2>1. i \in DOMAIN sessions /\ i \in ActiveOf(sessions) /\ lens[i] <= Want(s) /\ lens[i] \in Nat \ {0}
      BY <1>2, <1>3 DEF Wanted, Batched
    <2>2. Ready(s)
      BY <1>2, <2>1
    <2>3. /\ s.processed \in Nat /\ n \in Nat /\ Len(s.generated) \in Nat
          /\ s.processed <= Len(Text(s)) /\ Len(Text(s)) = n + Len(s.generated)
      BY <1>2, <2>1, SessionFacts
    <2>4. /\ t.processed = s.processed + lens[i] /\ t.query = s.query /\ t.generated = s.generated
          /\ Text(t) = Text(s)
      BY <1>4, <2>1 DEF At
    <2> HIDE DEF s, t
    <2>5. Stepped(t) /\ t.processed <= Len(Text(t))
      <3>1. CASE Prefilling(s)
        <4>1. s.generated = <<>> /\ lens[i] <= n - s.processed
          BY <2>1, <2>2, <3>1 DEF Ready, Want
        <4>2. Len(Text(s)) = n
          BY <2>3, <4>1
        <4>3. t.processed <= n
          BY <2>1, <2>3, <2>4, <4>1
        <4> QED BY <2>1, <2>3, <2>4, <4>1, <4>2, <4>3 DEF Prefilling, Stepped
      <3>2. CASE ~ Prefilling(s)
        <4>1. s.processed + 1 = Len(Text(s)) /\ Want(s) = 1
          BY <2>2, <3>2 DEF Ready, Want
        <4>2. lens[i] = 1 /\ n <= s.processed
          BY <2>1, <2>3, <3>2, <4>1 DEF Prefilling
        <4>3. t.processed = Len(Text(t)) /\ ~ (t.processed < n) /\ t.processed <= Len(Text(t))
          <5> DEFINE p == s.processed
                     q == t.processed
          <5>1. p \in Nat /\ n \in Nat /\ n <= p /\ q = p + 1
            BY <2>3, <2>4, <4>2
          <5>2. q = Len(Text(t))
            BY <2>4, <4>1, <4>2
          <5> HIDE DEF p, q, n
          <5>3. ~ (q < n) /\ q <= Len(Text(t))
            BY <5>1, <5>2
          <5> QED BY <5>2, <5>3 DEF q
        <4> QED BY <2>4, <4>3 DEF Prefilling, Stepped
      <3> QED BY <3>1, <3>2
    <2> QED BY <2>1, <2>5 DEF t
  <1>7. ASSUME NEW i \in DOMAIN sessions PROVE sessions'[i].processed <= Len(Text(sessions'[i]))
    <2>1. CASE i \in DOMAIN lens
      BY <1>6, <2>1
    <2>2. CASE i \notin DOMAIN lens
      <3>1. sessions[i].processed \in Nat /\ sessions[i].processed <= Len(Text(sessions[i])) /\ At(lens, i) = 0
        BY <1>2, <2>2, SessionFacts DEF At
      <3> QED BY <1>4, <3>1
    <2> QED BY <2>1, <2>2
  <1>8. Sessions(sessions') /\ DOMAIN sessions' = DOMAIN sessions
    BY <1>2, <1>4, <1>5, <1>7, SessionsKept
  <1>9. ActiveOf(sessions') = ActiveOf(sessions)
    BY <1>4, <1>8 DEF ActiveOf
  <1>10. Due(batch, 1) = DOMAIN lens
    <2>1. batch \in Seq(DOMAIN lens) /\ \A id \in DOMAIN lens : \E k \in DOMAIN batch : batch[k] = id
      BY <1>2 DEF Batched
    <2>2. DOMAIN batch = 1 .. Len(batch) /\ \A k \in 1 .. Len(batch) : batch[k] \in DOMAIN lens
      BY <2>1
    <2> QED BY <2>1, <2>2 DEF Due
  <1>11. SessionsInOrder'
    <2>1. Due(batch, 1) \subseteq ActiveOf(sessions)
      BY <1>6, <1>10
    <2>2. ASSUME NEW i \in ActiveOf(sessions)
          PROVE  IF i \in Due(batch, 1) THEN Stepped(sessions'[i]) ELSE Ready(sessions'[i])
      <3>1. CASE i \in DOMAIN lens
        BY <1>6, <1>10, <3>1
      <3>2. CASE i \notin DOMAIN lens
        <4>1. i \in DOMAIN sessions /\ Ready(sessions[i])
          BY <1>2 DEF ActiveOf
        <4>2. sessions'[i] = sessions[i]
          BY <1>1, <3>2, <4>1 DEF read
        <4> QED BY <1>10, <3>2, <4>1, <4>2
      <3> QED BY <3>1, <3>2
    <2> QED BY <1>1, <1>8, <1>9, <2>1, <2>2 DEF SessionsInOrder
  <1>12. BatchInOrder'
    <2>1. Batched(sessions', batch', lens', in_start')
      BY <1>1, <1>2, <1>8, BatchKept
    <2> QED BY <1>1, <2>1 DEF BatchInOrder
  <1>13. Loops'
    <2>1. Len(batch) \in Nat
      BY <1>2 DEF Batched
    <2> QED BY <1>1, <1>2, <2>1, ShardPositive DEF Loops
  <1> QED BY <1>11, <1>12, <1>13 DEF OrderInv

\* The session that is sampled: it has read everything, or is still reading its prompt.
LEMMA DueFacts ==
    ASSUME OrderInv, pc = "sample", next <= Len(batch)
    PROVE  /\ batch[next] \in ActiveOf(sessions) /\ batch[next] \in DOMAIN sessions
           /\ batch[next] \in DOMAIN lens
           /\ Stepped(sessions[batch[next]]) /\ sessions[batch[next]].id = batch[next]
           /\ next \in Nat \ {0} /\ Len(batch) \in Nat
           /\ Due(batch, next + 1) = Due(batch, next) \ {batch[next]} /\ batch[next] \in Due(batch, next)
  <1>1. /\ Sessions(sessions) /\ Due(batch, next) \subseteq ActiveOf(sessions)
        /\ \A i \in ActiveOf(sessions) : IF i \in Due(batch, next) THEN Stepped(sessions[i]) ELSE Ready(sessions[i])
        /\ Batched(sessions, batch, lens, in_start)
    BY DEF OrderInv, SessionsInOrder, BatchInOrder
  <1>2. /\ batch \in Seq(DOMAIN lens) /\ Len(batch) \in Nat /\ DOMAIN batch = 1 .. Len(batch)
        /\ \A k, l \in DOMAIN batch : batch[k] = batch[l] => k = l
    BY <1>1 DEF Batched
  <1>3. next \in Nat \ {0} /\ next \in 1 .. Len(batch) /\ next \in next .. Len(batch)
    BY <1>2 DEF OrderInv, Loops
  <1>4. batch[next] \in Due(batch, next)
    BY <1>3 DEF Due
  <1>5. batch[next] \in ActiveOf(sessions) /\ Stepped(sessions[batch[next]])
    BY <1>1, <1>4
  <1>6. batch[next] \in DOMAIN sessions
    BY <1>5 DEF ActiveOf
  <1>7. sessions[batch[next]].id = batch[next]
    BY <1>1, <1>6, SessionFacts
  <1>8. Due(batch, next + 1) = Due(batch, next) \ {batch[next]}
    <2>1. ASSUME NEW k \in next + 1 .. Len(batch) PROVE k \in next .. Len(batch) /\ batch[k] # batch[next]
      BY <1>2, <1>3
    <2>2. ASSUME NEW k \in next .. Len(batch), batch[k] # batch[next] PROVE k \in next + 1 .. Len(batch)
      <3>1. k # next
        BY <2>2
      <3> QED BY <1>3, <3>1
    <2> QED BY <2>1, <2>2 DEF Due
  <1>9. batch[next] \in DOMAIN lens
    BY <1>2, <1>3
  <1> QED BY <1>2, <1>3, <1>4, <1>5, <1>6, <1>7, <1>8, <1>9

\* A token is sampled for the session: it ends, or has one token more.
LEMMA SampledSession ==
    ASSUME NEW s \in SessionType, Stepped(s), DonePrefill(s), Text(s) \in Seq(Token), s.generated \in Seq(Token),
           s.query \in Seq(Token), NEW tok \in Token
    PROVE  /\ Emitted(s, tok) \in SessionType /\ Emitted(s, tok).id = s.id
           /\ Emitted(s, tok).processed = s.processed
           /\ Emitted(s, tok).query = s.query /\ Emitted(s, tok).status = s.status
           /\ Text(Emitted(s, tok)) = Append(Text(s), tok)
           /\ Ready(Emitted(s, tok)) /\ s.processed < Len(Text(Emitted(s, tok)))
  <1> DEFINE t == Emitted(s, tok)
  <1>1. s.generated \in Seq(Token) /\ s.query \in Seq(Token) /\ s.processed \in Nat
    BY DEF SessionType
  <1>2. Append(s.generated, tok) \in Seq(Token) /\ Append(s.generated, tok) # <<>> /\ Last(Append(s.generated, tok)) = tok
    BY <1>1, AppendLast
  <1>3. t = [s EXCEPT !.generated = Append(s.generated, tok), !.pending = tok]
    BY DEF Emitted
  <1>4. /\ t.id = s.id /\ t.processed = s.processed /\ t.query = s.query /\ t.status = s.status
        /\ t.generated = Append(s.generated, tok) /\ t.pending = tok
    BY <1>3 DEF SessionType
  <1>5. t \in SessionType
    BY <1>2, <1>3 DEF SessionType
  <1> HIDE DEF t
  <1>6. Text(t) = Append(Text(s), tok)
    <2>1. <<tok>> \in Seq(Token)
      OBVIOUS
    <2>2. Append(s.generated, tok) = s.generated \o <<tok>>
      BY <1>1, AppendIsConcat
    <2>3. Append(s.query \o s.generated, tok) = (s.query \o s.generated) \o <<tok>>
      BY AppendIsConcat DEF Text
    <2>4. (s.query \o s.generated) \o <<tok>> = s.query \o (s.generated \o <<tok>>)
      <3> DEFINE q == s.query
                 g == s.generated
                 e == <<tok>>
      <3>1. q \in Seq(Token) /\ g \in Seq(Token) /\ e \in Seq(Token)
        BY <1>1, <2>1
      <3> HIDE DEF q, g, e
      <3>2. (q \o g) \o e = q \o (g \o e)
        BY SMTT(40), <3>1, ConcatAssociative
      <3> QED BY <3>2 DEF q, g, e
    <2>5. Text(t) = s.query \o (s.generated \o <<tok>>)
      BY <1>4, <2>2 DEF Text
    <2>6. Text(t) = Append(s.query \o s.generated, tok)
      BY <2>3, <2>4, <2>5
    <2> QED BY <2>6 DEF Text
  <1>7. s.processed = Len(Text(s)) /\ ~ Prefilling(t)
    BY <1>4 DEF Stepped, DonePrefill, Prefilling
  <1>8. Len(Text(t)) = Len(Text(s)) + 1 /\ Len(Text(s)) \in Nat
    BY <1>6
  <1>9. Ready(t)
    <2>1. t.generated # <<>> /\ t.pending = Last(t.generated) /\ t.processed + 1 = Len(Text(t))
      BY <1>2, <1>4, <1>7, <1>8
    <2> QED BY <1>7, <2>1 DEF Ready
  <1> QED BY <1>4, <1>5, <1>6, <1>7, <1>8, <1>9 DEF t

\* One session is replaced by what has become of it.
LEMMA OneSession ==
    ASSUME Sessions(sessions), NEW id \in DOMAIN sessions, NEW t \in SessionType, t.id = id,
           t.processed <= Len(Text(t))
    PROVE  /\ Sessions([sessions EXCEPT ![id] = t])
           /\ DOMAIN [sessions EXCEPT ![id] = t] = DOMAIN sessions
           /\ \A i \in DOMAIN sessions : [sessions EXCEPT ![id] = t][i] = IF i = id THEN t ELSE sessions[i]
           /\ ActiveOf([sessions EXCEPT ![id] = t]) =
                IF t.status = "completed" THEN ActiveOf(sessions) \ {id} ELSE ActiveOf(sessions) \cup {id}
  <1> DEFINE tt == [sessions EXCEPT ![id] = t]
  <1>1. DOMAIN tt = DOMAIN sessions /\ \A i \in DOMAIN sessions : tt[i] = IF i = id THEN t ELSE sessions[i]
    OBVIOUS
  <1>2. tt = [i \in DOMAIN sessions |-> tt[i]]
    BY DEF Sessions
  <1> HIDE DEF tt
  <1>3. \A i \in DOMAIN sessions : tt[i] \in SessionType /\ tt[i].id = i /\ tt[i].processed <= Len(Text(tt[i]))
    BY <1>1, SessionFacts
  <1>4. Sessions(tt)
    BY <1>2, <1>3, SessionsKept
  <1>5. ActiveOf(tt) = IF t.status = "completed" THEN ActiveOf(sessions) \ {id} ELSE ActiveOf(sessions) \cup {id}
    BY <1>1 DEF ActiveOf
  <1> QED BY <1>1, <1>4, <1>5 DEF tt

\* What sampling the next session does to the sessions.
LEMMA SampleDone ==
    ASSUME OrderInv, Sample
    PROVE  LET id == batch[next]
           IN  /\ Sessions(sessions') /\ DOMAIN sessions' = DOMAIN sessions
               /\ \A i \in DOMAIN sessions : i # id => sessions'[i] = sessions[i]
               /\ id \in ActiveOf(sessions') => Ready(sessions'[id])
               /\ ActiveOf(sessions) \ {id} = ActiveOf(sessions') \ {id}
               /\ sessions'[id].processed = sessions[id].processed /\ sessions'[id].query = sessions[id].query
               /\ sessions'[id].generated = sessions[id].generated
                    \/ \E tok \in Token : sessions'[id].generated = Append(sessions[id].generated, tok)
  <1> DEFINE id == batch[next]
             s == sessions[id]
  <1>1. /\ pc = "sample" /\ next <= Len(batch)
        /\ \/ /\ DonePrefill(s)
              /\ \E tok \in Token :
                    sessions' = [sessions EXCEPT ![s.id] =
                      IF Ends(s, tok) THEN [s EXCEPT !.status = "completed"] ELSE Emitted(s, tok)]
           \/ ~DonePrefill(s) /\ sessions' = sessions
    BY DEF Sample
  <1>2. id \in ActiveOf(sessions) /\ id \in DOMAIN sessions /\ Stepped(s) /\ s.id = id
    BY <1>1, DueFacts
  <1>3. Sessions(sessions)
    BY DEF OrderInv, SessionsInOrder
  <1>4. /\ s \in SessionType /\ s.query \in Seq(Token) /\ s.generated \in Seq(Token) /\ s.processed \in Nat
        /\ s.processed <= Len(Text(s)) /\ Text(s) \in Seq(Token) /\ s.status # "completed"
    <2>1. s.status # "completed"
      BY <1>2 DEF ActiveOf
    <2> QED BY <1>2, <1>3, <2>1, SessionFacts
  <1> HIDE DEF id, s
  <1>5. CASE ~DonePrefill(s) /\ sessions' = sessions
    <2>1. Ready(s)
      BY <1>2, <1>5 DEF DonePrefill, Ready, Stepped
    <2> QED BY <1>3, <1>5, <2>1 DEF s, id
  <1>6. ASSUME DonePrefill(s), NEW tok \in Token, Ends(s, tok),
               sessions' = [sessions EXCEPT ![id] = [s EXCEPT !.status = "completed"]]
        PROVE  /\ Sessions(sessions') /\ DOMAIN sessions' = DOMAIN sessions
               /\ \A i \in DOMAIN sessions : i # id => sessions'[i] = sessions[i]
               /\ id \in ActiveOf(sessions') => Ready(sessions'[id])
               /\ ActiveOf(sessions) \ {id} = ActiveOf(sessions') \ {id}
               /\ sessions'[id].processed = s.processed /\ sessions'[id].query = s.query
               /\ sessions'[id].generated = s.generated
    <2> DEFINE t == [s EXCEPT !.status = "completed"]
    <2>1. /\ t \in SessionType /\ t.id = s.id /\ t.processed = s.processed /\ t.query = s.query
          /\ t.generated = s.generated /\ t.status = "completed"
      BY <1>4 DEF SessionType
    <2> HIDE DEF t
    <2>2. t.id = id /\ t.processed <= Len(Text(t))
      BY <1>2, <1>4, <2>1 DEF Text
    <2>3. sessions' = [sessions EXCEPT ![id] = t]
      BY <1>6 DEF t
    <2>4. /\ Sessions(sessions') /\ DOMAIN sessions' = DOMAIN sessions
          /\ \A i \in DOMAIN sessions : sessions'[i] = IF i = id THEN t ELSE sessions[i]
          /\ ActiveOf(sessions') = IF t.status = "completed" THEN ActiveOf(sessions) \ {id} ELSE ActiveOf(sessions) \cup {id}
      BY <1>2, <1>3, <2>1, <2>2, <2>3, OneSession
    <2>5. sessions'[id] = t
      BY <1>2, <2>4
    <2>6. ActiveOf(sessions') = ActiveOf(sessions) \ {id}
      BY <2>1, <2>4
    <2> QED BY <2>1, <2>4, <2>5, <2>6
  <1>7. ASSUME DonePrefill(s), NEW tok \in Token, sessions' = [sessions EXCEPT ![id] = Emitted(s, tok)]
        PROVE  /\ Sessions(sessions') /\ DOMAIN sessions' = DOMAIN sessions
               /\ \A i \in DOMAIN sessions : i # id => sessions'[i] = sessions[i]
               /\ id \in ActiveOf(sessions') => Ready(sessions'[id])
               /\ ActiveOf(sessions) \ {id} = ActiveOf(sessions') \ {id}
               /\ sessions'[id].processed = s.processed /\ sessions'[id].query = s.query
               /\ sessions'[id].generated = Append(s.generated, tok)
    <2> DEFINE t == Emitted(s, tok)
    <2>1. /\ t \in SessionType /\ t.id = s.id /\ t.processed = s.processed /\ t.query = s.query
          /\ t.status = s.status /\ Ready(t) /\ s.processed < Len(Text(t)) /\ Text(t) = Append(Text(s), tok)
      BY <1>2, <1>4, <1>7, SampledSession
    <2>2. t.generated = Append(s.generated, tok)
      BY <1>4 DEF Emitted, SessionType
    <2> HIDE DEF t
    <2>3. t.id = id /\ t.processed <= Len(Text(t))
      <3>1. Len(Text(t)) \in Nat
        BY <1>4, <2>1, AppendLast
      <3> QED BY <1>2, <1>4, <2>1, <3>1
    <2>4. sessions' = [sessions EXCEPT ![id] = t]
      BY <1>7 DEF t
    <2>5. /\ Sessions(sessions') /\ DOMAIN sessions' = DOMAIN sessions
          /\ \A i \in DOMAIN sessions : sessions'[i] = IF i = id THEN t ELSE sessions[i]
          /\ ActiveOf(sessions') = IF t.status = "completed" THEN ActiveOf(sessions) \ {id} ELSE ActiveOf(sessions) \cup {id}
      BY <1>2, <1>3, <2>1, <2>3, <2>4, OneSession
    <2>6. sessions'[id] = t
      BY <1>2, <2>5
    <2>7. ActiveOf(sessions') = ActiveOf(sessions) \cup {id}
      BY <1>4, <2>1, <2>5
    <2> QED BY <2>1, <2>2, <2>5, <2>6, <2>7
  <1>8. CASE DonePrefill(s) /\ \E tok \in Token :
                    sessions' = [sessions EXCEPT ![s.id] =
                      IF Ends(s, tok) THEN [s EXCEPT !.status = "completed"] ELSE Emitted(s, tok)]
    <2>1. PICK tok \in Token : sessions' = [sessions EXCEPT ![id] =
                      IF Ends(s, tok) THEN [s EXCEPT !.status = "completed"] ELSE Emitted(s, tok)]
      BY <1>2, <1>8
    <2>2. CASE Ends(s, tok)
      <3>1. sessions' = [sessions EXCEPT ![id] = [s EXCEPT !.status = "completed"]]
        BY <2>1, <2>2
      <3> QED BY <1>6, <1>8, <2>2, <3>1 DEF s, id
    <2>3. CASE ~Ends(s, tok)
      <3>1. sessions' = [sessions EXCEPT ![id] = Emitted(s, tok)]
        BY <2>1, <2>3
      <3> QED BY <1>7, <1>8, <3>1 DEF s, id
    <2> QED BY <2>2, <2>3
  <1> QED BY <1>1, <1>5, <1>8 DEF s, id

LEMMA SampleOrder ==
    ASSUME OrderInv, Sample
    PROVE  OrderInv'
  <1> DEFINE id == batch[next]
  <1>1. /\ pc = "sample" /\ next <= Len(batch) /\ pc' = pc /\ next' = next + 1
        /\ batch' = batch /\ lens' = lens /\ in_start' = in_start /\ shard' = shard
    BY DEF Sample
  <1>2. /\ Sessions(sessions') /\ DOMAIN sessions' = DOMAIN sessions
        /\ \A i \in DOMAIN sessions : i # id => sessions'[i] = sessions[i]
        /\ id \in ActiveOf(sessions') => Ready(sessions'[id])
        /\ ActiveOf(sessions) \ {id} = ActiveOf(sessions') \ {id}
    BY SampleDone
  <1>3. /\ next \in Nat \ {0} /\ Len(batch) \in Nat
        /\ Due(batch, next + 1) = Due(batch, next) \ {id} /\ id \in Due(batch, next)
    BY <1>1, DueFacts
  <1>4. /\ Due(batch, next) \subseteq ActiveOf(sessions)
        /\ \A i \in ActiveOf(sessions) : IF i \in Due(batch, next) THEN Stepped(sessions[i]) ELSE Ready(sessions[i])
        /\ Batched(sessions, batch, lens, in_start) /\ shard \in 1 .. NumShards /\ shard = 1
    BY <1>1 DEF OrderInv, SessionsInOrder, BatchInOrder, Loops
  <1> HIDE DEF id
  <1>5. SessionsInOrder'
    <2>1. Due(batch, next + 1) \subseteq ActiveOf(sessions')
      BY <1>2, <1>3, <1>4
    <2>2. ASSUME NEW i \in ActiveOf(sessions')
          PROVE  IF i \in Due(batch, next + 1) THEN Stepped(sessions'[i]) ELSE Ready(sessions'[i])
      <3>1. CASE i = id
        BY <1>2, <1>3, <2>2, <3>1
      <3>2. CASE i # id
        <4>1. i \in ActiveOf(sessions) /\ i \in DOMAIN sessions
          BY <1>2, <2>2, <3>2 DEF ActiveOf
        <4>2. sessions'[i] = sessions[i] /\ (i \in Due(batch, next + 1) <=> i \in Due(batch, next))
          BY <1>2, <1>3, <3>2, <4>1
        <4> QED BY <1>4, <4>1, <4>2
      <3> QED BY <3>1, <3>2
    <2> QED BY <1>1, <1>2, <2>1, <2>2 DEF SessionsInOrder
  <1>6. BatchInOrder'
    <2>1. Batched(sessions', batch, lens, in_start)
      BY <1>2, <1>4, BatchKept
    <2> QED BY <1>1, <2>1 DEF BatchInOrder
  <1>7. Loops'
    BY <1>1, <1>3, <1>4 DEF Loops
  <1> QED BY <1>5, <1>6, <1>7 DEF OrderInv

LEMMA CallbackThrowsOrder ==
    ASSUME OrderInv, CallbackThrows
    PROVE  OrderInv'
  <1> DEFINE id == batch[next]
             s == sessions[id]
  <1>1. /\ pc = "sample" /\ next <= Len(batch) /\ DonePrefill(s) /\ Throw
        /\ \E tok \in Token : sessions' = [sessions EXCEPT ![s.id] = Emitted(s, tok)]
    BY DEF CallbackThrows
  <1>2. id \in DOMAIN sessions /\ Stepped(s) /\ s.id = id /\ Sessions(sessions)
    BY <1>1, DueFacts DEF OrderInv, SessionsInOrder
  <1>3. /\ s \in SessionType /\ s.query \in Seq(Token) /\ s.generated \in Seq(Token) /\ s.processed \in Nat
        /\ Text(s) \in Seq(Token)
    BY <1>2, SessionFacts
  <1> HIDE DEF id, s
  <1>4. PICK tok \in Token : sessions' = [sessions EXCEPT ![id] = Emitted(s, tok)]
    BY <1>1, <1>2
  <1> DEFINE t == Emitted(s, tok)
  <1>5. /\ t \in SessionType /\ t.id = s.id /\ t.processed = s.processed /\ s.processed < Len(Text(t))
        /\ Text(t) = Append(Text(s), tok)
    BY <1>1, <1>2, <1>3, SampledSession
  <1> HIDE DEF t
  <1>6. t.id = id /\ t.processed <= Len(Text(t))
    <2>1. Len(Text(t)) \in Nat
      BY <1>3, <1>5, AppendLast
    <2> QED BY <1>2, <1>3, <1>5, <2>1
  <1>7. Sessions(sessions')
    BY <1>2, <1>4, <1>5, <1>6, OneSession DEF t
  <1> QED BY <1>1, <1>7, ThrowOrder

LEMMA ReleaseAndCompactOrder ==
    ASSUME OrderInv, ReleaseAndCompact
    PROVE  OrderInv'
  <1>1. /\ pc = "sample" /\ next > Len(batch) /\ pc' = "pick" /\ sessions' = sessions
        /\ batch' = <<>> /\ lens' = <<>> /\ shard' = 1 /\ next' = 1
    BY DEF ReleaseAndCompact, NoStep
  <1>2. /\ Sessions(sessions) /\ next \in 1 .. Len(batch) + 1 /\ Batched(sessions, batch, lens, in_start)
        /\ \A i \in ActiveOf(sessions) : IF i \in Due(batch, next) THEN Stepped(sessions[i]) ELSE Ready(sessions[i])
    BY <1>1 DEF OrderInv, SessionsInOrder, BatchInOrder, Loops
  <1>3. Due(batch, next) = {}
    <2>1. Len(batch) \in Nat
      BY <1>2 DEF Batched
    <2> QED BY <1>1, <1>2, <2>1 DEF Due
  <1>4. SessionsInOrder'
    BY <1>1, <1>2, <1>3 DEF SessionsInOrder
  <1>5. BatchInOrder'
    BY <1>1, NoBatch DEF BatchInOrder
  <1>6. Loops'
    BY <1>1, ShardPositive DEF Loops
  <1> QED BY <1>4, <1>5, <1>6 DEF OrderInv

LEMMA MoveKVBufferOrder ==
    ASSUME OrderInv, MoveKVBuffer
    PROVE  OrderInv'
  <1>1. UNCHANGED orderVars
    BY DEF MoveKVBuffer, step, orderVars
  <1> QED BY <1>1, OrderUnchanged

LEMMA NextOrder ==
    ASSUME OrderInv, [Next]_vars
    PROVE  OrderInv'
  <1>1. ASSUME NEW m \in MaxTokens, AddSession(m) PROVE OrderInv'
    BY <1>1, AddSessionOrder
  <1>2. ASSUME NEW reset \in BOOLEAN, NewScheduler(reset) PROVE OrderInv'
    BY <1>2, NewSchedulerOrder
  <1>3. CASE BatchStep
    BY <1>3, IdleOrder, PickOrder, PrepareOrder, MoveKVBufferOrder, RunShardOrder, ExecuteFailsOrder,
       UpdateOrder, SampleOrder, CallbackThrowsOrder, ReleaseAndCompactOrder DEF BatchStep
  <1>4. CASE GenerateBatch
    BY <1>4, IdleOrder
  <1>5. CASE UNCHANGED vars
    <2>1. UNCHANGED orderVars
      BY <1>5 DEF vars, orderVars
    <2> QED BY <2>1, OrderUnchanged
  <1> QED BY <1>1, <1>2, <1>3, <1>4, <1>5 DEF Next

LEMMA OrderAlways == Spec => []OrderInv
  <1>1. OrderInv /\ [Next]_vars => OrderInv'
    BY NextOrder
  <1> QED BY InitOrder, <1>1, PTL DEF Spec

\* A slice of one token.
LEMMA OneToken ==
    ASSUME NEW S, NEW s \in Seq(S), NEW n \in 1 .. Len(s)
    PROVE  SubSeq(s, n, n) = <<s[n]>>
  <1>1. /\ n \in Nat \ {0} /\ n \in Nat /\ n <= Len(s) /\ n <= n
    OBVIOUS
  <1> DEFINE t == SubSeq(s, n, n)
  <1>2. t \in Seq(S) /\ Len(t) = n - n + 1 /\ \A i \in 1 .. n - n + 1 : t[i] = s[n + i - 1]
    BY <1>1, Slice
  <1> HIDE DEF t
  <1>3. Len(t) = 1 /\ t[1] = s[n]
    BY <1>1, <1>2
  <1>4. t = [i \in 1 .. 1 |-> t[i]]
    BY SMTT(40), <1>2, <1>3
  <1>5. t = <<t[1]>>
    BY <1>4
  <1> QED BY <1>3, <1>5 DEF t

LEMMA FedInBatch ==
    ASSUME OrderInv
    PROVE  FedInOrder
  <1> SUFFICES ASSUME pc = "prepare", NEW id \in DOMAIN lens
               PROVE  LET s == sessions[id]
                      IN  Fed(s) = SubSeq(s.query \o s.generated, s.processed + 1, s.processed + lens[id])
    BY DEF FedInOrder
  <1> DEFINE s == sessions[id]
             p == s.processed
             l == lens[id]
  <1>1. /\ Sessions(sessions) /\ Batched(sessions, batch, lens, in_start) /\ Wanted(sessions, lens)
        /\ \A i \in ActiveOf(sessions) : Ready(sessions[i])
    BY DEF OrderInv, SessionsInOrder, BatchInOrder
  <1>2. id \in DOMAIN sessions /\ l \in Nat \ {0} /\ l <= Want(s) /\ Ready(s)
    BY <1>1 DEF Batched, Wanted
  <1>3. /\ s.id = id /\ s.query \in Seq(Token) /\ s.generated \in Seq(Token) /\ p \in Nat
        /\ Text(s) \in Seq(Token) /\ Len(Text(s)) = Len(s.query) + Len(s.generated)
        /\ Len(s.query) \in Nat /\ Len(s.generated) \in Nat
    BY <1>1, <1>2, SessionFacts
  <1> HIDE DEF s
  <1>4. CASE Prefilling(s)
    <2>1. Fed(s) = SubSeq(s.query, p + 1, p + l)
      BY <1>3, <1>4 DEF Fed
    <2>2. s.generated = <<>>
      BY <1>2, <1>4 DEF Ready
    <2>3. s.query \o s.generated = s.query
      BY <1>3, <2>2, ConcatEmptySeq
    <2> QED BY <2>1, <2>3 DEF s
  <1>5. CASE ~ Prefilling(s)
    <2>1. Fed(s) = <<s.pending>> /\ Want(s) = 1
      BY <1>5 DEF Fed, Want
    <2>2. s.generated # <<>> /\ s.pending = Last(s.generated) /\ p + 1 = Len(Text(s))
      BY <1>2, <1>5 DEF Ready
    <2>3. l = 1
      BY <1>2, <2>1
    <2> DEFINE q == s.query
               g == s.generated
               x == Text(s)
               n == p + 1
    <2>4. /\ q \in Seq(Token) /\ g \in Seq(Token) /\ g # <<>> /\ x = q \o g /\ x \in Seq(Token)
          /\ n = Len(x) /\ s.pending = Last(g) /\ Len(x) = Len(q) + Len(g)
      BY <1>3, <2>2 DEF Text
    <2> HIDE DEF q, g, x, n
    <2>5. n \in 1 .. Len(x) /\ x[n] = s.pending
      <3>1. Len(q) \in Nat /\ Len(g) \in Nat \ {0}
        BY <2>4, EmptySeq
      <3>2. \A i \in 1 .. Len(q) + Len(g) : (q \o g)[i] = IF i <= Len(q) THEN q[i] ELSE g[i - Len(q)]
        BY <2>4, ConcatProperties
      <3>3. n \in 1 .. Len(q) + Len(g) /\ ~ (n <= Len(q)) /\ n - Len(q) = Len(g)
        BY <2>4, <3>1
      <3> QED BY <2>4, <3>2, <3>3 DEF Last
    <2>6. SubSeq(x, n, n) = <<s.pending>>
      BY <2>4, <2>5, OneToken
    <2> QED BY <2>1, <2>3, <2>6 DEF s, Text, x, n
  <1> QED BY <1>4, <1>5

\* A session in a batch is fed the tokens that follow those it has processed: the next of
\* its prompt, and then the token it sampled last.
THEOREM FedNextTokens == Spec => []FedInOrder
  BY OrderAlways, FedInBatch, PTL
-----------------------------------------------------------------------------
(* The segments of KVCacheManager.                                         *)

Growths(segs, growth) == [i \in DOMAIN segs |-> Growth(segs, growth, i)]

LEMMA SegmentFacts ==
    ASSUME NEW segs, segs \in Seq(SegmentType), NEW growth, NatValued(growth)
    PROVE  /\ Len(segs) \in Nat /\ DOMAIN segs = 1 .. Len(segs)
           /\ \A i \in DOMAIN segs : /\ segs[i] \in SegmentType /\ segs[i].start \in Nat /\ segs[i].length \in Nat
                                     /\ segs[i].id \in SessionId /\ Growth(segs, growth, i) \in Nat
           /\ Lengths(segs) \in [1 .. Len(segs) -> Nat] /\ NatValued(Lengths(segs))
           /\ Growths(segs, growth) \in [1 .. Len(segs) -> Nat] /\ NatValued(Growths(segs, growth))
           /\ Widths(segs, growth) \in [1 .. Len(segs) -> Nat] /\ NatValued(Widths(segs, growth))
           /\ \A i \in DOMAIN segs : /\ At(Lengths(segs), i) = segs[i].length
                                     /\ At(Growths(segs, growth), i) = Growth(segs, growth, i)
                                     /\ At(Widths(segs, growth), i) = segs[i].length + Growth(segs, growth, i)
                                     /\ Widths(segs, growth)[i] = segs[i].length + Growth(segs, growth, i)
                                     /\ Lengths(segs)[i] = segs[i].length
  <1>1. Len(segs) \in Nat /\ DOMAIN segs = 1 .. Len(segs)
    OBVIOUS
  <1>2. ASSUME NEW i \in DOMAIN segs
        PROVE  /\ segs[i] \in SegmentType /\ segs[i].start \in Nat /\ segs[i].length \in Nat
               /\ segs[i].id \in SessionId /\ Growth(segs, growth, i) \in Nat
    <2>1. segs[i] \in SegmentType
      OBVIOUS
    <2>2. segs[i].start \in Nat /\ segs[i].length \in Nat /\ segs[i].id \in SessionId
      BY <2>1 DEF SegmentType
    <2>3. Growth(segs, growth, i) \in Nat
      BY DEF Growth, NatValued
    <2> QED BY <2>1, <2>2, <2>3
  <1>3. Lengths(segs) \in [1 .. Len(segs) -> Nat]
    BY <1>1, <1>2 DEF Lengths
  <1>4. Growths(segs, growth) \in [1 .. Len(segs) -> Nat]
    BY <1>1, <1>2 DEF Growths
  <1>5. Widths(segs, growth) \in [1 .. Len(segs) -> Nat]
    BY <1>1, <1>2 DEF Widths
  <1>6. NatValued(Lengths(segs)) /\ NatValued(Growths(segs, growth)) /\ NatValued(Widths(segs, growth))
    BY <1>3, <1>4, <1>5 DEF NatValued
  <1>7. ASSUME NEW i \in DOMAIN segs
        PROVE  /\ At(Lengths(segs), i) = segs[i].length
               /\ At(Growths(segs, growth), i) = Growth(segs, growth, i)
               /\ At(Widths(segs, growth), i) = segs[i].length + Growth(segs, growth, i)
               /\ Widths(segs, growth)[i] = segs[i].length + Growth(segs, growth, i)
               /\ Lengths(segs)[i] = segs[i].length
    BY DEF At, Lengths, Growths, Widths
  <1> QED BY <1>1, <1>2, <1>3, <1>4, <1>5, <1>6, <1>7

\* What the widths up to a place add up to.
LEMMA WidthsAdd ==
    ASSUME NEW segs, segs \in Seq(SegmentType), NEW growth, NatValued(growth), NEW n \in 0 .. Len(segs)
    PROVE  /\ SumUpTo(Widths(segs, growth), n) = SumUpTo(Lengths(segs), n) + SumUpTo(Growths(segs, growth), n)
           /\ SumUpTo(Lengths(segs), n) \in Nat /\ SumUpTo(Growths(segs, growth), n) \in Nat
           /\ SumUpTo(Widths(segs, growth), n) \in Nat
  <1> DEFINE f == Lengths(segs)
             g == Growths(segs, growth)
             h == Widths(segs, growth)
  <1>1. NatValued(f) /\ NatValued(g) /\ NatValued(h) /\ n \in Nat
    BY SegmentFacts
  <1>2. \A i \in 1 .. n : At(h, i) = At(f, i) + At(g, i)
    <2> SUFFICES ASSUME NEW i \in 1 .. n PROVE At(h, i) = At(f, i) + At(g, i)
      OBVIOUS
    <2>1. i \in DOMAIN segs
      OBVIOUS
    <2>2. /\ At(f, i) = segs[i].length /\ At(g, i) = Growth(segs, growth, i)
          /\ At(h, i) = segs[i].length + Growth(segs, growth, i)
      BY <2>1, SegmentFacts
    <2> HIDE DEF f, g, h
    <2> QED BY <2>2
  <1> HIDE DEF f, g, h
  <1>3. SumUpTo(h, n) = SumUpTo(f, n) + SumUpTo(g, n)
    BY <1>1, <1>2, SumAdds
  <1>4. SumUpTo(f, n) \in Nat /\ SumUpTo(g, n) \in Nat /\ SumUpTo(h, n) \in Nat
    BY <1>1, SumFacts
  <1> QED BY <1>3, <1>4 DEF f, g, h

\* Shifted segments lie one behind the other, each with room for what it grows by.
LEMMA ShiftedAreSums ==
    ASSUME NEW segs, segs \in Seq(SegmentType), NEW growth, NatValued(growth),
           \A i \in DOMAIN segs : segs[i].length > 0 => segs[i].start = SumUpTo(Lengths(segs), i - 1)
    PROVE  ShiftedStarts(segs, growth) = [i \in DOMAIN segs |-> SumUpTo(Widths(segs, growth), i - 1)]
  <1> DEFINE n == Len(segs)
             w == Widths(segs, growth)
             value(f, i) == IF segs[i].length > 0 THEN segs[i].start + Shift(segs, growth, i)
                            ELSE IF i = 1 THEN 0
                            ELSE f[i - 1] + segs[i - 1].length + Growth(segs, growth, i - 1)
             Is(f) == f = [i \in DOMAIN segs |-> value(f, i)]
             shifted == CHOOSE f : Is(f)
             g == [i \in DOMAIN segs |-> SumUpTo(w, i - 1)]
  <1>1. n \in Nat /\ DOMAIN segs = 1 .. n /\ NatValued(w)
    BY SegmentFacts
  <1>2. ShiftedStarts(segs, growth) = shifted
    BY DEF ShiftedStarts
  <1>3. ASSUME NEW i \in 1 .. n, segs[i].length > 0
        PROVE  segs[i].start + Shift(segs, growth, i) = SumUpTo(w, i - 1)
    <2>1. i - 1 \in 0 .. n
      BY <1>1
    <2>2. Shift(segs, growth, i) = SumUpTo(Growths(segs, growth), i - 1)
      BY DEF Shift, Growths
    <2>3. segs[i].start = SumUpTo(Lengths(segs), i - 1)
      BY <1>1, <1>3
    <2> QED BY <2>1, <2>2, <2>3, WidthsAdd
  <1>4. ASSUME NEW i \in 1 .. n, i # 1
        PROVE  /\ i - 1 \in 1 .. n
               /\ SumUpTo(w, (i - 1) - 1) + segs[i - 1].length + Growth(segs, growth, i - 1) = SumUpTo(w, i - 1)
    <2>1. i - 1 \in 1 .. n /\ i - 1 \in DOMAIN segs /\ (i - 1) - 1 \in Nat /\ ((i - 1) - 1) + 1 = i - 1
      BY <1>1, <1>4
    <2>2. SumUpTo(w, i - 1) = SumUpTo(w, (i - 1) - 1) + At(w, i - 1) /\ SumUpTo(w, (i - 1) - 1) \in Nat
      BY <1>1, <2>1, SumAround
    <2>3. At(w, i - 1) = segs[i - 1].length + Growth(segs, growth, i - 1)
      BY <2>1, SegmentFacts
    <2>4. segs[i - 1].length \in Nat /\ Growth(segs, growth, i - 1) \in Nat
      BY <2>1, SegmentFacts
    <2> QED BY <2>1, <2>2, <2>3, <2>4
  <1>5. SumUpTo(w, 0) = 0
    BY <1>1, SumFacts
  <1>6. Is(g)
    <2>1. ASSUME NEW i \in DOMAIN segs PROVE g[i] = value(g, i)
      <3>1. CASE segs[i].length > 0
        BY <1>1, <1>3, <3>1
      <3>2. CASE ~ (segs[i].length > 0) /\ i = 1
        <4>1. g[i] = SumUpTo(w, 0)
          BY <3>2
        <4> QED BY <1>5, <3>2, <4>1
      <3>3. CASE ~ (segs[i].length > 0) /\ i # 1
        <4>1. i - 1 \in DOMAIN segs
          BY <1>1, <1>4, <3>3
        <4>2. g[i - 1] = SumUpTo(w, (i - 1) - 1) /\ g[i] = SumUpTo(w, i - 1)
          BY <4>1
        <4> HIDE DEF g, w
        <4> QED BY <1>1, <1>4, <3>3, <4>2
      <3> QED BY <3>1, <3>2, <3>3
    <2> QED BY <2>1
  <1>7. Is(shifted)
    <2> HIDE DEF Is, g
    <2> QED BY <1>6
  <1>8. shifted = [i \in DOMAIN segs |-> shifted[i]] /\ \A i \in 1 .. n : shifted[i] = value(shifted, i)
    <2> HIDE DEF shifted
    <2> QED BY <1>1, <1>7
  <1> HIDE DEF shifted, w, Is
  <1> DEFINE S == {m \in Nat : m \in 1 .. n => shifted[m] = SumUpTo(w, m - 1)}
  <1>9. 0 \in S
    BY <1>1
  <1>10. ASSUME NEW m \in Nat, m \in S PROVE m + 1 \in S
    <2> SUFFICES ASSUME m + 1 \in 1 .. n PROVE shifted[m + 1] = SumUpTo(w, (m + 1) - 1)
      OBVIOUS
    <2>1. shifted[m + 1] = value(shifted, m + 1)
      BY <1>8
    <2>2. CASE segs[m + 1].length > 0
      BY <1>3, <2>1, <2>2
    <2>3. CASE ~ (segs[m + 1].length > 0) /\ m = 0
      BY <1>5, <2>1, <2>3
    <2>4. CASE ~ (segs[m + 1].length > 0) /\ m # 0
      <3>1. m \in 1 .. n /\ (m + 1) - 1 = m /\ m + 1 # 1
        BY <1>1, <2>4
      <3>2. shifted[m] = SumUpTo(w, m - 1)
        BY <1>10, <3>1
      <3>3. value(shifted, m + 1) = shifted[m] + segs[m].length + Growth(segs, growth, m)
        BY <2>4, <3>1
      <3>4. SumUpTo(w, m - 1) + segs[m].length + Growth(segs, growth, m) = SumUpTo(w, m)
        <4>1. \A i \in 1 .. n : i # 1 => SumUpTo(w, (i - 1) - 1) + segs[i - 1].length + Growth(segs, growth, i - 1) = SumUpTo(w, i - 1)
          BY <1>4
        <4> HIDE DEF S, g, value, n
        <4>2. SumUpTo(w, ((m + 1) - 1) - 1) + segs[(m + 1) - 1].length + Growth(segs, growth, (m + 1) - 1) = SumUpTo(w, (m + 1) - 1)
          BY <3>1, <4>1
        <4> QED BY <3>1, <4>2
      <3> HIDE DEF value
      <3> QED BY <2>1, <3>1, <3>2, <3>3, <3>4
    <2> QED BY <2>2, <2>3, <2>4
  <1> HIDE DEF S
  <1>11. ASSUME NEW i \in DOMAIN segs PROVE shifted[i] = SumUpTo(w, i - 1)
    <2>1. i \in S /\ i \in 1 .. n
      BY <1>1, <1>9, <1>10, Induction
    <2> QED BY <2>1 DEF S
  <1> HIDE DEF value
  <1> QED BY <1>2, <1>8, <1>11 DEF w

\* So do compacted ones, without any room.
LEMMA CompactedAreSums ==
    ASSUME NEW segs, segs \in Seq(SegmentType), \A i \in DOMAIN segs : segs[i].length > 0
    PROVE  CompactStarts(segs) = [i \in DOMAIN segs |-> SumUpTo(Lengths(segs), i - 1)]
  <1> DEFINE n == Len(segs)
             w == Lengths(segs)
             value(f, i) == IF segs[i].length = 0 THEN segs[i].start
                            ELSE IF i = 1 THEN 0 ELSE f[i - 1] + segs[i - 1].length
             Is(f) == f = [i \in DOMAIN segs |-> value(f, i)]
             compact == CHOOSE f : Is(f)
             g == [i \in DOMAIN segs |-> SumUpTo(w, i - 1)]
             none == <<>>
  <1>0. NatValued(none)
    BY DEF NatValued
  <1>1. n \in Nat /\ DOMAIN segs = 1 .. n /\ NatValued(w)
        /\ \A i \in 1 .. n : segs[i].length \in Nat /\ At(w, i) = segs[i].length
    <2> HIDE DEF none
    <2> QED BY ZenonT(40), <1>0, SegmentFacts
  <1>2. CompactStarts(segs) = compact
    BY DEF CompactStarts
  <1>3. ASSUME NEW i \in 1 .. n PROVE segs[i].length # 0
    BY <1>1
  <1>4. ASSUME NEW i \in 1 .. n, i # 1
        PROVE  i - 1 \in 1 .. n /\ SumUpTo(w, (i - 1) - 1) + segs[i - 1].length = SumUpTo(w, i - 1)
    <2>1. i - 1 \in 1 .. n
      BY <1>1, <1>4
    <2>2. SumUpTo(w, i - 1) = SumUpTo(w, (i - 1) - 1) + At(w, i - 1)
      BY <1>1, <2>1, SumAround
    <2> QED BY <1>1, <2>1, <2>2
  <1>5. SumUpTo(w, 0) = 0
    BY <1>1, SumFacts
  <1>6. Is(g)
    <2>1. ASSUME NEW i \in DOMAIN segs PROVE g[i] = value(g, i)
      <3>2. CASE i = 1
        <4>1. g[i] = SumUpTo(w, 0)
          BY <3>2
        <4> QED BY <1>1, <1>3, <1>5, <3>2, <4>1
      <3>3. CASE i # 1
        <4>1. i - 1 \in DOMAIN segs
          BY <1>1, <1>4, <3>3
        <4>2. g[i - 1] = SumUpTo(w, (i - 1) - 1) /\ g[i] = SumUpTo(w, i - 1)
          BY <4>1
        <4> HIDE DEF g, w
        <4> QED BY <1>1, <1>3, <1>4, <3>3, <4>2
      <3> QED BY <3>2, <3>3
    <2> QED BY <2>1
  <1>7. Is(compact)
    <2> HIDE DEF Is, g
    <2> QED BY <1>6
  <1>8. compact = [i \in DOMAIN segs |-> compact[i]] /\ \A i \in 1 .. n : compact[i] = value(compact, i)
    <2> HIDE DEF compact
    <2> QED BY <1>1, <1>7
  <1> HIDE DEF compact, w, Is
  <1> DEFINE S == {m \in Nat : m \in 1 .. n => compact[m] = SumUpTo(w, m - 1)}
  <1>9. 0 \in S
    BY <1>1
  <1>10. ASSUME NEW m \in Nat, m \in S PROVE m + 1 \in S
    <2> SUFFICES ASSUME m + 1 \in 1 .. n PROVE compact[m + 1] = SumUpTo(w, (m + 1) - 1)
      OBVIOUS
    <2>1. compact[m + 1] = value(compact, m + 1)
      BY <1>8
    <2>2. CASE m = 0
      BY <1>3, <1>5, <2>1, <2>2
    <2>3. CASE m # 0
      <3>1. m \in 1 .. n /\ (m + 1) - 1 = m /\ m + 1 # 1
        BY <1>1, <2>3
      <3>2. compact[m] = SumUpTo(w, m - 1)
        BY <1>10, <3>1
      <3>3. value(compact, m + 1) = compact[m] + segs[m].length
        BY <1>3, <3>1
      <3>4. SumUpTo(w, m - 1) + segs[m].length = SumUpTo(w, m)
        <4>1. \A i \in 1 .. n : i # 1 => SumUpTo(w, (i - 1) - 1) + segs[i - 1].length = SumUpTo(w, i - 1)
          BY <1>4
        <4> HIDE DEF S, g, value, n
        <4>2. SumUpTo(w, ((m + 1) - 1) - 1) + segs[(m + 1) - 1].length = SumUpTo(w, (m + 1) - 1)
          BY <3>1, <4>1
        <4> QED BY <3>1, <4>2
      <3> HIDE DEF value
      <3> QED BY <2>1, <3>1, <3>2, <3>3, <3>4
    <2> QED BY <2>2, <2>3
  <1> HIDE DEF S
  <1>11. ASSUME NEW i \in DOMAIN segs PROVE compact[i] = SumUpTo(w, i - 1)
    <2>1. i \in S /\ i \in 1 .. n
      BY SMTT(40), <1>1, <1>9, <1>10, Induction
    <2> QED BY <2>1 DEF S
  <1> HIDE DEF value
  <1> QED BY <1>2, <1>8, <1>11 DEF w

\* The moves of a list of segments: ix[k] is the segment of the k-th.
Moving(segs, start, i) == start[i] # segs[i].start /\ segs[i].length > 0

MovesOf(mv, segs, start, ix) ==
    /\ ix \in [1 .. Len(mv) -> DOMAIN segs]
    /\ \A k \in 1 .. Len(mv) :
         /\ Moving(segs, start, ix[k])
         /\ mv[k] = [src |-> segs[ix[k]].start, dst |-> start[ix[k]], len |-> segs[ix[k]].length]
    /\ \A i \in DOMAIN segs : Moving(segs, start, i) => \E k \in 1 .. Len(mv) : ix[k] = i

LEMMA MovesFacts ==
    ASSUME NEW segs, segs \in Seq(SegmentType), NEW start \in [DOMAIN segs -> Nat],
           NEW order, order \in Seq(DOMAIN segs), \A i \in DOMAIN segs : \E k \in DOMAIN order : order[k] = i
    PROVE  LET mv == Moves(segs, start, order)
           IN  /\ mv \in Seq(MoveType)
               /\ \E ix, px : /\ MovesOf(mv, segs, start, ix)
                              /\ px \in [1 .. Len(mv) -> DOMAIN order]
                              /\ \A k \in 1 .. Len(mv) : ix[k] = order[px[k]]
                              /\ \A k, l \in 1 .. Len(mv) : k < l => px[k] < px[l]
  <1> DEFINE K == {k \in DOMAIN order : Moving(segs, start, order[k])}
             it == Those(order, K)
             move(i) == [src |-> segs[i].start, dst |-> start[i], len |-> segs[i].length]
             mv == Moves(segs, start, order)
             ix == [k \in 1 .. Len(mv) |-> it[k]]
  <1>1. mv = [k \in DOMAIN it |-> move(it[k])]
    <2>1. K = {k \in DOMAIN order : LET i == order[k] IN start[i] # segs[i].start /\ segs[i].length > 0}
      BY DEF Moving
    <2> QED BY <2>1 DEF Moves
  <1>2. it \in Seq(DOMAIN segs) /\ \E px : PickedBy(it, order, K, px)
    <2> HIDE DEF K
    <2> QED BY ThosePicked
  <1>3. PICK px : PickedBy(it, order, K, px)
    BY <1>2
  <1> HIDE DEF it
  <1>4. Len(it) \in Nat /\ DOMAIN it = 1 .. Len(it) /\ \A k \in 1 .. Len(it) : it[k] \in DOMAIN segs
    BY SMTT(40), <1>2
  <1>5. /\ px \in [1 .. Len(it) -> DOMAIN order]
        /\ \A q \in 1 .. Len(it) : px[q] \in K /\ it[q] = order[px[q]]
        /\ \A p, q \in 1 .. Len(it) : p < q => px[p] < px[q]
        /\ \A k \in DOMAIN order : k \in K => \E q \in 1 .. Len(it) : px[q] = k
    BY <1>3 DEF PickedBy
  <1>6. ASSUME NEW k \in 1 .. Len(it) PROVE Moving(segs, start, it[k]) /\ it[k] \in DOMAIN segs
    BY <1>4, <1>5
  <1>7. ASSUME NEW k \in 1 .. Len(it) PROVE move(it[k]) \in MoveType
    <2>1. segs[it[k]] \in SegmentType /\ segs[it[k]].length > 0 /\ start[it[k]] \in Nat
      BY SMTT(40), <1>6 DEF Moving
    <2>2. segs[it[k]].start \in Nat /\ segs[it[k]].length \in Nat \ {0}
      <3> DEFINE seg == segs[it[k]]
      <3>1. seg \in SegmentType /\ seg.length > 0
        BY <2>1
      <3> HIDE DEF seg
      <3>2. seg.start \in Nat /\ seg.length \in Nat
        BY <3>1 DEF SegmentType
      <3>3. seg.length # 0
        BY <3>1, <3>2
      <3> QED BY <3>2, <3>3 DEF seg
    <2> QED BY <2>1, <2>2 DEF MoveType
  <1>8. mv \in Seq(MoveType) /\ Len(mv) = Len(it) /\ \A k \in 1 .. Len(it) : mv[k] = move(it[k])
    <2> HIDE DEF mv, move
    <2> QED BY <1>1, <1>4, <1>7
  <1>9. ix \in [1 .. Len(mv) -> DOMAIN segs] /\ \A k \in 1 .. Len(mv) : ix[k] = it[k]
    <2> HIDE DEF mv
    <2> QED BY <1>4, <1>8
  <1> HIDE DEF mv, ix
  <1>10. ASSUME NEW i \in DOMAIN segs, Moving(segs, start, i) PROVE \E k \in 1 .. Len(mv) : ix[k] = i
    <2>1. PICK k \in DOMAIN order : order[k] = i
      OBVIOUS
    <2>2. k \in K
      BY <1>10, <2>1
    <2>3. PICK q \in 1 .. Len(it) : px[q] = k
      BY <1>5, <2>2
    <2> QED BY <1>5, <1>8, <1>9, <2>1, <2>3
  <1>11. MovesOf(mv, segs, start, ix)
    BY <1>6, <1>8, <1>9, <1>10 DEF MovesOf
  <1>12. /\ px \in [1 .. Len(mv) -> DOMAIN order] /\ \A k \in 1 .. Len(mv) : ix[k] = order[px[k]]
         /\ \A k, l \in 1 .. Len(mv) : k < l => px[k] < px[l]
    BY <1>5, <1>8, <1>9
  <1> QED BY <1>8, <1>11, <1>12 DEF mv

\* Segments that are not empty lie apart at these places, in their order.
Apart(segs, at) ==
    \A i, j \in DOMAIN segs :
        i < j /\ segs[i].length > 0 /\ segs[j].length > 0 => at[i] + segs[i].length <= at[j]
Starts(segs) == [i \in DOMAIN segs |-> segs[i].start]

\* Moves to the right from the right, and to the left from the left, keep what is still
\* to be moved.
LEMMA MovesApart ==
    ASSUME NEW segs, segs \in Seq(SegmentType), NEW start \in [DOMAIN segs -> Nat], NEW kv_len \in Nat,
           Apart(segs, Starts(segs)), Apart(segs, start),
           \A i \in DOMAIN segs : Moving(segs, start, i) => segs[i].start + segs[i].length <= kv_len,
           NEW mv, mv \in Seq(MoveType), NEW ix, MovesOf(mv, segs, start, ix),
           \/ /\ \A k, l \in 1 .. Len(mv) : k < l => ix[l] < ix[k]
              /\ \A i \in DOMAIN segs : Moving(segs, start, i) => segs[i].start <= start[i]
           \/ /\ \A k, l \in 1 .. Len(mv) : k < l => ix[k] < ix[l]
              /\ \A i \in DOMAIN segs : Moving(segs, start, i) => start[i] <= segs[i].start
    PROVE  MovesLeft(mv, WithStarts(segs, start), kv_len)
  <1> DEFINE to == WithStarts(segs, start)
  <1>1. DOMAIN to = DOMAIN segs /\ \A i \in DOMAIN segs : to[i].start = start[i] /\ to[i].length = segs[i].length
    <2>1. \A i \in DOMAIN segs : segs[i] \in SegmentType
      OBVIOUS
    <2> QED BY <2>1 DEF WithStarts, SegmentType
  <1> HIDE DEF to
  <1>2. ASSUME NEW k \in 1 .. Len(mv)
        PROVE  /\ ix[k] \in DOMAIN segs /\ Moving(segs, start, ix[k])
               /\ mv[k].src = segs[ix[k]].start /\ mv[k].dst = start[ix[k]] /\ mv[k].len = segs[ix[k]].length
               /\ segs[ix[k]].start \in Nat /\ segs[ix[k]].length \in Nat /\ segs[ix[k]].length > 0
               /\ start[ix[k]] \in Nat
    <2>1. /\ ix[k] \in DOMAIN segs /\ Moving(segs, start, ix[k])
          /\ mv[k] = [src |-> segs[ix[k]].start, dst |-> start[ix[k]], len |-> segs[ix[k]].length]
      BY DEF MovesOf
    <2>2. segs[ix[k]] \in SegmentType
      BY <2>1
    <2>3. segs[ix[k]].start \in Nat /\ segs[ix[k]].length \in Nat
      BY <2>2 DEF SegmentType
    <2>4. segs[ix[k]].length > 0
      BY <2>1 DEF Moving
    <2> QED BY <2>1, <2>3, <2>4
  <1>3. DOMAIN mv = 1 .. Len(mv)
    OBVIOUS
  <1>4. ASSUME NEW k \in DOMAIN mv
        PROVE  mv[k].src + mv[k].len <= kv_len /\ \E i \in DOMAIN to : Brings(mv[k], to[i])
    <2>1. ix[k] \in DOMAIN to /\ mv[k].dst = to[ix[k]].start /\ mv[k].len = to[ix[k]].length
      BY <1>1, <1>2, <1>3
    <2> QED BY <1>2, <1>3, <2>1 DEF Brings
  <1>5. ASSUME NEW k \in DOMAIN mv, NEW l \in DOMAIN mv, k < l
        PROVE  /\ mv[k].dst # mv[l].dst
               /\ mv[k].dst + mv[k].len <= mv[l].src \/ mv[l].src + mv[l].len <= mv[k].dst
    <2> DEFINE i == ix[k]
               j == ix[l]
               ns(x) == start[x]
               os(x) == segs[x].start
               le(x) == segs[x].length
    <2>1. /\ i \in DOMAIN segs /\ j \in DOMAIN segs
          /\ mv[k].dst = ns(i) /\ mv[k].src = os(i) /\ mv[k].len = le(i)
          /\ mv[l].dst = ns(j) /\ mv[l].src = os(j) /\ mv[l].len = le(j)
          /\ ns(i) \in Nat /\ os(i) \in Nat /\ le(i) \in Nat /\ le(i) > 0
          /\ ns(j) \in Nat /\ os(j) \in Nat /\ le(j) \in Nat /\ le(j) > 0
          /\ Moving(segs, start, i) /\ Moving(segs, start, j)
      BY <1>2, <1>3
    <2>2. ASSUME NEW x \in DOMAIN segs, NEW y \in DOMAIN segs, x < y, le(x) > 0, le(y) > 0
          PROVE  os(x) + le(x) <= os(y) /\ ns(x) + le(x) <= ns(y)
      BY <2>2 DEF Apart, Starts
    <2>3. \/ j < i /\ os(i) <= ns(i)
          \/ i < j /\ ns(i) <= os(i)
      BY <1>3, <1>5, <2>1
    <2> HIDE DEF i, j, ns, os, le
    <2>4. CASE j < i /\ os(i) <= ns(i)
      <3>1. os(j) + le(j) <= os(i) /\ ns(j) + le(j) <= ns(i)
        BY <2>1, <2>2, <2>4
      <3>2. os(j) + le(j) <= ns(i) /\ ns(i) # ns(j)
        BY SMTT(40), <2>1, <2>4, <3>1
      <3> QED BY <2>1, <3>2
    <2>5. CASE i < j /\ ns(i) <= os(i)
      <3>1. os(i) + le(i) <= os(j) /\ ns(i) + le(i) <= ns(j)
        BY <2>1, <2>2, <2>5
      <3>2. ns(i) + le(i) <= os(j) /\ ns(i) # ns(j)
        BY SMTT(40), <2>1, <2>5, <3>1
      <3> QED BY <2>1, <3>2
    <2> QED BY <2>3, <2>4, <2>5
  <1> QED BY <1>4, <1>5 DEF MovesLeft, to

LEMMA LeftToRightFacts ==
    ASSUME NEW segs, segs \in Seq(SegmentType)
    PROVE  /\ LeftToRight(segs) \in Seq(DOMAIN segs) /\ DOMAIN LeftToRight(segs) = DOMAIN segs
           /\ \A k \in DOMAIN segs : LeftToRight(segs)[k] = k
           /\ RightToLeft(segs) \in Seq(DOMAIN segs) /\ DOMAIN RightToLeft(segs) = DOMAIN segs
           /\ \A k \in DOMAIN segs : RightToLeft(segs)[k] = Len(segs) - k + 1 /\ Len(segs) - k + 1 \in DOMAIN segs
  <1> DEFINE n == Len(segs)
  <1>1. DOMAIN segs = 1 .. n /\ n \in Nat
    OBVIOUS
  <1>2. LeftToRight(segs) = [i \in 1 .. n |-> i]
    BY <1>1 DEF LeftToRight
  <1> HIDE DEF n
  <1>3. LeftToRight(segs) \in Seq(1 .. n) /\ Len(LeftToRight(segs)) = n
    BY <1>1, <1>2
  <1>4. RightToLeft(segs) = [i \in 1 .. n |-> LeftToRight(segs)[(n - i) + 1]]
    BY <1>3 DEF RightToLeft, Reverse
  <1>5. ASSUME NEW i \in 1 .. n PROVE n - i + 1 \in 1 .. n /\ RightToLeft(segs)[i] = n - i + 1
    <2>1. (n - i) + 1 \in 1 .. n
      BY <1>1
    <2>2. LeftToRight(segs)[(n - i) + 1] = (n - i) + 1
      BY <1>2, <2>1
    <2> QED BY <1>4, <2>1, <2>2
  <1>6. RightToLeft(segs) \in Seq(1 .. n) /\ DOMAIN RightToLeft(segs) = 1 .. n
    <2>1. \A i \in 1 .. n : LeftToRight(segs)[(n - i) + 1] \in 1 .. n
      BY <1>4, <1>5
    <2> QED BY <1>1, <1>4, <2>1
  <1> QED BY <1>1, <1>2, <1>3, <1>5, <1>6 DEF n

\* The moves of shiftForGrowth and those of compact.
LEMMA MovesToRight ==
    ASSUME NEW segs, segs \in Seq(SegmentType), NEW start \in [DOMAIN segs -> Nat], NEW kv_len \in Nat,
           Apart(segs, Starts(segs)), Apart(segs, start),
           \A i \in DOMAIN segs : Moving(segs, start, i) => /\ segs[i].start + segs[i].length <= kv_len
                                                            /\ segs[i].start <= start[i]
    PROVE  LET mv == Moves(segs, start, RightToLeft(segs))
           IN  MovesLeft(mv, WithStarts(segs, start), kv_len) /\ \E ix : MovesOf(mv, segs, start, ix)
  <1> DEFINE order == RightToLeft(segs)
             mv == Moves(segs, start, order)
             n == Len(segs)
  <1>1. /\ order \in Seq(DOMAIN segs) /\ DOMAIN order = DOMAIN segs /\ DOMAIN segs = 1 .. n /\ n \in Nat
        /\ \A k \in DOMAIN segs : order[k] = n - k + 1 /\ n - k + 1 \in DOMAIN segs
    BY LeftToRightFacts
  <1> HIDE DEF order, n
  <1>2. \A i \in DOMAIN segs : \E k \in DOMAIN order : order[k] = i
    <2> SUFFICES ASSUME NEW i \in DOMAIN segs PROVE \E k \in DOMAIN order : order[k] = i
      OBVIOUS
    <2>1. n - i + 1 \in DOMAIN order /\ n - (n - i + 1) + 1 = i
      BY SMTT(40), <1>1
    <2> QED BY <1>1, <2>1
  <1>3. PICK ix, px : /\ MovesOf(mv, segs, start, ix)
                      /\ px \in [1 .. Len(mv) -> DOMAIN order]
                      /\ \A k \in 1 .. Len(mv) : ix[k] = order[px[k]]
                      /\ \A k, l \in 1 .. Len(mv) : k < l => px[k] < px[l]
    BY ZenonT(40), <1>1, <1>2, MovesFacts
  <1>4. mv \in Seq(MoveType)
    BY <1>1, <1>2, MovesFacts
  <1> HIDE DEF mv
  <1>5. ASSUME NEW k \in 1 .. Len(mv), NEW l \in 1 .. Len(mv), k < l PROVE ix[l] < ix[k]
    <2>1. px[k] \in 1 .. n /\ px[l] \in 1 .. n /\ px[k] < px[l]
      BY <1>1, <1>3, <1>5
    <2>2. ix[k] = n - px[k] + 1 /\ ix[l] = n - px[l] + 1
      BY <1>1, <1>3, <2>1
    <2> DEFINE p == px[k]
               q == px[l]
    <2>3. n \in Nat /\ p \in 1 .. n /\ q \in 1 .. n /\ p < q
      BY <1>1, <2>1
    <2> HIDE DEF p, q
    <2>4. n - q + 1 < n - p + 1
      BY <2>3
    <2> QED BY <2>2, <2>4 DEF p, q
  <1>6. MovesLeft(mv, WithStarts(segs, start), kv_len)
    BY <1>3, <1>4, <1>5, MovesApart
  <1> QED BY <1>3, <1>6 DEF mv, order

LEMMA MovesToLeft ==
    ASSUME NEW segs, segs \in Seq(SegmentType), NEW start \in [DOMAIN segs -> Nat], NEW kv_len \in Nat,
           Apart(segs, Starts(segs)), Apart(segs, start),
           \A i \in DOMAIN segs : Moving(segs, start, i) => /\ segs[i].start + segs[i].length <= kv_len
                                                            /\ start[i] <= segs[i].start
    PROVE  LET mv == Moves(segs, start, LeftToRight(segs))
           IN  MovesLeft(mv, WithStarts(segs, start), kv_len) /\ \E ix : MovesOf(mv, segs, start, ix)
  <1> DEFINE order == LeftToRight(segs)
             mv == Moves(segs, start, order)
  <1>1. /\ order \in Seq(DOMAIN segs) /\ DOMAIN order = DOMAIN segs /\ \A k \in DOMAIN segs : order[k] = k
    BY LeftToRightFacts
  <1> HIDE DEF order
  <1>2. \A i \in DOMAIN segs : \E k \in DOMAIN order : order[k] = i
    BY <1>1
  <1>3. PICK ix, px : /\ MovesOf(mv, segs, start, ix)
                      /\ px \in [1 .. Len(mv) -> DOMAIN order]
                      /\ \A k \in 1 .. Len(mv) : ix[k] = order[px[k]]
                      /\ \A k, l \in 1 .. Len(mv) : k < l => px[k] < px[l]
    BY ZenonT(40), <1>1, <1>2, MovesFacts
  <1>4. mv \in Seq(MoveType)
    BY <1>1, <1>2, MovesFacts
  <1> HIDE DEF mv
  <1>5. ASSUME NEW k \in 1 .. Len(mv), NEW l \in 1 .. Len(mv), k < l PROVE ix[k] < ix[l]
    <2>1. px[k] \in DOMAIN segs /\ px[l] \in DOMAIN segs /\ px[k] < px[l]
      BY <1>1, <1>3, <1>5
    <2> QED BY <1>1, <1>3, <2>1
  <1>6. MovesLeft(mv, WithStarts(segs, start), kv_len)
    BY <1>3, <1>4, <1>5, MovesApart
  <1> QED BY <1>3, <1>6 DEF mv, order

\* Each segment ends before the next begins, and the last at the sum of all.
LEMMA LaidFacts ==
    ASSUME NEW segs, segs \in Seq(SegmentType), NEW w \in [1 .. Len(segs) -> Nat], Laid(segs, w)
    PROVE  /\ \A i \in DOMAIN segs : /\ segs[i].start \in Nat /\ w[i] \in Nat \ {0} /\ i - 1 \in Nat
                                     /\ segs[i].start = SumUpTo(w, i - 1)
                                     /\ segs[i].start + w[i] = SumUpTo(w, i)
                                     /\ segs[i].start + w[i] <= SumUpTo(w, Len(segs))
           /\ \A i, j \in DOMAIN segs : i < j => segs[i].start + w[i] <= segs[j].start
           /\ SumUpTo(w, Len(segs)) \in Nat /\ NatValued(w)
  <1> DEFINE n == Len(segs)
  <1>1. n \in Nat /\ DOMAIN segs = 1 .. n /\ NatValued(w) /\ w \in [1 .. n -> Nat]
    BY DEF NatValued
  <1>2. \A i \in DOMAIN segs : segs[i].start = SumUpTo(w, i - 1) /\ w[i] > 0
    BY DEF Laid
  <1> HIDE DEF n
  <1>3. ASSUME NEW i \in DOMAIN segs
        PROVE  /\ segs[i].start \in Nat /\ w[i] \in Nat \ {0} /\ i - 1 \in Nat
               /\ segs[i].start = SumUpTo(w, i - 1)
               /\ segs[i].start + w[i] = SumUpTo(w, i)
               /\ segs[i].start + w[i] <= SumUpTo(w, n)
    <2>1. i \in 1 .. n /\ i - 1 \in Nat /\ w[i] \in Nat \ {0} /\ At(w, i) = w[i]
      BY <1>1, <1>2 DEF At
    <2>2. /\ SumUpTo(w, i - 1) \in Nat /\ SumUpTo(w, i) = SumUpTo(w, i - 1) + At(w, i)
          /\ SumUpTo(w, i) <= SumUpTo(w, n)
      BY <1>1, <2>1, SumAround
    <2> QED BY <1>2, <2>1, <2>2
  <1>4. ASSUME NEW i \in DOMAIN segs, NEW j \in DOMAIN segs, i < j PROVE segs[i].start + w[i] <= segs[j].start
    <2>1. i \in 0 .. j - 1 /\ j - 1 \in Nat
      BY <1>1, <1>4
    <2>2. SumUpTo(w, i) <= SumUpTo(w, j - 1)
      BY <1>1, <2>1, SumMonotone
    <2> QED BY <1>3, <2>2
  <1>5. SumUpTo(w, n) \in Nat
    BY <1>1, SumFacts
  <1> QED BY <1>1, <1>3, <1>4, <1>5 DEF n

LEMMA LaidApart ==
    ASSUME NEW segs, segs \in Seq(SegmentType), NEW w \in [1 .. Len(segs) -> Nat], Laid(segs, w),
           \A i \in DOMAIN segs : segs[i].length <= w[i]
    PROVE  Apart(segs, Starts(segs))
  <1> SUFFICES ASSUME NEW i \in DOMAIN segs, NEW j \in DOMAIN segs, i < j
               PROVE  Starts(segs)[i] + segs[i].length <= Starts(segs)[j]
    BY DEF Apart
  <1>1. segs[i].start \in Nat /\ w[i] \in Nat /\ segs[j].start \in Nat /\ segs[i].start + w[i] <= segs[j].start
    BY LaidFacts
  <1>2. segs[i].length \in Nat /\ segs[i].length <= w[i]
    <2>1. segs[i] \in SegmentType
      OBVIOUS
    <2> QED BY <2>1 DEF SegmentType
  <1>3. Starts(segs)[i] = segs[i].start /\ Starts(segs)[j] = segs[j].start
    BY DEF Starts
  <1> QED BY SMTT(40), <1>1, <1>2, <1>3

\* The graph variants: each has more room than the one before.
LEMMA VariantFacts ==
    /\ NumCL \in Nat \ {0}
    /\ \A c \in 1 .. NumCL : KVLen(c) \in Nat \ {0} /\ KVLen(c) <= KVLen(NumCL)
    /\ \A c, d \in 1 .. NumCL : c <= d => KVLen(c) <= KVLen(d)
  <1>1. /\ ContextLengths \in Seq(Nat) /\ ContextLengths # <<>> /\ SeqLen \in Nat \ {0} /\ SeqLen < ContextLengths[1]
        /\ \A c \in 1 .. Len(ContextLengths) - 1 : ContextLengths[c] < ContextLengths[c + 1]
    BY CBAssumption DEF CBAssumption
  <1>2. NumCL \in Nat \ {0} /\ DOMAIN ContextLengths = 1 .. NumCL
    BY <1>1, EmptySeq DEF NumCL
  <1>3. \A c \in 1 .. NumCL - 1 : ContextLengths[c] < ContextLengths[c + 1]
    BY <1>1 DEF NumCL
  <1>4. \A c \in 1 .. NumCL : ContextLengths[c] \in Nat
    BY <1>1, <1>2
  <1>5. ASSUME NEW c \in 1 .. NumCL, NEW d \in 1 .. NumCL, c <= d PROVE ContextLengths[c] <= ContextLengths[d]
    <2> DEFINE S == {m \in Nat : m \in c .. NumCL => ContextLengths[c] <= ContextLengths[m]}
    <2>1. 0 \in S
      OBVIOUS
    <2>2. ASSUME NEW m \in Nat, m \in S PROVE m + 1 \in S
      <3> SUFFICES ASSUME m + 1 \in c .. NumCL PROVE ContextLengths[c] <= ContextLengths[m + 1]
        OBVIOUS
      <3>1. CASE m + 1 = c
        BY <1>4, <3>1
      <3>2. CASE m + 1 # c
        <4>1. m \in c .. NumCL /\ m \in 1 .. NumCL /\ m + 1 \in 1 .. NumCL /\ m \in 1 .. NumCL - 1
          BY <1>2, <3>2
        <4>2. ContextLengths[c] <= ContextLengths[m] /\ ContextLengths[m] < ContextLengths[m + 1]
          BY <1>3, <2>2, <4>1
        <4> QED BY <1>4, <4>1, <4>2
      <3> QED BY <3>1, <3>2
    <2> HIDE DEF S
    <2>3. d \in S
      <3>1. d \in Nat
        BY <1>2
      <3> QED BY <2>1, <2>2, <3>1, Induction
    <2>4. d \in c .. NumCL
      BY <1>2, <1>5
    <2> QED BY <2>3, <2>4 DEF S
  <1>6. ASSUME NEW c \in 1 .. NumCL PROVE KVLen(c) \in Nat \ {0}
    <2>1. 1 \in 1 .. NumCL /\ 1 <= c
      BY <1>2
    <2>2. ContextLengths[1] <= ContextLengths[c]
      BY <1>5, <2>1
    <2> QED BY <1>1, <1>4, <2>1, <2>2 DEF KVLen
  <1>7. ASSUME NEW c \in 1 .. NumCL, NEW d \in 1 .. NumCL, c <= d PROVE KVLen(c) <= KVLen(d)
    BY SMTT(40), <1>1, <1>4, <1>5, <1>7 DEF KVLen
  <1>8. ASSUME NEW c \in 1 .. NumCL PROVE KVLen(c) <= KVLen(NumCL)
    <2>1. NumCL \in 1 .. NumCL /\ c <= NumCL
      BY <1>2
    <2> QED BY <1>7, <2>1
  <1> QED BY <1>2, <1>6, <1>7, <1>8

\* selectCL never goes back to a smaller variant.
LEMMA SelectCLFacts ==
    ASSUME active_cl \in 1 .. NumCL, NEW required \in Nat
    PROVE  SelectCL(required) \in active_cl .. NumCL /\ SelectCL(required) \in 1 .. NumCL
  <1> DEFINE T == {c \in active_cl .. NumCL : c = NumCL \/ KVLen(c) >= required}
             P(c) == /\ c = NumCL \/ KVLen(c) >= required
                     /\ \A d \in active_cl .. c - 1 : KVLen(d) < required
  <1>1. NumCL \in Nat \ {0}
    BY VariantFacts
  <1>2. T \in SUBSET Nat /\ T # {}
    <2>1. NumCL \in T
      BY <1>1
    <2> QED BY <1>1, <2>1
  <1>3. PICK c \in T : \A m \in T : c <= m
    <2> HIDE DEF T
    <2> QED BY <1>2, Least
  <1>4. P(c) /\ c \in active_cl .. NumCL
    <2>1. ASSUME NEW d \in active_cl .. c - 1 PROVE KVLen(d) < required
      <3>1. d \in active_cl .. NumCL /\ d \in 1 .. NumCL /\ ~ (c <= d)
        BY <1>1
      <3>2. d \notin T
        BY <1>3, <3>1
      <3>3. KVLen(d) \in Nat
        BY <3>1, VariantFacts
      <3> QED BY <3>1, <3>2, <3>3
    <2> QED BY <2>1
  <1>5. SelectCL(required) = CHOOSE x \in active_cl .. NumCL : P(x)
    BY DEF SelectCL
  <1> HIDE DEF P
  <1>6. SelectCL(required) \in active_cl .. NumCL
    BY <1>4, <1>5
  <1> QED BY <1>1, <1>6
-----------------------------------------------------------------------------
(* Room for the step: new segments, a larger variant, a shift.             *)

Unseated == Those(batch, {k \in DOMAIN batch : ~HasSegment(segments, batch[k])})
Grown == Allocate(segments, Unseated)
Used == SumUpTo(Lengths(segments), Len(segments))

\* The sessions that have no segment, each once.
LEMMA UnseatedFacts ==
    ASSUME OrderInv
    PROVE  /\ Unseated \in Seq(DOMAIN lens)
           /\ \A k \in DOMAIN Unseated : ~HasSegment(segments, Unseated[k])
           /\ \A k, l \in DOMAIN Unseated : Unseated[k] = Unseated[l] => k = l
           /\ \A id \in DOMAIN lens : ~HasSegment(segments, id) => \E k \in DOMAIN Unseated : Unseated[k] = id
  <1> DEFINE K == {k \in DOMAIN batch : ~HasSegment(segments, batch[k])}
             u == Unseated
  <1>1. /\ batch \in Seq(DOMAIN lens) /\ \A k, l \in DOMAIN batch : batch[k] = batch[l] => k = l
        /\ \A id \in DOMAIN lens : \E k \in DOMAIN batch : batch[k] = id
    BY DEF OrderInv, BatchInOrder, Batched
  <1>2. u \in Seq(DOMAIN lens) /\ \E ix : PickedBy(u, batch, K, ix)
    <2>1. u = Those(batch, K)
      BY DEF Unseated
    <2> HIDE DEF K, u
    <2> QED BY <1>1, <2>1, ThosePicked
  <1>3. PICK ix : PickedBy(u, batch, K, ix)
    BY <1>2
  <1> HIDE DEF u
  <1>4. DOMAIN u = 1 .. Len(u) /\ Len(u) \in Nat
    BY <1>2
  <1>5. \A k \in DOMAIN u : ix[k] \in K /\ ix[k] \in DOMAIN batch /\ u[k] = batch[ix[k]]
    BY <1>3, <1>4 DEF PickedBy
  <1>6. \A k \in DOMAIN u : ~HasSegment(segments, u[k])
    BY <1>5
  <1>7. \A k, l \in DOMAIN u : u[k] = u[l] => k = l
    <2>1. \A p, q \in 1 .. Len(u) : ix[p] = ix[q] => p = q
      <3> HIDE DEF K
      <3> QED BY <1>1, <1>3, <1>4, PickedOnce
    <2> QED BY SMTT(40), <1>1, <1>4, <1>5, <2>1
  <1>8. ASSUME NEW id \in DOMAIN lens, ~HasSegment(segments, id) PROVE \E k \in DOMAIN u : u[k] = id
    <2>1. PICK k \in DOMAIN batch : batch[k] = id
      BY <1>1
    <2>2. k \in K
      BY <1>8, <2>1
    <2>3. PICK q \in 1 .. Len(u) : ix[q] = k
      <3> HIDE DEF K
      <3> QED BY <1>3, <2>1, <2>2 DEF PickedBy
    <2> QED BY <1>4, <1>5, <2>1, <2>3
  <1> QED BY <1>2, <1>6, <1>7, <1>8 DEF u

LEMMA LensNat ==
    ASSUME OrderInv
    PROVE  /\ NatValued(lens) /\ DOMAIN lens \subseteq DOMAIN sessions
           /\ \A id \in DOMAIN lens : lens[id] \in Nat \ {0}
           /\ sessions \in Seq(SessionType) /\ DOMAIN sessions = 1 .. Len(sessions) /\ Len(sessions) \in Nat
           /\ Sessions(sessions) /\ DOMAIN sessions \subseteq SessionId
  <1>1. Batched(sessions, batch, lens, in_start) /\ Sessions(sessions)
    BY DEF OrderInv, BatchInOrder, SessionsInOrder
  <1>2. /\ \A id \in DOMAIN lens : lens[id] \in Nat \ {0}
        /\ DOMAIN lens \subseteq DOMAIN sessions
    BY <1>1 DEF Batched
  <1>3. NatValued(lens)
    BY <1>2 DEF NatValued
  <1>4. sessions \in Seq(SessionType) /\ DOMAIN sessions = 1 .. Len(sessions) /\ Len(sessions) \in Nat
    BY <1>1 DEF Sessions
  <1>5. DOMAIN sessions \subseteq SessionId
    BY <1>1, SessionFacts
  <1> QED BY <1>1, <1>2, <1>3, <1>4, <1>5

\* The list with the new, empty segments.
LEMMA GrownFacts ==
    ASSUME OrderInv, segments \in Seq(SegmentType), Laid(segments, Lengths(segments))
    PROVE  /\ Grown \in Seq(SegmentType) /\ Len(Grown) = Len(segments) + Len(Unseated)
           /\ Len(segments) \in Nat /\ Len(Unseated) \in Nat
           /\ DOMAIN segments = 1 .. Len(segments) /\ DOMAIN Grown = 1 .. Len(Grown)
           /\ \A i \in 1 .. Len(segments) : i \in DOMAIN Grown /\ Grown[i] = segments[i]
           /\ \A i \in Len(segments) + 1 .. Len(Grown) :
                 /\ i - Len(segments) \in DOMAIN Unseated
                 /\ Grown[i] = [id |-> Unseated[i - Len(segments)], length |-> 0, start |-> Used]
           /\ Used \in Nat
  <1> DEFINE n == Len(segments)
             m == Len(Unseated)
             new(k) == [id |-> Unseated[k], length |-> 0, start |-> Used]
             news == [k \in DOMAIN Unseated |-> new(k)]
             w == Lengths(segments)
             none == <<>>
  <1>0. NatValued(none)
    BY DEF NatValued
  <1>1. /\ n \in Nat /\ DOMAIN segments = 1 .. n /\ w \in [1 .. n -> Nat]
        /\ \A i \in 1 .. n : segments[i].start \in Nat /\ segments[i].length \in Nat /\ w[i] = segments[i].length
    <2> HIDE DEF none
    <2> QED BY <1>0, SegmentFacts
  <1>2. Used \in Nat /\ \A i \in DOMAIN segments : segments[i].start + w[i] = SumUpTo(w, i)
    BY <1>1, LaidFacts DEF Used
  <1>3. Unseated \in Seq(DOMAIN lens) /\ m \in Nat /\ DOMAIN Unseated = 1 .. m
    BY UnseatedFacts
  <1>4. ASSUME NEW k \in 1 .. m PROVE new(k) \in SegmentType
    <2>1. Unseated[k] \in DOMAIN lens
      BY <1>3
    <2>2. Unseated[k] \in SessionId
      BY <2>1, LensNat
    <2> QED BY <1>2, <2>2 DEF SegmentType
  <1>5. (IF segments = <<>> THEN 0 ELSE SegEnd(Last(segments))) = Used
    <2>1. CASE segments = <<>>
      <3>1. n = 0
        BY <2>1
      <3>2. SumUpTo(w, 0) = 0
        <4>1. NatValued(w)
          BY <1>1 DEF NatValued
        <4> QED BY <4>1, SumFacts
      <3> QED BY <2>1, <3>1, <3>2 DEF Used
    <2>2. CASE segments # <<>>
      <3>1. n \in 1 .. n /\ Last(segments) = segments[n]
        BY <1>1, <2>2, EmptySeq DEF Last
      <3>2. SegEnd(segments[n]) = SumUpTo(w, n)
        BY <1>1, <1>2, <3>1 DEF SegEnd
      <3> QED BY <2>2, <3>1, <3>2 DEF Used
    <2> QED BY <2>1, <2>2
  <1>6. Grown = segments \o news
    BY <1>5 DEF Grown, Allocate
  <1>7. news \in Seq(SegmentType) /\ Len(news) = m /\ \A k \in 1 .. m : news[k] = new(k)
    <2> HIDE DEF new
    <2> QED BY <1>3, <1>4
  <1> HIDE DEF news, new, n, m
  <1>8. /\ Grown \in Seq(SegmentType) /\ Len(Grown) = n + m
        /\ \A i \in 1 .. n + m : Grown[i] = IF i <= n THEN segments[i] ELSE news[i - n]
    <2>1. Len(segments) = n /\ Len(news) = m
      BY <1>7 DEF n
    <2>2. /\ segments \o news \in Seq(SegmentType)
          /\ Len(segments \o news) = Len(segments) + Len(news)
          /\ \A i \in 1 .. Len(segments) + Len(news) :
               (segments \o news)[i] = IF i <= Len(segments) THEN segments[i] ELSE news[i - Len(segments)]
      BY <1>7, ConcatProperties
    <2> QED BY <1>6, <2>1, <2>2
  <1>9. ASSUME NEW i \in 1 .. n PROVE i \in DOMAIN Grown /\ Grown[i] = segments[i]
    <2>1. i \in 1 .. n + m /\ i <= n
      BY <1>1, <1>3
    <2> QED BY <1>8, <2>1
  <1>10. ASSUME NEW i \in n + 1 .. n + m PROVE i - n \in 1 .. m /\ Grown[i] = new(i - n)
    <2>1. i \in 1 .. n + m /\ ~ (i <= n) /\ i - n \in 1 .. m
      BY <1>1, <1>3
    <2> QED BY <1>7, <1>8, <2>1
  <1> QED BY <1>1, <1>2, <1>3, <1>8, <1>9, <1>10 DEF new, n, m

\* In the list with the new segments each session of the batch has one, and no segment
\* stays empty.
LEMMA GrownSeated ==
    ASSUME OrderInv, pc = "prepare", segments \in Seq(SegmentType), Laid(segments, Lengths(segments)),
           Seated(sessions, segments)
    PROVE  /\ Seated(sessions, Grown)
           /\ \A id \in DOMAIN lens : HasSegment(Grown, id)
           /\ \A i \in DOMAIN Grown : Grown[i].length + Growth(Grown, lens, i) > 0
           /\ \A i \in DOMAIN Grown : Grown[i].length = 0 => Grown[i].start = Used
           /\ \A i \in DOMAIN Grown : Grown[i].length > 0 => i \in DOMAIN segments
  <1> DEFINE n == Len(segments)
             m == Len(Unseated)
             none == <<>>
  <1>0. NatValued(none)
    BY DEF NatValued
  <1>1. /\ Grown \in Seq(SegmentType) /\ DOMAIN Grown = 1 .. n + m /\ n \in Nat /\ m \in Nat
        /\ DOMAIN segments = 1 .. n
        /\ \A i \in 1 .. n : i \in DOMAIN Grown /\ Grown[i] = segments[i]
        /\ \A i \in n + 1 .. n + m :
             i - n \in DOMAIN Unseated /\ Grown[i] = [id |-> Unseated[i - n], length |-> 0, start |-> Used]
    BY GrownFacts
  <1>2. /\ Unseated \in Seq(DOMAIN lens) /\ DOMAIN Unseated = 1 .. m
        /\ \A k \in DOMAIN Unseated : Unseated[k] \in DOMAIN lens
        /\ \A k \in DOMAIN Unseated : ~HasSegment(segments, Unseated[k])
        /\ \A k, l \in DOMAIN Unseated : Unseated[k] = Unseated[l] => k = l
        /\ \A id \in DOMAIN lens : ~HasSegment(segments, id) => \E k \in DOMAIN Unseated : Unseated[k] = id
    BY UnseatedFacts
  <1>3. /\ NatValued(lens) /\ DOMAIN lens \subseteq DOMAIN sessions
        /\ \A id \in DOMAIN lens : lens[id] \in Nat \ {0}
        /\ Sessions(sessions)
    BY LensNat
  <1>4. /\ \A i, j \in DOMAIN segments : segments[i].id = segments[j].id => i = j
        /\ \A i \in DOMAIN segments : /\ segments[i].id \in DOMAIN sessions
                                      /\ segments[i].length = sessions[segments[i].id].processed
        /\ \A id \in ActiveOf(sessions) : sessions[id].processed > 0 => HasSegment(segments, id)
    BY DEF Seated
  <1>5. \A i \in DOMAIN segments : segments[i].length \in Nat \ {0}
    <2> HIDE DEF none
    <2>1. \A i \in DOMAIN segments : Lengths(segments)[i] > 0 /\ Lengths(segments)[i] = segments[i].length
      BY ZenonT(40), <1>0, SegmentFacts DEF Laid
    <2>2. \A i \in DOMAIN segments : segments[i].length \in Nat
      BY <1>0, SegmentFacts
    <2> QED BY <2>1, <2>2
  <1> HIDE DEF n, m
  <1>6. ASSUME NEW i \in n + 1 .. n + m
        PROVE  /\ i - n \in DOMAIN Unseated /\ Grown[i].id = Unseated[i - n] /\ Grown[i].length = 0
               /\ Grown[i].start = Used /\ Grown[i].id \in DOMAIN lens /\ ~HasSegment(segments, Grown[i].id)
    <2>1. i - n \in DOMAIN Unseated /\ Grown[i] = [id |-> Unseated[i - n], length |-> 0, start |-> Used]
      BY <1>1
    <2>2. Grown[i].id = Unseated[i - n] /\ Grown[i].length = 0 /\ Grown[i].start = Used
      BY <2>1
    <2> QED BY <1>2, <2>1, <2>2
  <1>7. \A i \in DOMAIN Grown : i \in 1 .. n \/ i \in n + 1 .. n + m
    BY <1>1
  <1>8. ASSUME NEW i \in DOMAIN Grown, NEW j \in DOMAIN Grown, Grown[i].id = Grown[j].id PROVE i = j
    <2>1. CASE i \in 1 .. n /\ j \in 1 .. n
      BY <1>1, <1>4, <1>8, <2>1
    <2>2. CASE i \in n + 1 .. n + m /\ j \in n + 1 .. n + m
      <3>1. i - n = j - n
        BY <1>2, <1>6, <1>8, <2>2
      <3> QED BY <1>1, <2>2, <3>1
    <2>3. CASE i \in 1 .. n /\ j \in n + 1 .. n + m
      <3>1. HasSegment(segments, Grown[i].id)
        BY <1>1, <2>3 DEF HasSegment
      <3> QED BY <1>6, <1>8, <2>3, <3>1
    <2>4. CASE j \in 1 .. n /\ i \in n + 1 .. n + m
      <3>1. HasSegment(segments, Grown[j].id)
        BY <1>1, <2>4 DEF HasSegment
      <3> QED BY <1>6, <1>8, <2>4, <3>1
    <2> QED BY <1>7, <2>1, <2>2, <2>3, <2>4
  <1>9. ASSUME NEW i \in DOMAIN Grown
        PROVE  /\ Grown[i].id \in DOMAIN sessions /\ Grown[i].length = sessions[Grown[i].id].processed
               /\ Grown[i].length + Growth(Grown, lens, i) > 0
               /\ Grown[i].length = 0 => Grown[i].start = Used
               /\ Grown[i].length > 0 => i \in DOMAIN segments
    <2>1. CASE i \in 1 .. n
      <3>1. Growth(Grown, lens, i) \in Nat
        BY <1>3 DEF Growth, NatValued
      <3>2. Grown[i].length \in Nat \ {0}
        BY <1>1, <1>5, <2>1
      <3> QED BY <1>1, <1>4, <2>1, <3>1, <3>2
    <2>2. CASE i \in n + 1 .. n + m
      <3> DEFINE id == Grown[i].id
      <3>1. id \in DOMAIN lens /\ id \in DOMAIN sessions /\ ~HasSegment(segments, id) /\ Grown[i].length = 0
            /\ Grown[i].start = Used
        BY <1>3, <1>6, <2>2
      <3>2. Growth(Grown, lens, i) \in Nat \ {0}
        BY <1>3, <3>1 DEF Growth
      <3>3. sessions[id].processed = 0
        <4>1. sessions[id].processed \in Nat
          BY <1>3, <3>1, SessionFacts
        <4>2. id \in ActiveOf(sessions)
          <5>1. pc \in {"prepare", "shard", "update"} => Wanted(sessions, lens)
            BY DEF OrderInv, BatchInOrder
          <5> QED BY <3>1, <5>1 DEF Wanted
        <4> QED BY <1>4, <3>1, <4>1, <4>2
      <3> QED BY <3>1, <3>2, <3>3
    <2> QED BY <1>7, <2>1, <2>2
  <1>10. ASSUME NEW id, HasSegment(segments, id) PROVE HasSegment(Grown, id)
    BY <1>1, <1>10 DEF HasSegment
  <1>11. ASSUME NEW id \in DOMAIN lens PROVE HasSegment(Grown, id)
    <2>1. CASE HasSegment(segments, id)
      BY <1>10, <2>1
    <2>2. CASE ~HasSegment(segments, id)
      <3>1. PICK k \in DOMAIN Unseated : Unseated[k] = id
        BY <1>2, <2>2
      <3>2. n + k \in n + 1 .. n + m /\ (n + k) - n = k /\ n + k \in DOMAIN Grown
        BY <1>1, <1>2
      <3>3. Grown[n + k].id = id
        BY <1>6, <3>1, <3>2
      <3> QED BY <3>2, <3>3 DEF HasSegment
    <2> QED BY <2>1, <2>2
  <1>12. Seated(sessions, Grown)
    BY <1>4, <1>8, <1>9, <1>10 DEF Seated
  <1> QED BY <1>9, <1>11, <1>12

\* What the list with the new segments adds up to, and what it will grow by.
LEMMA GrownSums ==
    ASSUME OrderInv, pc = "prepare", segments \in Seq(SegmentType), Laid(segments, Lengths(segments)),
           Seated(sessions, segments)
    PROVE  /\ \A k \in 0 .. Len(Grown) : SumUpTo(Lengths(Grown), k) = SumUpTo(Lengths(segments), k)
           /\ SumUpTo(Lengths(Grown), Len(Grown)) = Used
           /\ \A i \in DOMAIN Grown : Grown[i].length > 0 => Grown[i].start = SumUpTo(Lengths(Grown), i - 1)
           /\ SumUpTo(Growths(Grown, lens), Len(Grown)) <= SumUpTo(lens, Len(sessions))
  <1> DEFINE n == Len(segments)
             m == Len(Grown)
             f == Lengths(segments)
             g == Lengths(Grown)
             h == Growths(Grown, lens)
  <1>1. /\ Grown \in Seq(SegmentType) /\ n \in Nat /\ m \in Nat /\ n <= m
        /\ DOMAIN segments = 1 .. n /\ DOMAIN Grown = 1 .. m
        /\ \A i \in 1 .. n : Grown[i] = segments[i]
        /\ \A i \in n + 1 .. m : Grown[i].length = 0
    <2>1. /\ Grown \in Seq(SegmentType) /\ m = n + Len(Unseated) /\ n \in Nat /\ Len(Unseated) \in Nat
          /\ DOMAIN segments = 1 .. n /\ DOMAIN Grown = 1 .. m
          /\ \A i \in 1 .. n : Grown[i] = segments[i]
          /\ \A i \in n + 1 .. m :
               Grown[i] = [id |-> Unseated[i - n], length |-> 0, start |-> Used]
      BY GrownFacts
    <2> HIDE DEF n, m
    <2>2. ASSUME NEW i \in n + 1 .. m PROVE Grown[i].length = 0
      <3>1. Grown[i] = [id |-> Unseated[i - n], length |-> 0, start |-> Used]
        BY <2>1
      <3> QED BY <3>1
    <2> QED BY <2>1, <2>2
  <1>2. /\ NatValued(lens) /\ DOMAIN lens \subseteq DOMAIN sessions /\ DOMAIN sessions = 1 .. Len(sessions)
        /\ Len(sessions) \in Nat
    BY LensNat
  <1>3. /\ f \in [1 .. n -> Nat] /\ NatValued(f) /\ g \in [1 .. m -> Nat] /\ NatValued(g)
        /\ h \in [1 .. m -> Nat] /\ NatValued(h)
        /\ \A i \in 1 .. n : f[i] = segments[i].length
        /\ \A i \in 1 .. m : g[i] = Grown[i].length
    <2>1. /\ f \in [1 .. n -> Nat] /\ NatValued(f)
          /\ \A i \in DOMAIN segments : f[i] = segments[i].length
      BY <1>2, SegmentFacts
    <2>2. /\ g \in [1 .. m -> Nat] /\ NatValued(g) /\ h \in [1 .. m -> Nat] /\ NatValued(h)
          /\ \A i \in DOMAIN Grown : g[i] = Grown[i].length
      BY ZenonT(40), <1>1, <1>2, SegmentFacts
    <2> HIDE DEF f, g, h
    <2> QED BY <1>1, <2>1, <2>2
  <1> HIDE DEF f, g
  <1>4. ASSUME NEW i \in 1 .. m PROVE At(g, i) = At(f, i)
    <2>1. CASE i <= n
      <3>1. i \in 1 .. n
        BY <1>1, <2>1
      <3> QED BY <1>1, <1>3, <3>1 DEF At
    <2>2. CASE ~ (i <= n)
      <3>1. i \in n + 1 .. m /\ i \notin 1 .. n
        BY <1>1, <2>2
      <3> QED BY <1>1, <1>3, <3>1 DEF At
    <2> QED BY <2>1, <2>2
  <1>5. ASSUME NEW k \in 0 .. m PROVE SumUpTo(g, k) = SumUpTo(f, k)
    <2>1. \A i \in 1 .. k : At(g, i) = At(f, i)
      BY <1>1, <1>4
    <2> QED BY <1>1, <1>3, <2>1, SumAgrees
  <1>6. SumUpTo(g, m) = SumUpTo(f, n)
    <2>1. \A i \in DOMAIN f : i <= n
      BY <1>1, <1>3
    <2>2. SumUpTo(f, m) = SumUpTo(f, n)
      BY <1>1, <1>3, <2>1, SumPast
    <2>3. m \in 0 .. m
      BY <1>1
    <2> QED BY <1>5, <2>2, <2>3
  <1>7. ASSUME NEW i \in DOMAIN Grown, Grown[i].length > 0 PROVE Grown[i].start = SumUpTo(g, i - 1)
    <2>1. i \in DOMAIN segments
      BY <1>7, GrownSeated
    <2>2. i \in 1 .. n /\ i - 1 \in 0 .. m
      BY <1>1, <2>1
    <2>3. segments[i].start = SumUpTo(f, i - 1)
      BY <2>1 DEF Laid, f
    <2> QED BY <1>1, <1>5, <2>2, <2>3
  <1>8. SumUpTo(h, m) <= SumUpTo(lens, Len(sessions))
    <2> DEFINE N == Len(sessions)
               l == [k \in 1 .. N |-> At(lens, k)]
               ix == [i \in 1 .. m |-> Grown[i].id]
               picked == [i \in 1 .. m |-> l[ix[i]]]
    <2>1. /\ \A i, j \in DOMAIN Grown : Grown[i].id = Grown[j].id => i = j
          /\ \A i \in DOMAIN Grown : Grown[i].id \in DOMAIN sessions
      BY GrownSeated DEF Seated
    <2>2. ix \in [1 .. m -> 1 .. N] /\ \A i, j \in 1 .. m : ix[i] = ix[j] => i = j
      BY <1>1, <1>2, <2>1
    <2>3. l \in [1 .. N -> Nat] /\ NatValued(l)
      BY <1>2 DEF At, NatValued
    <2>4. SumUpTo(picked, m) <= SumUpTo(l, N)
      <3> HIDE DEF l, ix, N, m
      <3>1. N \in Nat
        BY <1>2 DEF N
      <3> QED BY <1>1, <2>2, <2>3, <3>1, SumPicked
    <2>5. SumUpTo(l, N) = SumUpTo(lens, N)
      <3>1. \A i \in 1 .. N : At(l, i) = At(lens, i)
        BY DEF At
      <3> HIDE DEF l
      <3> QED BY <1>2, <2>3, <3>1, SumAgrees
    <2>6. picked = h
      <3>1. ASSUME NEW i \in 1 .. m PROVE picked[i] = h[i]
        <4>1. Grown[i].id \in 1 .. N
          BY <1>1, <1>2, <2>1
        <4>2. picked[i] = At(lens, Grown[i].id)
          BY <4>1
        <4>3. h[i] = Growth(Grown, lens, i)
          BY <1>1 DEF Growths
        <4> QED BY <4>2, <4>3 DEF At, Growth
      <3>2. h = [i \in 1 .. m |-> h[i]]
        BY <1>3
      <3> HIDE DEF h, l, ix
      <3> QED BY <3>1, <3>2
    <2> QED BY <2>4, <2>5, <2>6
  <1> QED BY <1>5, <1>6, <1>7, <1>8 DEF f, g, Used

\* Where the last segment ends.
LEMMA TotalUsedIsUsed ==
    ASSUME OrderInv, pc = "prepare", segments \in Seq(SegmentType), Laid(segments, Lengths(segments)),
           Seated(sessions, segments)
    PROVE  TotalUsed(Grown) = Used
  <1> DEFINE n == Len(segments)
             w == Lengths(segments)
             ends == {0} \cup {SegEnd(Grown[i]) : i \in DOMAIN Grown}
             none == <<>>
  <1>0. NatValued(none)
    BY DEF NatValued
  <1>1. /\ n \in Nat /\ DOMAIN segments = 1 .. n /\ w \in [1 .. n -> Nat]
        /\ \A i \in 1 .. n : w[i] = segments[i].length
    <2> HIDE DEF none
    <2> QED BY ZenonT(40), <1>0, SegmentFacts
  <1>2. /\ Used \in Nat
        /\ \A i \in 1 .. n : i \in DOMAIN Grown /\ Grown[i] = segments[i]
        /\ Grown \in Seq(SegmentType)
    BY GrownFacts
  <1>3. ASSUME NEW i \in 1 .. n PROVE SegEnd(segments[i]) = SumUpTo(w, i) /\ SegEnd(segments[i]) <= Used /\ SegEnd(segments[i]) \in Nat
    <2>1. /\ segments[i].start + w[i] = SumUpTo(w, i) /\ segments[i].start + w[i] <= SumUpTo(w, n)
          /\ segments[i].start \in Nat /\ w[i] \in Nat
      BY <1>1, LaidFacts
    <2> QED BY <1>1, <2>1 DEF SegEnd, Used
  <1>4. ASSUME NEW i \in DOMAIN Grown PROVE SegEnd(Grown[i]) \in Nat /\ SegEnd(Grown[i]) <= Used
    <2>1. CASE Grown[i].length > 0
      <3>1. i \in 1 .. n
        BY <1>1, <2>1, GrownSeated
      <3> QED BY <1>2, <1>3, <3>1
    <2>2. CASE ~ (Grown[i].length > 0)
      <3>1. Grown[i] \in SegmentType
        BY <1>2
      <3>2. Grown[i].length = 0
        BY <2>2, <3>1 DEF SegmentType
      <3>3. Grown[i].start = Used
        BY <3>2, GrownSeated
      <3> QED BY <1>2, <3>2, <3>3 DEF SegEnd
    <2> QED BY <2>1, <2>2
  <1>5. Used \in ends
    <2>1. CASE n = 0
      <3>1. NatValued(w)
        BY <1>1 DEF NatValued
      <3>2. Used = 0
        BY <2>1, <3>1, SumFacts DEF Used
      <3> QED BY <3>2
    <2>2. CASE n # 0
      <3>1. n \in 1 .. n
        BY <1>1, <2>2
      <3>2. SegEnd(Grown[n]) = Used /\ n \in DOMAIN Grown
        BY <1>2, <1>3, <3>1 DEF Used
      <3> QED BY <3>2
    <2> QED BY <2>1, <2>2
  <1>6. \A x \in ends : x \in Nat /\ x <= Used
    BY <1>2, <1>4
  <1>7. TotalUsed(Grown) = Max(ends)
    BY DEF TotalUsed
  <1> HIDE DEF ends
  <1>8. Max(ends) \in ends /\ \A x \in ends : Max(ends) >= x
    <2>1. \A x \in ends : Used >= x
      BY <1>2, <1>6
    <2> QED BY <1>5, <2>1 DEF Max
  <1> DEFINE max == Max(ends)
  <1>9. max \in Nat /\ max <= Used /\ max >= Used
    BY <1>5, <1>6, <1>8
  <1> HIDE DEF max
  <1>10. max = Used
    BY <1>2, <1>9
  <1> QED BY <1>7, <1>10 DEF max

\* Moving segments changes their starts alone.
LEMMA WithStartsFacts ==
    ASSUME NEW segs, segs \in Seq(SegmentType), NEW start \in [DOMAIN segs -> Nat], NEW growth, NEW ss
    PROVE  LET to == WithStarts(segs, start)
           IN  /\ to \in Seq(SegmentType) /\ DOMAIN to = DOMAIN segs /\ Len(to) = Len(segs)
               /\ \A i \in DOMAIN segs : to[i].id = segs[i].id /\ to[i].length = segs[i].length /\ to[i].start = start[i]
               /\ Lengths(to) = Lengths(segs) /\ Widths(to, growth) = Widths(segs, growth)
               /\ Starts(to) = start
               /\ \A id : HasSegment(to, id) <=> HasSegment(segs, id)
               /\ Seated(ss, segs) => Seated(ss, to)
  <1> DEFINE to == WithStarts(segs, start)
             new(i) == [segs[i] EXCEPT !.start = start[i]]
  <1>1. DOMAIN segs = 1 .. Len(segs) /\ Len(segs) \in Nat
    OBVIOUS
  <1>2. to = [i \in 1 .. Len(segs) |-> new(i)]
    BY <1>1 DEF WithStarts
  <1>3. ASSUME NEW i \in 1 .. Len(segs)
        PROVE  /\ new(i) \in SegmentType /\ new(i).id = segs[i].id /\ new(i).length = segs[i].length
               /\ new(i).start = start[i]
    <2>1. segs[i] \in SegmentType /\ start[i] \in Nat
      BY <1>1
    <2> QED BY <2>1 DEF SegmentType
  <1> HIDE DEF new, to
  <1>4. to \in Seq(SegmentType) /\ Len(to) = Len(segs) /\ DOMAIN to = DOMAIN segs
    BY <1>1, <1>2, <1>3
  <1>5. \A i \in DOMAIN segs : to[i].id = segs[i].id /\ to[i].length = segs[i].length /\ to[i].start = start[i]
    BY <1>1, <1>2, <1>3
  <1>6. Lengths(to) = Lengths(segs) /\ Widths(to, growth) = Widths(segs, growth)
    <2>1. \A i \in DOMAIN segs : Growth(to, growth, i) = Growth(segs, growth, i)
      BY <1>5 DEF Growth
    <2>2. Lengths(to) = Lengths(segs)
      BY <1>4, <1>5 DEF Lengths
    <2>3. Widths(to, growth) = Widths(segs, growth)
      BY <1>4, <1>5, <2>1 DEF Widths
    <2> QED BY <2>2, <2>3
  <1>7. Starts(to) = start
    <2>1. Starts(to) = [i \in DOMAIN segs |-> start[i]]
      BY <1>4, <1>5 DEF Starts
    <2> QED BY <2>1
  <1>8. \A id : HasSegment(to, id) <=> HasSegment(segs, id)
    BY <1>4, <1>5 DEF HasSegment
  <1>9. ASSUME Seated(ss, segs) PROVE Seated(ss, to)
    BY <1>4, <1>5, <1>8, <1>9 DEF Seated
  <1> QED BY <1>4, <1>5, <1>6, <1>7, <1>8, <1>9 DEF to

GrownBy == SumUpTo(lens, Len(sessions))
ShiftedTo == [i \in DOMAIN Grown |-> SumUpTo(Widths(Grown, lens), i - 1)]

\* The step has room for everything unless it overflows.
LEMMA PrepareFacts ==
    ASSUME OrderInv, Cells, Flag, SegmentsInOrder, Prepare
    PROVE  /\ pc = "prepare" /\ Used \in Nat /\ GrownBy \in Nat
           /\ segments \in Seq(SegmentType) /\ Laid(segments, Lengths(segments)) /\ Seated(sessions, segments)
           /\ active_cl' \in active_cl .. NumCL /\ active_cl' \in 1 .. NumCL
           /\ overflow' \in BOOLEAN
           /\ ~overflow' => ~overflow /\ Used + GrownBy <= KVLen(active_cl')
           /\ overflow' => kv' = [s \in KVShards |-> [a \in Addr |-> Junk]]
           /\ ~overflow' => kv' = SelectedKV(active_cl', Used)
           /\ ShiftedTo \in [DOMAIN Grown -> Nat] /\ segments' = WithStarts(Grown, ShiftedTo)
           /\ moves' = IF overflow' THEN <<>> ELSE Moves(Grown, ShiftedTo, RightToLeft(Grown))
           /\ kv_segs' = [id \in DOMAIN lens |-> GetSegment(segments', id)]
           /\ pc' = "shard" /\ shard' = 1
           /\ sessions' = sessions /\ batch' = batch /\ lens' = lens /\ in_start' = in_start /\ next' = next
  <1>1. pc = "prepare" /\ segments \in Seq(SegmentType) /\ Laid(segments, Lengths(segments)) /\ Seated(sessions, segments)
    BY DEF Prepare, SegmentsInOrder, Width, Growing
  <1>2. /\ NatValued(lens) /\ Len(sessions) \in Nat
    BY LensNat
  <1>3. Used \in Nat /\ Grown \in Seq(SegmentType)
    BY <1>1, GrownFacts
  <1>4. GrownBy \in Nat
    BY <1>2, SumFacts DEF GrownBy
  <1>5. TotalUsed(Grown) = Used
    BY <1>1, TotalUsedIsUsed
  <1>6. /\ active_cl' = SelectCL(Used + GrownBy)
        /\ overflow' = (overflow \/ Used + GrownBy > KVLen(active_cl'))
        /\ kv' = IF overflow' THEN [s \in KVShards |-> [a \in Addr |-> Junk]] ELSE SelectedKV(active_cl', Used)
        /\ moves' = IF overflow' THEN <<>> ELSE ShiftMoves(Grown, lens)
        /\ segments' = ShiftForGrowth(Grown, lens)
        /\ kv_segs' = [id \in DOMAIN lens |-> GetSegment(segments', id)]
        /\ pc' = "shard" /\ shard' = 1
        /\ sessions' = sessions /\ batch' = batch /\ lens' = lens /\ in_start' = in_start /\ next' = next
    BY <1>5, Zenon DEF Prepare, Grown, Unseated, GrownBy
  <1>7. active_cl' \in active_cl .. NumCL /\ active_cl' \in 1 .. NumCL
    <2>1. active_cl \in 1 .. NumCL /\ Used + GrownBy \in Nat
      BY <1>3, <1>4 DEF Cells
    <2> QED BY <1>6, <2>1, SelectCLFacts
  <1>8. KVLen(active_cl') \in Nat
    BY <1>7, VariantFacts
  <1>9. ~ (Used + GrownBy > KVLen(active_cl')) => Used + GrownBy <= KVLen(active_cl')
    BY <1>3, <1>4, <1>8
  <1>10. /\ overflow' \in BOOLEAN
         /\ ~overflow' => ~overflow /\ Used + GrownBy <= KVLen(active_cl')
    BY <1>6, <1>9, Zenon DEF Flag
  <1>11. ShiftedStarts(Grown, lens) = ShiftedTo
    BY <1>1, <1>2, <1>3, GrownSums, ShiftedAreSums DEF ShiftedTo
  <1>12. ShiftedTo \in [DOMAIN Grown -> Nat]
    <2>1. ASSUME NEW i \in DOMAIN Grown PROVE SumUpTo(Widths(Grown, lens), i - 1) \in Nat
      <3>1. i - 1 \in 0 .. Len(Grown)
        BY <1>3
      <3> QED BY <1>2, <1>3, <3>1, WidthsAdd
    <2> QED BY <2>1 DEF ShiftedTo
  <1>13. /\ segments' = WithStarts(Grown, ShiftedTo)
         /\ moves' = IF overflow' THEN <<>> ELSE Moves(Grown, ShiftedTo, RightToLeft(Grown))
    BY <1>6, <1>11, Zenon DEF ShiftMoves, ShiftForGrowth
  <1>14. /\ overflow' => kv' = [s \in KVShards |-> [a \in Addr |-> Junk]]
         /\ ~overflow' => kv' = SelectedKV(active_cl', Used)
    BY <1>6, Zenon
  <1> QED BY <1>1, <1>3, <1>4, <1>6, <1>7, <1>10, <1>12, <1>13, <1>14, Zenon

\* The segments of the list as they will lie.
LEMMA ShiftedFacts ==
    ASSUME OrderInv, pc = "prepare", segments \in Seq(SegmentType), Laid(segments, Lengths(segments)),
           Seated(sessions, segments), ShiftedTo \in [DOMAIN Grown -> Nat]
    PROVE  LET to == WithStarts(Grown, ShiftedTo)
           IN  /\ to \in Seq(SegmentType) /\ Seated(sessions, to) /\ Laid(to, Widths(to, lens))
               /\ SumUpTo(Widths(to, lens), Len(to)) <= Used + GrownBy
               /\ \A id \in DOMAIN lens : HasSegment(to, id)
               /\ Apart(Grown, Starts(Grown)) /\ Apart(Grown, ShiftedTo)
               /\ \A i \in DOMAIN Grown : Grown[i].length > 0 =>
                     /\ Grown[i].start + Grown[i].length <= Used
                     /\ Grown[i].start <= ShiftedTo[i]
  <1> DEFINE to == WithStarts(Grown, ShiftedTo)
             w == Widths(Grown, lens)
             n == Len(segments)
             m == Len(Grown)
             f == Lengths(segments)
             none == <<>>
  <1>0. NatValued(none)
    BY DEF NatValued
  <1>1. /\ NatValued(lens) /\ Len(sessions) \in Nat
    BY LensNat
  <1>2. /\ Grown \in Seq(SegmentType) /\ n \in Nat /\ m \in Nat /\ DOMAIN segments = 1 .. n /\ DOMAIN Grown = 1 .. m
        /\ \A i \in 1 .. n : i \in DOMAIN Grown /\ Grown[i] = segments[i]
        /\ Used \in Nat
    <2>1. Grown \in Seq(SegmentType)
      BY GrownFacts
    <2> QED BY <2>1, GrownFacts
  <1>3. /\ to \in Seq(SegmentType) /\ DOMAIN to = DOMAIN Grown /\ Len(to) = m
        /\ \A i \in DOMAIN Grown : to[i].length = Grown[i].length /\ to[i].start = ShiftedTo[i]
        /\ Widths(to, lens) = w /\ Starts(to) = ShiftedTo
        /\ \A id : HasSegment(to, id) <=> HasSegment(Grown, id)
        /\ Seated(sessions, Grown) => Seated(sessions, to)
    <2>1. ShiftedTo \in [DOMAIN Grown -> Nat]
      OBVIOUS
    <2> DEFINE start == ShiftedTo
               moved == WithStarts(Grown, start)
    <2> HIDE DEF start
    <2>2. /\ moved \in Seq(SegmentType) /\ DOMAIN moved = DOMAIN Grown /\ Len(moved) = Len(Grown)
          /\ \A i \in DOMAIN Grown : /\ moved[i].id = Grown[i].id /\ moved[i].length = Grown[i].length
                                     /\ moved[i].start = start[i]
      BY ZenonT(40), <1>2, <2>1, WithStartsFacts DEF start
    <2>3. /\ Widths(moved, lens) = Widths(Grown, lens) /\ Starts(moved) = start
          /\ \A id : HasSegment(moved, id) <=> HasSegment(Grown, id)
      BY <1>2, <2>1, WithStartsFacts DEF start
    <2>4. Seated(sessions, Grown) => Seated(sessions, moved)
      BY <1>2, <2>1, WithStartsFacts DEF start
    <2> HIDE DEF moved
    <2>5. moved = to
      BY DEF moved, start
    <2> QED BY <2>2, <2>3, <2>4, <2>5 DEF start
  <1>4. /\ Seated(sessions, Grown) /\ \A id \in DOMAIN lens : HasSegment(Grown, id)
        /\ \A i \in DOMAIN Grown : Grown[i].length + Growth(Grown, lens, i) > 0
        /\ \A i \in DOMAIN Grown : Grown[i].length > 0 => i \in DOMAIN segments
    BY GrownSeated
  <1>5. /\ w \in [1 .. m -> Nat] /\ NatValued(w)
        /\ \A i \in DOMAIN Grown : w[i] = Grown[i].length + Growth(Grown, lens, i)
        /\ \A i \in DOMAIN Grown : Grown[i].length \in Nat /\ Growth(Grown, lens, i) \in Nat
    BY <1>1, <1>2, SegmentFacts
  <1>6. /\ f \in [1 .. n -> Nat] /\ \A i \in DOMAIN segments : f[i] = segments[i].length
    <2> HIDE DEF none
    <2> QED BY <1>0, SegmentFacts
  <1> HIDE DEF to, w, f
  <1>7. Laid(to, w)
    <2>1. \A i \in DOMAIN Grown : ShiftedTo[i] = SumUpTo(w, i - 1)
      BY DEF ShiftedTo, w
    <2> QED BY ZenonT(40), <1>3, <1>4, <1>5, <2>1 DEF Laid
  <1>8. SumUpTo(w, m) <= Used + GrownBy
    <2>1. m \in 0 .. m
      BY <1>2
    <2>2. /\ SumUpTo(w, m) = SumUpTo(Lengths(Grown), m) + SumUpTo(Growths(Grown, lens), m)
          /\ SumUpTo(Growths(Grown, lens), m) \in Nat
      BY <1>1, <1>2, <2>1, WidthsAdd DEF w
    <2>3. SumUpTo(Lengths(Grown), m) = Used /\ SumUpTo(Growths(Grown, lens), m) <= GrownBy
      BY GrownSums DEF GrownBy
    <2>4. GrownBy \in Nat
      BY <1>1, SumFacts DEF GrownBy
    <2> QED BY <1>2, <2>2, <2>3, <2>4
  <1>9. Apart(Grown, ShiftedTo)
    <2>1. \A i \in DOMAIN to : to[i].length <= w[i]
      BY SMTT(40), <1>3, <1>5
    <2>2. Apart(to, Starts(to))
      BY <1>3, <1>5, <1>7, <2>1, LaidApart
    <2> QED BY <1>3, <2>2 DEF Apart
  <1>10. Apart(Grown, Starts(Grown))
    <2>1. \A i \in DOMAIN segments : segments[i].length <= f[i]
      <3>1. \A i \in DOMAIN segments : f[i] \in Nat
        BY <1>2, <1>6
      <3> QED BY <1>6, <3>1
    <2>2. Apart(segments, Starts(segments))
      BY <1>6, <2>1, LaidApart DEF f
    <2> SUFFICES ASSUME NEW i \in DOMAIN Grown, NEW j \in DOMAIN Grown, i < j, Grown[i].length > 0, Grown[j].length > 0
                 PROVE  Starts(Grown)[i] + Grown[i].length <= Starts(Grown)[j]
      BY DEF Apart
    <2>3. i \in DOMAIN segments /\ j \in DOMAIN segments /\ Grown[i] = segments[i] /\ Grown[j] = segments[j]
      BY <1>2, <1>4
    <2>4. /\ Starts(Grown)[i] = Starts(segments)[i] /\ Starts(Grown)[j] = Starts(segments)[j]
      BY <2>3 DEF Starts
    <2> QED BY <2>2, <2>3, <2>4 DEF Apart
  <1>11. ASSUME NEW i \in DOMAIN Grown, Grown[i].length > 0
         PROVE  Grown[i].start + Grown[i].length <= Used /\ Grown[i].start <= ShiftedTo[i]
    <2>1. i \in DOMAIN segments /\ i \in 1 .. n /\ i \in 1 .. m /\ Grown[i] = segments[i] /\ i - 1 \in 0 .. m
      BY <1>2, <1>4, <1>11
    <2>2. segments[i].start + f[i] <= SumUpTo(f, n)
      BY <1>6, <2>1, LaidFacts DEF f
    <2>3. Grown[i].start = SumUpTo(Lengths(Grown), i - 1)
      BY <1>11, GrownSums
    <2>4. /\ SumUpTo(w, i - 1) = SumUpTo(Lengths(Grown), i - 1) + SumUpTo(Growths(Grown, lens), i - 1)
          /\ SumUpTo(Growths(Grown, lens), i - 1) \in Nat /\ SumUpTo(Lengths(Grown), i - 1) \in Nat
      BY <1>1, <1>2, <2>1, WidthsAdd DEF w
    <2>5. ShiftedTo[i] = SumUpTo(w, i - 1)
      BY DEF ShiftedTo, w
    <2>6. Grown[i].start <= ShiftedTo[i]
      BY <2>3, <2>4, <2>5
    <2> QED BY <1>6, <2>1, <2>2, <2>6 DEF Used, f
  <1> QED BY <1>3, <1>4, <1>7, <1>8, <1>9, <1>10, <1>11 DEF to

LEMMA PrepareSegments ==
    ASSUME OrderInv, Cells, Flag, SegmentsInOrder, Prepare
    PROVE  SegmentsInOrder' /\ MovesInOrder' /\ Flag'
  <1> DEFINE to == WithStarts(Grown, ShiftedTo)
  <1>1. /\ pc = "prepare" /\ Used \in Nat /\ GrownBy \in Nat
        /\ segments \in Seq(SegmentType) /\ Laid(segments, Lengths(segments)) /\ Seated(sessions, segments)
        /\ active_cl' \in 1 .. NumCL /\ overflow' \in BOOLEAN
        /\ ~overflow' => ~overflow /\ Used + GrownBy <= KVLen(active_cl')
        /\ ShiftedTo \in [DOMAIN Grown -> Nat] /\ segments' = to
        /\ moves' = IF overflow' THEN <<>> ELSE Moves(Grown, ShiftedTo, RightToLeft(Grown))
        /\ kv_segs' = [id \in DOMAIN lens |-> GetSegment(segments', id)]
        /\ pc' = "shard" /\ shard' = 1
        /\ sessions' = sessions /\ batch' = batch /\ lens' = lens
    BY PrepareFacts, Zenon
  <1>2. /\ to \in Seq(SegmentType) /\ Seated(sessions, to) /\ Laid(to, Widths(to, lens))
        /\ SumUpTo(Widths(to, lens), Len(to)) <= Used + GrownBy
        /\ \A id \in DOMAIN lens : HasSegment(to, id)
        /\ Apart(Grown, Starts(Grown)) /\ Apart(Grown, ShiftedTo)
        /\ \A i \in DOMAIN Grown : Grown[i].length > 0 =>
              /\ Grown[i].start + Grown[i].length <= Used
              /\ Grown[i].start <= ShiftedTo[i]
    BY <1>1, ShiftedFacts
  <1>3. KVLen(active_cl') \in Nat /\ Grown \in Seq(SegmentType)
    BY <1>1, GrownFacts, VariantFacts
  <1>4. NatValued(lens)
    BY LensNat
  <1> HIDE DEF to
  <1>5. SumUpTo(Widths(to, lens), Len(to)) \in Nat
    <2>1. Len(to) \in 0 .. Len(to)
      BY <1>2
    <2> QED BY <1>2, <1>4, <2>1, WidthsAdd
  <1>6. Width' = Widths(to, lens)
    BY <1>1 DEF Width, Growing
  <1>7. ~overflow' => SumUpTo(Widths(to, lens), Len(to)) <= KVLen(active_cl')
    <2>1. ASSUME Used + GrownBy <= KVLen(active_cl') PROVE SumUpTo(Widths(to, lens), Len(to)) <= KVLen(active_cl')
      BY <1>1, <1>2, <1>3, <1>5, <2>1
    <2> QED BY <1>1, <2>1, Zenon
  <1>8. SegmentsInOrder'
    <2>1. segments' \in Seq(SegmentType) /\ Seated(sessions', segments') /\ Laid(segments', Width')
      BY <1>1, <1>2, <1>6
    <2>2. ~overflow' => SumUpTo(Width', Len(segments')) <= KVLen(active_cl')
      BY <1>1, <1>6, <1>7, Zenon
    <2>3. \A id \in DOMAIN lens' : HasSegment(segments', id) /\ kv_segs'[id] = GetSegment(segments', id)
      BY <1>1, <1>2
    <2>4. pc' = "shard"
      BY <1>1
    <2>5. pc' \notin {"idle", "pick", "prepare"}
      BY <2>4
    <2> QED BY <2>1, <2>2, <2>3, <2>5, Zenon DEF SegmentsInOrder
  <1>9. MovesLeft(moves', segments', KVLen(active_cl'))
    <2>1. CASE overflow'
      <3>1. moves' = <<>>
        BY <1>1, <2>1, Zenon
      <3> QED BY <3>1 DEF MovesLeft
    <2>2. CASE ~overflow'
      <3>1. moves' = Moves(Grown, ShiftedTo, RightToLeft(Grown)) /\ Used + GrownBy <= KVLen(active_cl')
        BY <1>1, <2>2, Zenon
      <3>2. ASSUME NEW i \in DOMAIN Grown, Moving(Grown, ShiftedTo, i)
            PROVE  Grown[i].start + Grown[i].length <= KVLen(active_cl') /\ Grown[i].start <= ShiftedTo[i]
        <4>1. Grown[i].start + Grown[i].length <= Used /\ Grown[i].start <= ShiftedTo[i]
          BY <1>2, <3>2 DEF Moving
        <4>2. Grown[i].start \in Nat /\ Grown[i].length \in Nat
          BY <1>3, <1>4, SegmentFacts
        <4> QED BY SMTT(40), <1>1, <1>3, <3>1, <4>1, <4>2
      <3>3. ShiftedTo \in [DOMAIN Grown -> Nat]
        BY <1>1
      <3>4. MovesLeft(Moves(Grown, ShiftedTo, RightToLeft(Grown)), WithStarts(Grown, ShiftedTo), KVLen(active_cl'))
        BY <1>2, <1>3, <3>2, <3>3, MovesToRight
      <3> QED BY <1>1, <3>1, <3>4 DEF to
    <2> QED BY <1>1, <2>1, <2>2
  <1>10. MovesInOrder'
    <2>1. moves' # <<>> => ~overflow'
      BY <1>1, Zenon
    <2> QED BY <1>1, <1>9, <2>1, Zenon DEF MovesInOrder
  <1>11. Flag'
    BY <1>1, Zenon DEF Flag
  <1> QED BY <1>8, <1>10, <1>11
-----------------------------------------------------------------------------
(* Sessions that keep what they have read.                                 *)

Keeps(s, t) ==
    /\ t.processed = s.processed
    /\ \A k \in 1 .. s.processed : SubSeq(Text(t), 1, k) = SubSeq(Text(s), 1, k)

Carried(ss, tt) ==
    /\ DOMAIN ss \subseteq DOMAIN tt
    /\ \A i \in DOMAIN ss : Keeps(ss[i], tt[i])
    /\ \A i \in ActiveOf(tt) : IF i \in DOMAIN ss THEN i \in ActiveOf(ss) ELSE tt[i].processed = 0

LEMMA CarriedSeated ==
    ASSUME NEW ss, NEW tt, NEW segs, Carried(ss, tt), Seated(ss, segs)
    PROVE  Seated(tt, segs)
  <1>1. /\ DOMAIN ss \subseteq DOMAIN tt /\ \A i \in DOMAIN ss : tt[i].processed = ss[i].processed
        /\ \A i \in ActiveOf(tt) : IF i \in DOMAIN ss THEN i \in ActiveOf(ss) ELSE tt[i].processed = 0
    BY DEF Carried, Keeps
  <1>2. /\ \A i, j \in DOMAIN segs : segs[i].id = segs[j].id => i = j
        /\ \A i \in DOMAIN segs : segs[i].id \in DOMAIN ss /\ segs[i].length = ss[segs[i].id].processed
        /\ \A id \in ActiveOf(ss) : ss[id].processed > 0 => HasSegment(segs, id)
    BY DEF Seated
  <1>3. \A id \in ActiveOf(tt) : tt[id].processed > 0 => HasSegment(segs, id)
    <2> SUFFICES ASSUME NEW id \in ActiveOf(tt), tt[id].processed > 0 PROVE HasSegment(segs, id)
      OBVIOUS
    <2>1. id \in DOMAIN ss
      BY <1>1
    <2> QED BY <1>1, <1>2, <2>1
  <1>4. \A i \in DOMAIN segs : segs[i].id \in DOMAIN tt /\ segs[i].length = tt[segs[i].id].processed
    BY <1>1, <1>2
  <1> QED BY <1>2, <1>3, <1>4 DEF Seated

LEMMA CarriedHeld ==
    ASSUME NEW ss, NEW tt, NEW segs, Carried(ss, tt), Seated(ss, segs), Sessions(ss),
           NEW c, NEW kv_len, NEW mv, Held(c, kv_len, ss, segs, mv)
    PROVE  Held(c, kv_len, tt, segs, mv)
  <1> SUFFICES ASSUME NEW s \in KVShards, NEW i \in DOMAIN segs
               PROVE  LET h == tt[segs[i].id]
                          here(at) == Holds(c[s], kv_len, at, Text(h), h.processed)
                      IN  /\ \A k \in DOMAIN mv : mv[k].dst = segs[i].start => here(mv[k].src)
                          /\ (\A k \in DOMAIN mv : mv[k].dst # segs[i].start) => here(segs[i].start)
    BY DEF Held
  <1> DEFINE id == segs[i].id
             h == ss[id]
             g == tt[id]
  <1>1. id \in DOMAIN ss
    BY DEF Seated
  <1>2. Keeps(h, g)
    BY <1>1 DEF Carried
  <1>3. h.processed \in Nat
    <2>1. ss \in Seq(SessionType)
      BY DEF Sessions
    <2>2. h \in SessionType
      BY <1>1, <2>1
    <2> QED BY <2>2 DEF SessionType
  <1>4. /\ \A k \in DOMAIN mv : mv[k].dst = segs[i].start => Holds(c[s], kv_len, mv[k].src, Text(h), h.processed)
        /\ (\A k \in DOMAIN mv : mv[k].dst # segs[i].start) => Holds(c[s], kv_len, segs[i].start, Text(h), h.processed)
    BY DEF Held
  <1> HIDE DEF h, g
  <1>5. ASSUME NEW at, Holds(c[s], kv_len, at, Text(h), h.processed)
        PROVE  Holds(c[s], kv_len, at, Text(g), g.processed)
    <2> DEFINE n == h.processed
    <2>1. g.processed = n /\ \A k \in 1 .. n : SubSeq(Text(g), 1, k) = SubSeq(Text(h), 1, k)
      BY <1>2 DEF Keeps
    <2>2. \A r \in Row, k \in 0 .. n - 1 : c[s][r * kv_len + (at + k)] = <<r, SubSeq(Text(h), 1, k + 1)>>
      BY <1>5 DEF Holds
    <2> HIDE DEF n
    <2> SUFFICES ASSUME NEW r \in Row, NEW k \in 0 .. n - 1
                 PROVE  c[s][r * kv_len + (at + k)] = <<r, SubSeq(Text(g), 1, k + 1)>>
      BY <2>1 DEF Holds
    <2>3. k + 1 \in 1 .. n
      BY <1>3 DEF n
    <2> QED BY <2>1, <2>2, <2>3
  <1> QED BY <1>4, <1>5 DEF h, g

\* Sessions whose texts stay or grow behind what they have read.
LEMMA KeepsLonger ==
    ASSUME NEW s, NEW t, t.processed = s.processed, Text(s) \in Seq(Token), s.processed \in 0 .. Len(Text(s)),
           Text(t) = Text(s) \/ \E tok \in Token : Text(t) = Append(Text(s), tok)
    PROVE  Keeps(s, t)
  <1> DEFINE x == Text(s)
             y == Text(t)
             n == s.processed
  <1> SUFFICES ASSUME NEW k \in 1 .. n PROVE SubSeq(y, 1, k) = SubSeq(x, 1, k)
    BY DEF Keeps
  <1>1. x \in Seq(Token) /\ k <= Len(x) /\ k \in Nat /\ Len(x) \in Nat
    OBVIOUS
  <1>2. CASE y = x
    BY <1>2
  <1>3. ASSUME NEW tok \in Token, y = Append(x, tok) PROVE SubSeq(y, 1, k) = SubSeq(x, 1, k)
    <2> HIDE DEF x, n, y
    <2>1. \A i \in 1 .. k : y[i] = x[i]
      BY <1>1, <1>3
    <2>2. y \in Seq(Token) /\ k <= Len(y)
      BY <1>1, <1>3
    <2>3. /\ SubSeq(x, 1, k) \in Seq(Token) /\ Len(SubSeq(x, 1, k)) = k
          /\ SubSeq(y, 1, k) \in Seq(Token) /\ Len(SubSeq(y, 1, k)) = k
          /\ \A i \in 1 .. k : SubSeq(x, 1, k)[i] = x[i] /\ SubSeq(y, 1, k)[i] = y[i]
      <3>1. 1 \in Nat \ {0} /\ (1 <= k => k - 1 + 1 = k)
        BY <1>1
      <3> QED BY <1>1, <2>2, <3>1, SubSeqProperties
    <2> QED BY <2>1, <2>3
  <1> QED BY <1>2, <1>3

LEMMA AddSessionCarries ==
    ASSUME OrderInv, NEW m \in MaxTokens, AddSession(m)
    PROVE  Carried(sessions, sessions') /\ ActiveOf(sessions) \subseteq ActiveOf(sessions')
  <1> DEFINE n == Len(sessions)
             new == [id |-> n + 1, query |-> Queries[n + 1], processed |-> 0, status |-> "waiting",
                     generated |-> <<>>, max_tokens |-> m, pending |-> Pad]
  <1>1. sessions' = Append(sessions, new) /\ sessions \in Seq(SessionType)
    BY DEF AddSession, OrderInv, SessionsInOrder, Sessions
  <1>2. new.processed = 0
    OBVIOUS
  <1> HIDE DEF new
  <1>3. /\ n \in Nat /\ DOMAIN sessions = 1 .. n /\ DOMAIN sessions' = 1 .. n + 1
        /\ \A i \in 1 .. n : sessions'[i] = sessions[i]
        /\ sessions'[n + 1] = new
    BY <1>1
  <1>4. ASSUME NEW i \in ActiveOf(sessions')
        PROVE  IF i \in DOMAIN sessions THEN i \in ActiveOf(sessions) ELSE sessions'[i].processed = 0
    <2>1. i \in 1 .. n + 1 /\ sessions'[i].status # "completed"
      BY <1>3, <1>4 DEF ActiveOf
    <2>2. CASE i \in 1 .. n
      BY <1>3, <2>1, <2>2 DEF ActiveOf
    <2>3. CASE i = n + 1
      BY <1>2, <1>3, <2>3
    <2> QED BY <1>3, <2>1, <2>2, <2>3
  <1>5. ActiveOf(sessions) \subseteq ActiveOf(sessions')
    BY <1>3 DEF ActiveOf
  <1>6. \A i \in DOMAIN sessions : Keeps(sessions[i], sessions'[i])
    BY <1>3 DEF Keeps
  <1> QED BY <1>3, <1>4, <1>5, <1>6 DEF Carried

LEMMA PickCarries ==
    ASSUME OrderInv, Pick
    PROVE  Carried(sessions, sessions') /\ ActiveOf(sessions) \subseteq ActiveOf(sessions')
  <1> DEFINE running(i) == IF i \in DOMAIN NextBatch THEN [sessions[i] EXCEPT !.status = "running"]
                           ELSE sessions[i]
  <1>1. sessions' = [i \in DOMAIN sessions |-> running(i)] /\ Sessions(sessions)
    BY DEF Pick, OrderInv, SessionsInOrder
  <1>2. ASSUME NEW i \in DOMAIN sessions
        PROVE  /\ sessions'[i].processed = sessions[i].processed /\ Text(sessions'[i]) = Text(sessions[i])
               /\ (sessions'[i].status = "completed" <=> sessions[i].status = "completed")
    <2>1. sessions[i] \in SessionType
      BY <1>1, SessionFacts
    <2>2. CASE i \in DOMAIN NextBatch
      <3>1. i \in Active
        BY <1>1, <2>2, NextBatchType
      <3> QED BY <1>1, <2>1, <2>2, <3>1 DEF SessionType, Text, Active
    <2>3. CASE i \notin DOMAIN NextBatch
      BY <1>1, <2>3
    <2> QED BY <2>2, <2>3
  <1>3. DOMAIN sessions' = DOMAIN sessions
    BY <1>1
  <1>4. ActiveOf(sessions') = ActiveOf(sessions)
    BY <1>2, <1>3 DEF ActiveOf
  <1>5. \A i \in DOMAIN sessions : Keeps(sessions[i], sessions'[i])
    BY <1>2 DEF Keeps
  <1>6. \A i \in ActiveOf(sessions') : i \in DOMAIN sessions
    BY <1>4 DEF ActiveOf
  <1> QED BY <1>3, <1>4, <1>5, <1>6 DEF Carried

LEMMA SampleCarries ==
    ASSUME OrderInv, Sample
    PROVE  Carried(sessions, sessions')
  <1> DEFINE id == batch[next]
  <1>1. /\ Sessions(sessions') /\ DOMAIN sessions' = DOMAIN sessions
        /\ \A i \in DOMAIN sessions : i # id => sessions'[i] = sessions[i]
        /\ ActiveOf(sessions) \ {id} = ActiveOf(sessions') \ {id}
        /\ sessions'[id].processed = sessions[id].processed /\ sessions'[id].query = sessions[id].query
        /\ sessions'[id].generated = sessions[id].generated
             \/ \E tok \in Token : sessions'[id].generated = Append(sessions[id].generated, tok)
    BY SampleDone
  <1>2. id \in DOMAIN sessions /\ id \in ActiveOf(sessions) /\ Sessions(sessions)
    BY DueFacts DEF Sample, OrderInv, SessionsInOrder
  <1> HIDE DEF id
  <1>3. /\ sessions[id].query \in Seq(Token) /\ sessions[id].generated \in Seq(Token)
        /\ sessions[id].processed \in 0 .. Len(Text(sessions[id])) /\ Text(sessions[id]) \in Seq(Token)
    <2>1. /\ sessions[id].query \in Seq(Token) /\ sessions[id].generated \in Seq(Token)
          /\ sessions[id].processed \in Nat /\ sessions[id].processed <= Len(Text(sessions[id]))
          /\ Text(sessions[id]) \in Seq(Token)
      BY <1>2, SessionFacts
    <2> QED BY <2>1
  <1>4. ASSUME NEW tok \in Token, sessions'[id].generated = Append(sessions[id].generated, tok)
        PROVE  Text(sessions'[id]) = Append(Text(sessions[id]), tok)
    <2> DEFINE q == sessions[id].query
               g == sessions[id].generated
               e == <<tok>>
    <2>1. q \in Seq(Token) /\ g \in Seq(Token) /\ e \in Seq(Token) /\ sessions'[id].query = q
          /\ sessions'[id].generated = Append(g, tok) /\ Text(sessions[id]) = q \o g
          /\ Text(sessions'[id]) = sessions'[id].query \o sessions'[id].generated
      BY <1>1, <1>3, <1>4 DEF Text
    <2>2. e = <<tok>>
      OBVIOUS
    <2> HIDE DEF q, g, e
    <2>3. q \o g \in Seq(Token)
      BY <2>1
    <2>4. Append(g, tok) = g \o e /\ Append(q \o g, tok) = (q \o g) \o e
      BY <2>1, <2>2, <2>3, AppendIsConcat
    <2>5. (q \o g) \o e = q \o (g \o e)
      BY SMTT(40), <2>1, ConcatAssociative
    <2> QED BY <2>1, <2>4, <2>5
  <1>5. Keeps(sessions[id], sessions'[id])
    <2>1. CASE sessions'[id].generated = sessions[id].generated
      <3>1. Text(sessions'[id]) = Text(sessions[id])
        BY <1>1, <2>1 DEF Text
      <3> QED BY <1>1, <1>3, <3>1, KeepsLonger
    <2>2. CASE \E tok \in Token : sessions'[id].generated = Append(sessions[id].generated, tok)
      <3>1. \E tok \in Token : Text(sessions'[id]) = Append(Text(sessions[id]), tok)
        BY <1>4, <2>2
      <3> QED BY <1>1, <1>3, <3>1, KeepsLonger
    <2> QED BY <1>1, <2>1, <2>2
  <1>6. ASSUME NEW i \in DOMAIN sessions PROVE Keeps(sessions[i], sessions'[i])
    <2>1. CASE i = id
      BY <1>5, <2>1
    <2>2. CASE i # id
      <3>1. sessions'[i] = sessions[i]
        BY <1>1, <2>2
      <3> QED BY <3>1 DEF Keeps
    <2> QED BY <2>1, <2>2
  <1>7. \A i \in ActiveOf(sessions') : i \in DOMAIN sessions /\ i \in ActiveOf(sessions)
    BY <1>1, <1>2 DEF ActiveOf
  <1> QED BY SMTT(40), <1>1, <1>6, <1>7 DEF Carried
-----------------------------------------------------------------------------
(* Segments stay in order.                                                 *)

\* Where the segments stay as they are and no tokens are being taken.
LEMMA SegmentsKept ==
    ASSUME SegmentsInOrder, MovesInOrder, Carried(sessions, sessions'), pc # "thrown", ~Growing, ~Growing',
           segments' = segments, active_cl' = active_cl, overflow' = overflow, moves' = moves,
           pc' \in {"idle", "pick", "prepare"} =>
              \A i \in DOMAIN segments : segments[i].id \in ActiveOf(sessions'),
           moves # <<>> => pc' = pc /\ shard' = shard
    PROVE  SegmentsInOrder' /\ MovesInOrder'
  <1>1. /\ segments \in Seq(SegmentType) /\ Seated(sessions, segments) /\ Laid(segments, Width)
        /\ ~overflow => SumUpTo(Width, Len(segments)) <= KVLen(active_cl)
    BY DEF SegmentsInOrder
  <1>2. Width = Lengths(segments) /\ Width' = Lengths(segments')
    BY DEF Width
  <1>3. Seated(sessions', segments)
    BY <1>1, CarriedSeated
  <1>4. Laid(segments', Width')
    BY <1>1, <1>2
  <1>5. ~overflow' => SumUpTo(Width', Len(segments')) <= KVLen(active_cl')
    BY <1>1, <1>2, Zenon
  <1>6. SegmentsInOrder'
    BY <1>1, <1>3, <1>4, <1>5, Zenon DEF SegmentsInOrder
  <1>7. MovesInOrder'
    BY Zenon DEF MovesInOrder
  <1> QED BY <1>6, <1>7

LEMMA CarriedSame == Carried(sessions, sessions)
  BY DEF Carried, Keeps, ActiveOf

\* The steps that leave the segments alone.
LEMMA KeptSegments ==
    ASSUME OrderInv, SegmentsInOrder, MovesInOrder,
           \/ \E m \in MaxTokens : AddSession(m)
           \/ GenerateBatch \/ Return \/ Pick \/ Sample
    PROVE  SegmentsInOrder' /\ MovesInOrder'
  <1>1. pc \in {"idle", "pick", "prepare"} => \A i \in DOMAIN segments : segments[i].id \in ActiveOf(sessions)
    BY DEF SegmentsInOrder
  <1>2. ASSUME NEW m \in MaxTokens, AddSession(m) PROVE SegmentsInOrder' /\ MovesInOrder'
    <2>1. /\ pc = "idle" /\ pc' = pc /\ segments' = segments /\ active_cl' = active_cl /\ overflow' = overflow
          /\ moves' = moves /\ shard' = shard
      BY <1>2 DEF AddSession, step
    <2>2. Carried(sessions, sessions') /\ ActiveOf(sessions) \subseteq ActiveOf(sessions')
      BY <1>2, AddSessionCarries
    <2>3. pc # "thrown" /\ ~Growing /\ ~Growing'
      BY <2>1 DEF Growing
    <2>4. \A i \in DOMAIN segments : segments[i].id \in ActiveOf(sessions')
      BY <1>1, <2>1, <2>2
    <2> QED BY <2>1, <2>2, <2>3, <2>4, SegmentsKept
  <1>3. ASSUME GenerateBatch \/ Return PROVE SegmentsInOrder' /\ MovesInOrder'
    <2>1. /\ pc \in {"idle", "pick"} /\ pc' \in {"idle", "pick"} /\ segments' = segments /\ active_cl' = active_cl
          /\ overflow' = overflow /\ moves' = moves /\ sessions' = sessions
          /\ pc = "idle" \/ moves = <<>>
      BY <1>3 DEF GenerateBatch, Return, step
    <2>2. moves = <<>>
      BY <2>1 DEF MovesInOrder
    <2>3. pc # "thrown" /\ ~Growing /\ ~Growing'
      BY <2>1 DEF Growing
    <2>4. \A i \in DOMAIN segments : segments[i].id \in ActiveOf(sessions')
      BY <1>1, <2>1
    <2>5. Carried(sessions, sessions')
      BY <2>1, CarriedSame
    <2> QED BY <2>1, <2>2, <2>3, <2>4, <2>5, SegmentsKept
  <1>4. ASSUME Pick PROVE SegmentsInOrder' /\ MovesInOrder'
    <2>1. /\ pc = "pick" /\ pc' = "prepare" /\ segments' = segments /\ active_cl' = active_cl
          /\ overflow' = overflow /\ moves' = moves /\ moves = <<>>
      BY <1>4 DEF Pick
    <2>2. Carried(sessions, sessions') /\ ActiveOf(sessions) \subseteq ActiveOf(sessions')
      BY <1>4, PickCarries
    <2>3. pc # "thrown" /\ ~Growing /\ ~Growing'
      BY <2>1 DEF Growing
    <2>4. \A i \in DOMAIN segments : segments[i].id \in ActiveOf(sessions')
      BY <1>1, <2>1, <2>2
    <2> QED BY <2>1, <2>2, <2>3, <2>4, SegmentsKept
  <1>5. ASSUME Sample PROVE SegmentsInOrder' /\ MovesInOrder'
    <2>1. /\ pc = "sample" /\ pc' = pc /\ segments' = segments /\ active_cl' = active_cl
          /\ overflow' = overflow /\ moves' = moves /\ shard' = shard
      BY <1>5 DEF Sample
    <2>2. Carried(sessions, sessions')
      BY <1>5, SampleCarries
    <2>3. pc # "thrown" /\ ~Growing /\ ~Growing' /\ pc' \notin {"idle", "pick", "prepare"}
      BY <2>1 DEF Growing
    <2> QED BY <2>1, <2>2, <2>3, SegmentsKept
  <1> QED BY <1>2, <1>3, <1>4, <1>5

\* No moves are left.
LEMMA NoMovesLeft ==
    ASSUME moves' = <<>>
    PROVE  MovesInOrder'
  BY DEF MovesInOrder, MovesLeft

LEMMA RunShardSegments ==
    ASSUME OrderInv, SegmentsInOrder, RunShard
    PROVE  SegmentsInOrder' /\ MovesInOrder'
  <1>1. /\ pc = "shard" /\ pc' \in {"shard", "update"} /\ moves' = <<>>
        /\ segments' = segments /\ sessions' = sessions /\ active_cl' = active_cl /\ overflow' = overflow
        /\ lens' = lens /\ kv_segs' = kv_segs
    BY DEF RunShard
  <1>2. Growing /\ Growing' /\ pc # "thrown" /\ pc' \notin {"idle", "pick", "prepare"}
    BY <1>1 DEF Growing
  <1>3. Width' = Width
    BY <1>1, <1>2 DEF Width
  <1>4. SegmentsInOrder'
    BY <1>1, <1>2, <1>3, Zenon DEF SegmentsInOrder
  <1> QED BY <1>1, <1>4, NoMovesLeft

LEMMA ThrowSegments ==
    ASSUME SegmentsInOrder, MovesInOrder, ExecuteFails \/ CallbackThrows
    PROVE  SegmentsInOrder' /\ MovesInOrder'
  <1>1. /\ pc' = "thrown" /\ segments' = segments /\ moves' = moves
        /\ pc = "sample" \/ moves = <<>>
    BY DEF ExecuteFails, CallbackThrows, Throw
  <1>2. moves = <<>>
    BY <1>1 DEF MovesInOrder
  <1>3. pc' \notin {"idle", "pick", "prepare", "shard", "update"}
    BY <1>1
  <1>4. SegmentsInOrder'
    BY <1>1, <1>3 DEF SegmentsInOrder, Growing
  <1> QED BY <1>1, <1>2, <1>4, NoMovesLeft

LEMMA NoSegments ==
    ASSUME sessions' = <<>>, segments' = <<>>, pc' = "idle", active_cl' \in 1 .. NumCL
    PROVE  SegmentsInOrder'
  <1> DEFINE none == <<>>
             w == Lengths(none)
  <1>1. none \in Seq(SegmentType) /\ DOMAIN none = {} /\ Len(none) = 0
    OBVIOUS
  <1>2. Seated(none, none)
    BY DEF Seated, ActiveOf
  <1>3. Width' = w
    BY DEF Width, Growing
  <1> HIDE DEF none
  <1>4. Laid(none, w)
    BY <1>1 DEF Laid
  <1>5. SumUpTo(w, 0) = 0
    <2>1. NatValued(w)
      BY <1>1 DEF Lengths, NatValued
    <2> QED BY <2>1, SumFacts
  <1>6. SumUpTo(Width', Len(segments')) <= KVLen(active_cl')
    <2>1. KVLen(active_cl') \in Nat
      BY VariantFacts
    <2> QED BY <1>1, <1>3, <1>5, <2>1 DEF none
  <1>7. pc' \notin {"shard", "update"}
    OBVIOUS
  <1>8. sessions' = none /\ segments' = none
    BY DEF none
  <1>9. \A i \in DOMAIN segments' : segments'[i].id \in ActiveOf(sessions')
    BY <1>1, <1>8
  <1> HIDE DEF w
  <1>10. segments' \in Seq(SegmentType) /\ Seated(sessions', segments') /\ Laid(segments', Width')
    BY <1>1, <1>2, <1>3, <1>4, <1>8
  <1> QED BY <1>6, <1>7, <1>9, <1>10 DEF SegmentsInOrder, Growing

LEMMA NewSchedulerSegments ==
    ASSUME Cells, MovesInOrder, NEW reset \in BOOLEAN, NewScheduler(reset)
    PROVE  SegmentsInOrder' /\ MovesInOrder' /\ active_cl' \in 1 .. NumCL
  <1>1. /\ pc \in {"idle", "thrown"} /\ pc' = "idle" /\ sessions' = <<>> /\ segments' = <<>> /\ moves' = moves
        /\ active_cl' = IF reset THEN 1 ELSE active_cl
    BY DEF NewScheduler
  <1>2. active_cl' \in 1 .. NumCL
    BY <1>1, VariantFacts DEF Cells
  <1>3. moves = <<>>
    BY <1>1 DEF MovesInOrder
  <1> QED BY <1>1, <1>2, <1>3, NoSegments, NoMovesLeft

LEMMA MoveKVBufferSegments ==
    ASSUME SegmentsInOrder, MovesInOrder, MoveKVBuffer
    PROVE  SegmentsInOrder' /\ MovesInOrder'
  <1>1. /\ moves # <<>> /\ moves' = Tail(moves)
        /\ segments' = segments /\ sessions' = sessions /\ active_cl' = active_cl /\ overflow' = overflow
        /\ lens' = lens /\ kv_segs' = kv_segs /\ pc' = pc /\ shard' = shard
    BY DEF MoveKVBuffer, step
  <1>2. Width' = Width /\ Growing' = Growing
    BY <1>1 DEF Width, Growing
  <1>3. SegmentsInOrder'
    BY <1>1, <1>2 DEF SegmentsInOrder
  <1>4. MovesLeft(moves, segments, KVLen(active_cl)) /\ ~overflow /\ (pc = "pick" \/ (pc = "shard" /\ shard = 1))
    BY <1>1 DEF MovesInOrder
  <1>5. moves \in Seq(MoveType) /\ Len(moves) \in Nat \ {0} /\ DOMAIN moves = 1 .. Len(moves)
    BY <1>1, <1>4, EmptySeq DEF MovesLeft
  <1>6. /\ Tail(moves) \in Seq(MoveType) /\ DOMAIN Tail(moves) = 1 .. Len(moves) - 1
        /\ \A k \in 1 .. Len(moves) - 1 : Tail(moves)[k] = moves[k + 1] /\ k + 1 \in DOMAIN moves
    BY <1>1, <1>5
  <1>7. MovesLeft(Tail(moves), segments, KVLen(active_cl))
    <2> DEFINE mv == Tail(moves)
    <2>1. ASSUME NEW k \in DOMAIN mv
          PROVE  mv[k].src + mv[k].len <= KVLen(active_cl) /\ \E i \in DOMAIN segments : Brings(mv[k], segments[i])
      <3>1. mv[k] = moves[k + 1] /\ k + 1 \in DOMAIN moves
        BY <1>6
      <3> QED BY <1>4, <3>1 DEF MovesLeft
    <2>2. ASSUME NEW k \in DOMAIN mv, NEW l \in DOMAIN mv, k < l
          PROVE  /\ mv[k].dst # mv[l].dst
                 /\ mv[k].dst + mv[k].len <= mv[l].src \/ mv[l].src + mv[l].len <= mv[k].dst
      <3>1. mv[k] = moves[k + 1] /\ k + 1 \in DOMAIN moves /\ mv[l] = moves[l + 1] /\ l + 1 \in DOMAIN moves
        BY <1>6
      <3>2. k + 1 < l + 1
        BY <1>6, <2>2
      <3> QED BY <1>4, <3>1, <3>2 DEF MovesLeft
    <2> QED BY <1>6, <2>1, <2>2 DEF MovesLeft
  <1>8. MovesInOrder'
    BY <1>1, <1>4, <1>7 DEF MovesInOrder
  <1> QED BY <1>3, <1>8

\* Extended segments have the lengths they were shifted for.
LEMMA ExtendFacts ==
    ASSUME NEW segs, segs \in Seq(SegmentType), NEW growth, NatValued(growth)
    PROVE  LET to == Extend(segs, growth)
           IN  /\ to \in Seq(SegmentType) /\ DOMAIN to = DOMAIN segs /\ Len(to) = Len(segs)
               /\ \A i \in DOMAIN segs : /\ to[i].id = segs[i].id /\ to[i].start = segs[i].start
                                         /\ to[i].length = segs[i].length + Growth(segs, growth, i)
               /\ Lengths(to) = Widths(segs, growth)
               /\ \A id : HasSegment(to, id) <=> HasSegment(segs, id)
  <1> DEFINE to == Extend(segs, growth)
             longer(i) == IF segs[i].id \in DOMAIN growth
                            THEN [segs[i] EXCEPT !.length = @ + growth[segs[i].id]] ELSE segs[i]
  <1>1. DOMAIN segs = 1 .. Len(segs) /\ Len(segs) \in Nat
    OBVIOUS
  <1>2. to = [i \in 1 .. Len(segs) |-> longer(i)]
    BY <1>1 DEF Extend
  <1>3. ASSUME NEW i \in 1 .. Len(segs)
        PROVE  /\ longer(i) \in SegmentType /\ longer(i).id = segs[i].id /\ longer(i).start = segs[i].start
               /\ longer(i).length = segs[i].length + Growth(segs, growth, i)
    <2>1. segs[i] \in SegmentType
      BY <1>1
    <2>2. CASE segs[i].id \in DOMAIN growth
      <3>1. growth[segs[i].id] \in Nat
        BY <2>2 DEF NatValued
      <3> QED BY SMTT(40), <2>1, <2>2, <3>1 DEF SegmentType, Growth
    <2>3. CASE segs[i].id \notin DOMAIN growth
      BY <2>1, <2>3 DEF SegmentType, Growth
    <2> QED BY <2>2, <2>3
  <1> HIDE DEF longer, to
  <1>4. to \in Seq(SegmentType) /\ Len(to) = Len(segs) /\ DOMAIN to = DOMAIN segs
    BY <1>1, <1>2, <1>3
  <1>5. \A i \in DOMAIN segs : /\ to[i].id = segs[i].id /\ to[i].start = segs[i].start
                               /\ to[i].length = segs[i].length + Growth(segs, growth, i)
    BY <1>1, <1>2, <1>3
  <1>6. Lengths(to) = Widths(segs, growth)
    BY <1>4, <1>5 DEF Lengths, Widths
  <1>7. \A id : HasSegment(to, id) <=> HasSegment(segs, id)
    BY <1>4, <1>5 DEF HasSegment
  <1> QED BY <1>4, <1>5, <1>6, <1>7 DEF to

LEMMA UpdatedSessions ==
    ASSUME OrderInv, Update
    PROVE  /\ DOMAIN sessions' = DOMAIN sessions /\ ActiveOf(sessions') = ActiveOf(sessions)
           /\ \A i \in DOMAIN sessions : /\ sessions'[i].processed = sessions[i].processed + At(lens, i)
                                         /\ Text(sessions'[i]) = Text(sessions[i])
  <1> DEFINE read(i) == IF i \in DOMAIN lens THEN [sessions[i] EXCEPT !.processed = @ + lens[i]]
                        ELSE sessions[i]
  <1>1. sessions' = [i \in DOMAIN sessions |-> read(i)] /\ Sessions(sessions)
    BY DEF Update, OrderInv, SessionsInOrder
  <1>2. ASSUME NEW i \in DOMAIN sessions
        PROVE  /\ sessions'[i].status = sessions[i].status /\ Text(sessions'[i]) = Text(sessions[i])
               /\ sessions'[i].processed = sessions[i].processed + At(lens, i)
    <2>1. sessions[i] \in SessionType /\ sessions[i].processed \in Nat
      BY <1>1, SessionFacts
    <2>2. CASE i \in DOMAIN lens
      <3>1. lens[i] \in Nat
        BY <2>2, LensNat
      <3> QED BY <1>1, <2>1, <2>2, <3>1 DEF SessionType, Text, At
    <2>3. CASE i \notin DOMAIN lens
      BY <1>1, <2>1, <2>3 DEF SessionType, Text, At
    <2> QED BY <2>2, <2>3
  <1>3. DOMAIN sessions' = DOMAIN sessions
    BY <1>1
  <1>4. ActiveOf(sessions') = ActiveOf(sessions)
    BY <1>2, <1>3 DEF ActiveOf
  <1> QED BY <1>2, <1>3, <1>4

LEMMA UpdateSegments ==
    ASSUME OrderInv, Cells, SegmentsInOrder, MovesInOrder, Update
    PROVE  SegmentsInOrder' /\ MovesInOrder'
  <1>1. /\ pc = "update" /\ pc' = "sample" /\ segments' = Extend(segments, lens) /\ moves' = moves
        /\ active_cl' = active_cl /\ overflow' = overflow
    BY DEF Update
  <1>2. Growing /\ ~Growing' /\ pc # "thrown" /\ pc' \notin {"idle", "pick", "prepare"} /\ moves = <<>>
    BY <1>1 DEF Growing, MovesInOrder
  <1>3. /\ segments \in Seq(SegmentType) /\ Seated(sessions, segments) /\ Laid(segments, Widths(segments, lens))
        /\ ~overflow => SumUpTo(Widths(segments, lens), Len(segments)) <= KVLen(active_cl)
        /\ \A id \in DOMAIN lens : HasSegment(segments, id)
    BY <1>2, Zenon DEF SegmentsInOrder, Width
  <1>4. NatValued(lens)
    BY LensNat
  <1>5. /\ segments' \in Seq(SegmentType) /\ DOMAIN segments' = DOMAIN segments /\ Len(segments') = Len(segments)
        /\ \A i \in DOMAIN segments :
              /\ segments'[i].id = segments[i].id /\ segments'[i].start = segments[i].start
              /\ segments'[i].length = segments[i].length + Growth(segments, lens, i)
        /\ Lengths(segments') = Widths(segments, lens)
        /\ \A id : HasSegment(segments', id) <=> HasSegment(segments, id)
    BY <1>1, <1>3, <1>4, ExtendFacts
  <1>6. Width' = Widths(segments, lens)
    BY <1>2, <1>5 DEF Width
  <1>7. Laid(segments', Width')
    BY <1>3, <1>5, <1>6 DEF Laid
  <1>8. ~overflow' => SumUpTo(Width', Len(segments')) <= KVLen(active_cl')
    BY <1>1, <1>3, <1>5, <1>6, Zenon
  <1>9. /\ DOMAIN sessions' = DOMAIN sessions /\ ActiveOf(sessions') = ActiveOf(sessions)
        /\ \A i \in DOMAIN sessions : sessions'[i].processed = sessions[i].processed + At(lens, i)
    BY UpdatedSessions
  <1>10. Seated(sessions', segments')
    <2>1. /\ \A i, j \in DOMAIN segments : segments[i].id = segments[j].id => i = j
          /\ \A i \in DOMAIN segments : /\ segments[i].id \in DOMAIN sessions
                                        /\ segments[i].length = sessions[segments[i].id].processed
          /\ \A id \in ActiveOf(sessions) : sessions[id].processed > 0 => HasSegment(segments, id)
      BY <1>3 DEF Seated
    <2>2. \A i \in DOMAIN segments : Growth(segments, lens, i) = At(lens, segments[i].id)
      BY DEF Growth, At
    <2>3. \A i, j \in DOMAIN segments' : segments'[i].id = segments'[j].id => i = j
      BY <1>5, <2>1
    <2>4. \A i \in DOMAIN segments' : /\ segments'[i].id \in DOMAIN sessions'
                                      /\ segments'[i].length = sessions'[segments'[i].id].processed
      BY <1>5, <1>9, <2>1, <2>2
    <2>5. ASSUME NEW id \in ActiveOf(sessions'), sessions'[id].processed > 0 PROVE HasSegment(segments', id)
      <3>1. CASE id \in DOMAIN lens
        BY <1>3, <1>5, <3>1
      <3>2. CASE id \notin DOMAIN lens
        <4>1. id \in ActiveOf(sessions) /\ id \in DOMAIN sessions
          BY <1>9, <2>5 DEF ActiveOf
        <4>2. Sessions(sessions)
          BY DEF OrderInv, SessionsInOrder
        <4>3. sessions[id].processed \in Nat
          BY <4>1, <4>2, SessionFacts
        <4>4. sessions'[id].processed = sessions[id].processed
          BY <1>9, <3>2, <4>1, <4>3 DEF At
        <4> QED BY <1>5, <2>1, <2>5, <4>1, <4>4
      <3> QED BY <3>1, <3>2
    <2> QED BY <2>3, <2>4, <2>5 DEF Seated
  <1>11. SegmentsInOrder'
    BY <1>2, <1>5, <1>7, <1>8, <1>10, Zenon DEF SegmentsInOrder
  <1> QED BY <1>1, <1>2, <1>11, NoMovesLeft
-----------------------------------------------------------------------------
(* The segments that are left when sessions have completed.                *)

Left == Release(segments, {sessions[i].id : i \in DOMAIN sessions \ Active})
CompactedTo == [q \in DOMAIN Left |-> SumUpTo(Lengths(Left), q - 1)]

\* Picked terms up to one of them add up to no more than all up to it.
LEMMA PickedUpTo ==
    ASSUME NEW n \in Nat, NEW m \in Nat, NEW f \in [1 .. n -> Nat], NEW g \in [1 .. m -> Nat],
           NEW ix \in [1 .. m -> 1 .. n], \A i, j \in 1 .. m : i < j => ix[i] < ix[j],
           \A i \in 1 .. m : g[i] = f[ix[i]]
    PROVE  /\ \A q \in 1 .. m : SumUpTo(g, q - 1) <= SumUpTo(f, ix[q] - 1)
           /\ SumUpTo(g, m) <= SumUpTo(f, n)
  <1>1. NatValued(f) /\ NatValued(g)
    BY DEF NatValued
  <1>2. ASSUME NEW i \in 1 .. m, NEW j \in 1 .. m, ix[i] = ix[j] PROVE i = j
    <2>1. ix[i] \in Nat /\ ~(ix[i] < ix[j]) /\ ~(ix[j] < ix[i])
      BY SMTT(40), <1>2
    <2> QED BY <2>1
  <1>3. ASSUME NEW p \in 0 .. n, NEW k \in 0 .. m, \A i \in 1 .. k : ix[i] \in 1 .. p
        PROVE  SumUpTo(g, k) <= SumUpTo(f, p)
    <2> DEFINE h == [i \in 1 .. p |-> f[i]]
               jx == [i \in 1 .. k |-> ix[i]]
               picked == [i \in 1 .. k |-> h[jx[i]]]
    <2>1. h \in [1 .. p -> Nat] /\ NatValued(h) /\ \A i \in 1 .. p : At(h, i) = At(f, i)
      BY DEF NatValued, At
    <2>2. jx \in [1 .. k -> 1 .. p] /\ \A i, j \in 1 .. k : jx[i] = jx[j] => i = j
      BY SMTT(40), <1>2, <1>3
    <2>3. /\ NatValued(picked) /\ \A i \in 1 .. k : At(picked, i) = At(g, i)
      <3>1. ASSUME NEW i \in 1 .. k PROVE picked[i] = g[i] /\ g[i] \in Nat
        <4>1. ix[i] \in 1 .. p /\ i \in 1 .. m
          BY <1>3
        <4> QED BY <4>1
      <3>2. DOMAIN picked = 1 .. k /\ \A i \in 1 .. k : i \in DOMAIN g
        OBVIOUS
      <3> HIDE DEF picked
      <3> QED BY <3>1, <3>2 DEF NatValued, At
    <2>4. SumUpTo(picked, k) <= SumUpTo(h, p)
      <3>1. p \in Nat /\ k \in Nat
        OBVIOUS
      <3> HIDE DEF h, jx
      <3> QED BY <2>1, <2>2, <3>1, SumPicked
    <2>5. SumUpTo(h, p) = SumUpTo(f, p)
      <3> HIDE DEF h
      <3> QED BY <1>1, <2>1, SumAgrees
    <2>6. SumUpTo(picked, k) = SumUpTo(g, k)
      <3> HIDE DEF picked
      <3> QED BY <1>1, <2>3, SumAgrees
    <2> QED BY <2>4, <2>5, <2>6
  <1>4. ASSUME NEW q \in 1 .. m PROVE SumUpTo(g, q - 1) <= SumUpTo(f, ix[q] - 1)
    <2>1. ix[q] \in 1 .. n /\ q - 1 \in 0 .. m
      OBVIOUS
    <2>2. ix[q] - 1 \in 0 .. n
      BY <2>1
    <2>3. \A i \in 1 .. q - 1 : ix[i] \in 1 .. ix[q] - 1
      <3> SUFFICES ASSUME NEW i \in 1 .. q - 1 PROVE ix[i] \in 1 .. ix[q] - 1
        OBVIOUS
      <3>1. i \in 1 .. m /\ i < q
        OBVIOUS
      <3>2. ix[i] \in 1 .. n /\ ix[i] < ix[q]
        BY <3>1
      <3> QED BY <2>1, <3>2
    <2> QED BY <1>3, <2>1, <2>2, <2>3
  <1>5. SumUpTo(g, m) <= SumUpTo(f, n)
    <2>1. n \in 0 .. n /\ m \in 0 .. m /\ \A i \in 1 .. m : ix[i] \in 1 .. n
      OBVIOUS
    <2> QED BY <1>3, <2>1
  <1> QED BY <1>4, <1>5

\* What is left are the segments of the active sessions, in their order.
LEMMA LeftFacts ==
    ASSUME OrderInv, segments \in Seq(SegmentType), Seated(sessions, segments), Laid(segments, Lengths(segments))
    PROVE  /\ Left \in Seq(SegmentType) /\ Seated(sessions, Left)
           /\ \A q \in DOMAIN Left : Left[q].id \in ActiveOf(sessions) /\ Left[q].length > 0
           /\ \E ix : /\ ix \in [1 .. Len(Left) -> 1 .. Len(segments)]
                      /\ \A p, q \in 1 .. Len(Left) : p < q => ix[p] < ix[q]
                      /\ \A q \in 1 .. Len(Left) : Left[q] = segments[ix[q]]
  <1> DEFINE done == {sessions[i].id : i \in DOMAIN sessions \ Active}
             K == {i \in DOMAIN segments : segments[i].id \notin done}
             t == Left
             none == <<>>
  <1>1. /\ \A i, j \in DOMAIN segments : segments[i].id = segments[j].id => i = j
        /\ \A i \in DOMAIN segments : /\ segments[i].id \in DOMAIN sessions
                                      /\ segments[i].length = sessions[segments[i].id].processed
        /\ \A id \in ActiveOf(sessions) : sessions[id].processed > 0 => HasSegment(segments, id)
    BY DEF Seated
  <1>2. Sessions(sessions)
    BY DEF OrderInv, SessionsInOrder
  <1>3. \A id \in DOMAIN sessions : id \notin done <=> id \in ActiveOf(sessions)
    <2>1. \A i \in DOMAIN sessions : sessions[i].id = i
      BY <1>2 DEF Sessions
    <2> QED BY <2>1 DEF Active, ActiveOf
  <1>4. t = Those(segments, K)
    BY DEF Left, Release
  <1> HIDE DEF done
  <1>5. \A i \in DOMAIN segments : i \in K <=> segments[i].id \in ActiveOf(sessions)
    BY <1>1, <1>3
  <1> HIDE DEF t, K
  <1>6. t \in Seq(SegmentType) /\ \E ix : PickedBy(t, segments, K, ix)
    BY <1>4, ThosePicked
  <1>7. PICK ix : PickedBy(t, segments, K, ix)
    BY <1>6
  <1>8. /\ ix \in [1 .. Len(t) -> DOMAIN segments]
        /\ \A q \in 1 .. Len(t) : ix[q] \in K /\ t[q] = segments[ix[q]]
        /\ \A p, q \in 1 .. Len(t) : p < q => ix[p] < ix[q]
        /\ \A k \in DOMAIN segments : k \in K => \E q \in 1 .. Len(t) : ix[q] = k
    BY <1>7 DEF PickedBy
  <1>9. DOMAIN t = 1 .. Len(t) /\ Len(t) \in Nat /\ DOMAIN segments = 1 .. Len(segments)
    BY <1>6
  <1>10. \A p, q \in 1 .. Len(t) : ix[p] = ix[q] => p = q
    BY <1>7, <1>9, PickedOnce
  <1>11. ASSUME NEW q \in DOMAIN t
         PROVE  /\ t[q].id \in ActiveOf(sessions) /\ t[q].length > 0 /\ t[q].id \in DOMAIN sessions
                /\ t[q].length = sessions[t[q].id].processed
    <2>1. ix[q] \in DOMAIN segments /\ t[q] = segments[ix[q]] /\ ix[q] \in K
      BY <1>8, <1>9
    <2>2. segments[ix[q]].length > 0
      <3>1. NatValued(none)
        BY DEF NatValued
      <3> HIDE DEF none
      <3>2. Lengths(segments)[ix[q]] > 0 /\ Lengths(segments)[ix[q]] = segments[ix[q]].length
        BY ZenonT(40), <2>1, <3>1, SegmentFacts DEF Laid
      <3> QED BY <3>2
    <2> QED BY <1>1, <1>5, <2>1, <2>2
  <1>12. Seated(sessions, t)
    <2>1. \A p, q \in DOMAIN t : t[p].id = t[q].id => p = q
      BY <1>1, <1>8, <1>9, <1>10
    <2>2. ASSUME NEW id \in ActiveOf(sessions), sessions[id].processed > 0 PROVE HasSegment(t, id)
      <3>1. PICK i \in DOMAIN segments : segments[i].id = id
        BY <1>1, <2>2 DEF HasSegment
      <3>2. PICK q \in 1 .. Len(t) : ix[q] = i
        BY <1>5, <1>8, <3>1
      <3>3. q \in DOMAIN t /\ t[q].id = id
        BY <1>8, <1>9, <3>1, <3>2
      <3> QED BY <3>3 DEF HasSegment
    <2> QED BY <1>11, <2>1, <2>2 DEF Seated
  <1> QED BY <1>6, <1>8, <1>9, <1>11, <1>12 DEF t

\* They close up to the left.
LEMMA CompactedFacts ==
    ASSUME OrderInv, segments \in Seq(SegmentType), Seated(sessions, segments), Laid(segments, Lengths(segments))
    PROVE  LET to == WithStarts(Left, CompactedTo)
           IN  /\ CompactStarts(Left) = CompactedTo /\ CompactedTo \in [DOMAIN Left -> Nat] /\ Left \in Seq(SegmentType)
               /\ to \in Seq(SegmentType) /\ Seated(sessions, to) /\ Laid(to, Lengths(to))
               /\ SumUpTo(Lengths(to), Len(to)) <= Used /\ Used \in Nat
               /\ \A q \in DOMAIN to : to[q].id \in ActiveOf(sessions)
               /\ Apart(Left, Starts(Left)) /\ Apart(Left, CompactedTo)
               /\ \A q \in DOMAIN Left : /\ Left[q].start + Left[q].length <= Used
                                         /\ CompactedTo[q] <= Left[q].start
  <1> DEFINE to == WithStarts(Left, CompactedTo)
             m == Len(Left)
             n == Len(segments)
             f == Lengths(segments)
             g == Lengths(Left)
             none == <<>>
  <1>0. NatValued(none)
    BY DEF NatValued
  <1>1. /\ Left \in Seq(SegmentType) /\ Seated(sessions, Left)
        /\ \A q \in DOMAIN Left : Left[q].id \in ActiveOf(sessions) /\ Left[q].length > 0
        /\ m \in Nat /\ DOMAIN Left = 1 .. m /\ n \in Nat /\ DOMAIN segments = 1 .. n
    BY LeftFacts
  <1>2. PICK ix : /\ ix \in [1 .. m -> 1 .. n]
                  /\ \A p, q \in 1 .. m : p < q => ix[p] < ix[q]
                  /\ \A q \in 1 .. m : Left[q] = segments[ix[q]]
    BY LeftFacts
  <1>3. /\ f \in [1 .. n -> Nat] /\ NatValued(f) /\ \A i \in 1 .. n : f[i] = segments[i].length
        /\ \A i \in 1 .. n : segments[i].start \in Nat /\ segments[i].length \in Nat
    <2> HIDE DEF none
    <2>1. /\ f \in [1 .. n -> Nat] /\ NatValued(f) /\ \A i \in DOMAIN segments : f[i] = segments[i].length
          /\ \A i \in DOMAIN segments : segments[i].start \in Nat /\ segments[i].length \in Nat
      BY <1>0, SegmentFacts
    <2> QED BY <1>1, <2>1
  <1>4. g \in [1 .. m -> Nat] /\ NatValued(g) /\ \A q \in 1 .. m : g[q] = Left[q].length
    <2> HIDE DEF none
    <2>1. g \in [1 .. m -> Nat] /\ NatValued(g) /\ \A q \in DOMAIN Left : g[q] = Left[q].length
      BY <1>0, <1>1, SegmentFacts
    <2> QED BY <1>1, <2>1
  <1> HIDE DEF f, g
  <1>5. \A q \in 1 .. m : g[q] = f[ix[q]]
    <2> SUFFICES ASSUME NEW q \in 1 .. m PROVE g[q] = f[ix[q]]
      OBVIOUS
    <2>1. ix[q] \in 1 .. n
      BY <1>2
    <2> QED BY SMTT(40), <1>2, <1>3, <1>4, <2>1
  <1>6. /\ \A q \in 1 .. m : SumUpTo(g, q - 1) <= SumUpTo(f, ix[q] - 1)
        /\ SumUpTo(g, m) <= SumUpTo(f, n)
    BY <1>1, <1>2, <1>3, <1>4, <1>5, PickedUpTo
  <1>7. CompactStarts(Left) = CompactedTo
    BY <1>1, CompactedAreSums DEF CompactedTo
  <1>8. CompactedTo \in [DOMAIN Left -> Nat] /\ \A q \in 1 .. m : CompactedTo[q] = SumUpTo(g, q - 1)
    <2>1. ASSUME NEW q \in DOMAIN Left PROVE SumUpTo(g, q - 1) \in Nat
      <3>1. q - 1 \in Nat
        BY <1>1
      <3> QED BY <1>4, <3>1, SumFacts
    <2> QED BY <1>1, <2>1 DEF CompactedTo, g
  <1>9. /\ Used = SumUpTo(f, n) /\ Used \in Nat
        /\ \A i \in 1 .. n : /\ segments[i].start = SumUpTo(f, i - 1) /\ segments[i].start + f[i] <= Used
        /\ \A i, j \in 1 .. n : i < j => segments[i].start + f[i] <= segments[j].start
    <2>1. Laid(segments, f)
      BY DEF f
    <2>2. Used = SumUpTo(f, n)
      BY DEF Used, f
    <2>3. /\ \A i \in DOMAIN segments : /\ segments[i].start = SumUpTo(f, i - 1)
                                       /\ segments[i].start + f[i] <= SumUpTo(f, n)
          /\ SumUpTo(f, n) \in Nat
      <3>1. f \in [1 .. Len(segments) -> Nat]
        BY <1>3
      <3>2. SumUpTo(f, n) \in Nat
        BY <2>1, <3>1, LaidFacts
      <3>3. \A i \in DOMAIN segments : segments[i].start = SumUpTo(f, i - 1)
        BY <2>1 DEF Laid
      <3>4. \A i \in DOMAIN segments : segments[i].start + f[i] <= SumUpTo(f, n)
        BY <2>1, <3>1, LaidFacts
      <3> QED BY <3>2, <3>3, <3>4
    <2>4. \A i, j \in DOMAIN segments : i < j => segments[i].start + f[i] <= segments[j].start
      BY <1>1, <1>3, <2>1, LaidFacts
    <2> QED BY <1>1, <2>2, <2>3, <2>4
  <1>10. ASSUME NEW q \in DOMAIN Left
         PROVE  Left[q].start + Left[q].length <= Used /\ CompactedTo[q] <= Left[q].start
    <2>1. q \in 1 .. m /\ ix[q] \in 1 .. n /\ Left[q] = segments[ix[q]]
      BY <1>1, <1>2
    <2> QED BY <1>3, <1>6, <1>8, <1>9, <2>1
  <1>11. Apart(Left, Starts(Left))
    <2> SUFFICES ASSUME NEW p \in DOMAIN Left, NEW q \in DOMAIN Left, p < q
                 PROVE  Starts(Left)[p] + Left[p].length <= Starts(Left)[q]
      BY DEF Apart
    <2>1. /\ ix[p] \in 1 .. n /\ Left[p] = segments[ix[p]] /\ ix[q] \in 1 .. n /\ Left[q] = segments[ix[q]]
          /\ ix[p] < ix[q]
      BY <1>1, <1>2
    <2>2. segments[ix[p]].start + f[ix[p]] <= segments[ix[q]].start
      BY <1>9, <2>1
    <2>3. Starts(Left)[p] = Left[p].start /\ Starts(Left)[q] = Left[q].start
      BY DEF Starts
    <2> QED BY <1>3, <2>1, <2>2, <2>3
  <1>12. /\ to \in Seq(SegmentType) /\ DOMAIN to = DOMAIN Left /\ Len(to) = m
         /\ \A q \in DOMAIN Left : to[q].id = Left[q].id /\ to[q].length = Left[q].length /\ to[q].start = CompactedTo[q]
         /\ Lengths(to) = g /\ Starts(to) = CompactedTo /\ Seated(sessions, to)
    <2> DEFINE start == CompactedTo
               moved == WithStarts(Left, start)
    <2>1. start \in [DOMAIN Left -> Nat]
      BY <1>8
    <2> HIDE DEF start
    <2>2. /\ moved \in Seq(SegmentType) /\ DOMAIN moved = DOMAIN Left /\ Len(moved) = Len(Left)
          /\ \A q \in DOMAIN Left : /\ moved[q].id = Left[q].id /\ moved[q].length = Left[q].length
                                    /\ moved[q].start = start[q]
      BY ZenonT(40), <1>1, <2>1, WithStartsFacts
    <2>3. Lengths(moved) = Lengths(Left) /\ Starts(moved) = start
      BY <1>1, <2>1, WithStartsFacts
    <2>4. Seated(sessions, moved)
      BY <1>1, <2>1, WithStartsFacts
    <2> HIDE DEF moved
    <2>5. moved = to
      BY DEF moved, start
    <2> QED BY <2>2, <2>3, <2>4, <2>5 DEF start, g
  <1> HIDE DEF to
  <1>13. Laid(to, g)
    BY SMTT(40), <1>1, <1>4, <1>8, <1>12 DEF Laid
  <1>14. Apart(Left, CompactedTo)
    <2>1. \A q \in DOMAIN to : to[q].length <= g[q]
      <3>1. \A q \in 1 .. m : g[q] \in Nat
        BY <1>4
      <3> QED BY <1>1, <1>4, <1>12, <3>1
    <2>2. Apart(to, Starts(to))
      BY <1>4, <1>12, <1>13, <2>1, LaidApart
    <2> QED BY <1>12, <2>2 DEF Apart
  <1>15. \A q \in DOMAIN to : to[q].id \in ActiveOf(sessions)
    BY <1>1, <1>12
  <1>16. SumUpTo(Lengths(to), Len(to)) <= Used
    BY <1>6, <1>9, <1>12
  <1>17. Laid(to, Lengths(to))
    BY <1>12, <1>13
  <1> QED BY <1>1, <1>7, <1>8, <1>9, <1>10, <1>11, <1>12, <1>14, <1>15, <1>16, <1>17 DEF to

LEMMA ReleaseFacts ==
    ASSUME OrderInv, Cells, Flag, SegmentsInOrder, ReleaseAndCompact
    PROVE  /\ pc = "sample" /\ pc' = "pick" /\ sessions' = sessions /\ active_cl' = active_cl /\ kv' = kv
           /\ overflow' = overflow
           /\ segments \in Seq(SegmentType) /\ Seated(sessions, segments) /\ Laid(segments, Lengths(segments))
           /\ ~overflow => Used <= KVLen(active_cl)
           /\ segments' = WithStarts(Left, CompactedTo)
           /\ moves' = IF overflow THEN <<>> ELSE Moves(Left, CompactedTo, LeftToRight(Left))
  <1>1. /\ pc = "sample" /\ pc' = "pick" /\ sessions' = sessions /\ active_cl' = active_cl /\ kv' = kv
        /\ overflow' = overflow
        /\ segments' = Compact(Left) /\ moves' = IF overflow THEN <<>> ELSE CompactMoves(Left)
    BY Zenon DEF ReleaseAndCompact, Left
  <1>2. /\ segments \in Seq(SegmentType) /\ Seated(sessions, segments) /\ Laid(segments, Lengths(segments))
        /\ ~overflow => Used <= KVLen(active_cl)
    <2>1. Width = Lengths(segments) /\ pc # "thrown"
      BY <1>1 DEF Width, Growing
    <2> QED BY <2>1, Zenon DEF SegmentsInOrder, Used
  <1>3. CompactStarts(Left) = CompactedTo
    BY <1>2, CompactedFacts
  <1> QED BY <1>1, <1>2, <1>3, Zenon DEF Compact, CompactMoves

LEMMA ReleaseSegments ==
    ASSUME OrderInv, Cells, Flag, SegmentsInOrder, ReleaseAndCompact
    PROVE  SegmentsInOrder' /\ MovesInOrder'
  <1> DEFINE to == WithStarts(Left, CompactedTo)
  <1>1. /\ pc = "sample" /\ pc' = "pick" /\ sessions' = sessions /\ active_cl' = active_cl
        /\ overflow' = overflow
        /\ segments \in Seq(SegmentType) /\ Seated(sessions, segments) /\ Laid(segments, Lengths(segments))
        /\ ~overflow => Used <= KVLen(active_cl)
        /\ segments' = to
        /\ moves' = IF overflow THEN <<>> ELSE Moves(Left, CompactedTo, LeftToRight(Left))
    BY ReleaseFacts
  <1>2. /\ CompactedTo \in [DOMAIN Left -> Nat] /\ Left \in Seq(SegmentType)
        /\ to \in Seq(SegmentType) /\ Seated(sessions, to) /\ Laid(to, Lengths(to))
        /\ SumUpTo(Lengths(to), Len(to)) <= Used /\ Used \in Nat
        /\ \A q \in DOMAIN to : to[q].id \in ActiveOf(sessions)
        /\ Apart(Left, Starts(Left)) /\ Apart(Left, CompactedTo)
        /\ \A q \in DOMAIN Left : /\ Left[q].start + Left[q].length <= Used
                                  /\ CompactedTo[q] <= Left[q].start
    BY <1>1, CompactedFacts
  <1>3. KVLen(active_cl) \in Nat /\ active_cl \in 1 .. NumCL
    BY VariantFacts DEF Cells
  <1> DEFINE none == <<>>
  <1>4. NatValued(none)
    BY DEF NatValued
  <1> HIDE DEF none
  <1>5. SumUpTo(Lengths(to), Len(to)) \in Nat
    <2> HIDE DEF to
    <2>1. Len(to) \in 0 .. Len(to)
      BY <1>2
    <2> QED BY <1>2, <1>4, <2>1, WidthsAdd
  <1> HIDE DEF to
  <1>6. Width' = Lengths(to)
    BY <1>1 DEF Width, Growing
  <1>7. ~overflow' => SumUpTo(Width', Len(segments')) <= KVLen(active_cl')
    <2>1. ASSUME Used <= KVLen(active_cl) PROVE SumUpTo(Lengths(to), Len(to)) <= KVLen(active_cl)
      BY <1>2, <1>3, <1>5, <2>1
    <2> QED BY <1>1, <1>6, <2>1, Zenon
  <1>8. SegmentsInOrder'
    <2>1. ~Growing'
      BY <1>1 DEF Growing
    <2> QED BY <1>1, <1>2, <1>6, <1>7, <2>1, Zenon DEF SegmentsInOrder
  <1>9. MovesLeft(moves', segments', KVLen(active_cl'))
    <2>1. CASE overflow
      <3>1. moves' = <<>>
        BY <1>1, <2>1, Zenon
      <3> QED BY <3>1 DEF MovesLeft
    <2>2. CASE ~overflow
      <3>1. moves' = Moves(Left, CompactedTo, LeftToRight(Left)) /\ Used <= KVLen(active_cl)
        BY <1>1, <2>2, Zenon
      <3>2. ASSUME NEW i \in DOMAIN Left, Moving(Left, CompactedTo, i)
            PROVE  Left[i].start + Left[i].length <= KVLen(active_cl) /\ CompactedTo[i] <= Left[i].start
        <4>1. Left[i].start \in Nat /\ Left[i].length \in Nat
          BY <1>2, <1>4, SegmentFacts
        <4>2. Left[i].start + Left[i].length <= Used /\ CompactedTo[i] <= Left[i].start
          BY <1>2
        <4> QED BY <1>2, <1>3, <3>1, <4>1, <4>2
      <3>3. MovesLeft(Moves(Left, CompactedTo, LeftToRight(Left)), WithStarts(Left, CompactedTo), KVLen(active_cl))
        BY <1>2, <1>3, <3>2, MovesToLeft
      <3> QED BY <1>1, <3>1, <3>3 DEF to
    <2> QED BY <2>1, <2>2
  <1>10. moves' # <<>> => ~overflow'
    BY <1>1, Zenon
  <1> QED BY <1>1, <1>8, <1>9, <1>10, Zenon DEF MovesInOrder
-----------------------------------------------------------------------------
(* The entries of the cache.                                               *)

\* No moves are left: every segment has its entries.
Resident(c, kv_len, ss, segs) ==
    \A s \in KVShards, i \in DOMAIN segs :
        Holds(c[s], kv_len, segs[i].start, Text(ss[segs[i].id]), ss[segs[i].id].processed)

LEMMA HeldResident ==
    ASSUME NEW c, NEW kv_len, NEW ss, NEW segs
    PROVE  Held(c, kv_len, ss, segs, <<>>) <=> Resident(c, kv_len, ss, segs)
  <1> DEFINE none == <<>>
  <1>1. DOMAIN none = {}
    OBVIOUS
  <1> HIDE DEF none
  <1>2. Held(c, kv_len, ss, segs, none) <=> Resident(c, kv_len, ss, segs)
    BY <1>1 DEF Held, Resident
  <1> QED BY <1>2 DEF none

\* Moves that have been asked for find the entries where the segments were.
LEMMA MovedHeld ==
    ASSUME NEW segs, segs \in Seq(SegmentType), NEW start \in [DOMAIN segs -> Nat],
           \A i, j \in DOMAIN segs : start[i] = start[j] => i = j,
           NEW mv, mv \in Seq(MoveType), NEW ix, MovesOf(mv, segs, start, ix),
           NEW ss, \A i \in DOMAIN segs : segs[i].length = ss[segs[i].id].processed,
           NEW c, NEW kv_len,
           \A s \in KVShards, i \in DOMAIN segs :
              segs[i].length > 0 => Holds(c[s], kv_len, segs[i].start, Text(ss[segs[i].id]), ss[segs[i].id].processed)
    PROVE  Held(c, kv_len, ss, WithStarts(segs, start), mv)
  <1> DEFINE to == WithStarts(segs, start)
  <1>1. DOMAIN to = DOMAIN segs /\ \A i \in DOMAIN segs : to[i].id = segs[i].id /\ to[i].start = start[i]
    <2>1. \A i \in DOMAIN segs : segs[i] \in SegmentType
      OBVIOUS
    <2> QED BY <2>1 DEF WithStarts, SegmentType
  <1> HIDE DEF to
  <1> SUFFICES ASSUME NEW s \in KVShards, NEW i \in DOMAIN segs
               PROVE  LET h == ss[segs[i].id]
                          here(at) == Holds(c[s], kv_len, at, Text(h), h.processed)
                      IN  /\ \A k \in DOMAIN mv : mv[k].dst = start[i] => here(mv[k].src)
                          /\ (\A k \in DOMAIN mv : mv[k].dst # start[i]) => here(start[i])
    BY SMTT(40), <1>1 DEF Held, to
  <1> DEFINE h == ss[segs[i].id]
             here(at) == Holds(c[s], kv_len, at, Text(h), h.processed)
  <1>2. segs[i].length \in Nat /\ h.processed = segs[i].length
    <2>1. segs[i] \in SegmentType
      OBVIOUS
    <2> QED BY <2>1 DEF SegmentType
  <1>3. CASE segs[i].length = 0
    <2>1. \A at : here(at)
      BY <1>2, <1>3 DEF Holds
    <2> QED BY <2>1
  <1>4. CASE segs[i].length > 0
    <2>1. here(segs[i].start)
      BY <1>4
    <2>2. DOMAIN mv = 1 .. Len(mv)
      OBVIOUS
    <2> HIDE DEF here
    <2>3. ASSUME NEW k \in DOMAIN mv, mv[k].dst = start[i] PROVE here(mv[k].src)
      <3>1. /\ ix[k] \in DOMAIN segs
            /\ mv[k] = [src |-> segs[ix[k]].start, dst |-> start[ix[k]], len |-> segs[ix[k]].length]
        BY <2>2 DEF MovesOf
      <3>2. mv[k].src = segs[ix[k]].start /\ mv[k].dst = start[ix[k]]
        BY <3>1
      <3>3. ix[k] = i
        BY <2>3, <3>1, <3>2
      <3> QED BY <2>1, <3>2, <3>3
    <2>4. ASSUME \A k \in DOMAIN mv : mv[k].dst # start[i] PROVE here(start[i])
      <3>1. ~Moving(segs, start, i)
        <4> SUFFICES ASSUME Moving(segs, start, i) PROVE FALSE
          OBVIOUS
        <4>1. PICK k \in 1 .. Len(mv) : ix[k] = i
          BY DEF MovesOf
        <4>2. mv[k] = [src |-> segs[i].start, dst |-> start[i], len |-> segs[i].length]
          BY <4>1 DEF MovesOf
        <4>3. mv[k].dst = start[i]
          BY <4>2
        <4> QED BY <2>2, <2>4, <4>3
      <3>2. start[i] = segs[i].start
        BY <1>4, <3>1 DEF Moving
      <3> QED BY <2>1, <3>2
    <2> QED BY <2>3, <2>4 DEF here
  <1> QED BY <1>2, <1>3, <1>4

\* Segments that lie one behind the other start at different places.
LEMMA LaidDistinct ==
    ASSUME NEW segs, segs \in Seq(SegmentType), NEW w \in [1 .. Len(segs) -> Nat], Laid(segs, w)
    PROVE  \A i, j \in DOMAIN segs : segs[i].start = segs[j].start => i = j
  <1> SUFFICES ASSUME NEW i \in DOMAIN segs, NEW j \in DOMAIN segs, segs[i].start = segs[j].start, i # j
               PROVE  FALSE
    OBVIOUS
  <1>1. /\ \A x \in DOMAIN segs : segs[x].start \in Nat /\ w[x] \in Nat \ {0}
    BY LaidFacts
  <1>2. /\ \A x, y \in DOMAIN segs : x < y => segs[x].start + w[x] <= segs[y].start
    BY LaidFacts
  <1>3. i < j \/ j < i
    OBVIOUS
  <1> QED BY SMTT(40), <1>1, <1>2, <1>3

\* What a move does to the cells of a row.
MovedCells(c, d, kv_len, m) ==
    \A s \in KVShards, r \in Row, p \in 0 .. kv_len - 1 :
        d[s][r * kv_len + p] = IF m.dst <= p /\ p < m.dst + m.len THEN c[s][r * kv_len + (p - m.dst + m.src)]
                               ELSE c[s][r * kv_len + p]

\* A move brings the entries of its segment, and leaves those of all others alone, also of
\* those that are still to be moved.
LEMMA MoveHeld ==
    ASSUME NEW segs, segs \in Seq(SegmentType), NEW w \in [1 .. Len(segs) -> Nat], Laid(segs, w),
           \A i \in DOMAIN segs : segs[i].length <= w[i],
           NEW kv_len \in Nat, SumUpTo(w, Len(segs)) <= kv_len,
           NEW mv, mv # <<>>, MovesLeft(mv, segs, kv_len),
           NEW ss, \A i \in DOMAIN segs : segs[i].length = ss[segs[i].id].processed,
           NEW c, NEW d, MovedCells(c, d, kv_len, Head(mv)), Held(c, kv_len, ss, segs, mv)
    PROVE  Held(d, kv_len, ss, segs, Tail(mv))
  <1> DEFINE m == Head(mv)
  <1>1. /\ mv \in Seq(MoveType) /\ Len(mv) \in Nat \ {0} /\ DOMAIN mv = 1 .. Len(mv) /\ m = mv[1] /\ 1 \in DOMAIN mv
        /\ DOMAIN Tail(mv) = 1 .. Len(mv) - 1
        /\ \A k \in 1 .. Len(mv) - 1 : Tail(mv)[k] = mv[k + 1] /\ k + 1 \in DOMAIN mv
    <2>1. mv \in Seq(MoveType) /\ Len(mv) \in Nat \ {0}
      BY EmptySeq DEF MovesLeft
    <2> QED BY <2>1
  <1>2. \A k \in DOMAIN mv : /\ mv[k].src \in Nat /\ mv[k].dst \in Nat /\ mv[k].len \in Nat \ {0}
                             /\ mv[k].src + mv[k].len <= kv_len
                             /\ \E i \in DOMAIN segs : Brings(mv[k], segs[i])
    <2> SUFFICES ASSUME NEW k \in DOMAIN mv
                 PROVE  /\ mv[k].src \in Nat /\ mv[k].dst \in Nat /\ mv[k].len \in Nat \ {0}
                        /\ mv[k].src + mv[k].len <= kv_len
                        /\ \E i \in DOMAIN segs : Brings(mv[k], segs[i])
      OBVIOUS
    <2>1. mv[k] \in MoveType
      BY <1>1
    <2> QED BY <2>1 DEF MoveType, MovesLeft
  <1>3. \A k, l \in DOMAIN mv : k < l =>
          /\ mv[k].dst # mv[l].dst
          /\ mv[k].dst + mv[k].len <= mv[l].src \/ mv[l].src + mv[l].len <= mv[k].dst
    BY DEF MovesLeft
  <1>4. /\ \A i \in DOMAIN segs : /\ segs[i].start \in Nat /\ segs[i].length \in Nat
                                  /\ segs[i].start + segs[i].length <= kv_len
        /\ \A i, j \in DOMAIN segs : i < j => segs[i].start + segs[i].length <= segs[j].start
    <2>1. ASSUME NEW i \in DOMAIN segs
          PROVE  /\ segs[i].start \in Nat /\ segs[i].length \in Nat /\ w[i] \in Nat /\ segs[i].length <= w[i]
                 /\ segs[i].start + segs[i].length <= kv_len
      <3>1. segs[i] \in SegmentType
        OBVIOUS
      <3>2. segs[i].length \in Nat
        BY <3>1 DEF SegmentType
      <3>3. segs[i].start \in Nat /\ w[i] \in Nat /\ segs[i].start + w[i] <= SumUpTo(w, Len(segs))
        BY LaidFacts
      <3>4. SumUpTo(w, Len(segs)) \in Nat
        BY LaidFacts
      <3> QED BY SMTT(40), <3>2, <3>3, <3>4
    <2>2. ASSUME NEW i \in DOMAIN segs, NEW j \in DOMAIN segs, i < j
          PROVE  segs[i].start + segs[i].length <= segs[j].start
      <3>1. segs[i].start + w[i] <= segs[j].start
        BY <2>2, LaidFacts
      <3> QED BY SMTT(40), <2>1, <3>1
    <2> QED BY <2>1, <2>2
  <1>5. \A i, j \in DOMAIN segs : segs[i].start = segs[j].start => i = j
    BY LaidDistinct
  <1> HIDE DEF m
  <1> SUFFICES ASSUME NEW s \in KVShards, NEW i \in DOMAIN segs
               PROVE  LET h == ss[segs[i].id]
                          here(at) == Holds(d[s], kv_len, at, Text(h), h.processed)
                      IN  /\ \A k \in DOMAIN Tail(mv) : Tail(mv)[k].dst = segs[i].start => here(Tail(mv)[k].src)
                          /\ (\A k \in DOMAIN Tail(mv) : Tail(mv)[k].dst # segs[i].start) => here(segs[i].start)
    BY DEF Held
  <1> DEFINE h == ss[segs[i].id]
             x == Text(h)
             n == segs[i].length
             st == segs[i].start
             was(at) == Holds(c[s], kv_len, at, x, n)
             here(at) == Holds(d[s], kv_len, at, x, n)
  <1>6. /\ \A k \in DOMAIN mv : mv[k].dst = st => was(mv[k].src)
        /\ (\A k \in DOMAIN mv : mv[k].dst # st) => was(st)
        /\ h.processed = n
    BY DEF Held
  <1>7. n \in Nat /\ st \in Nat /\ st + n <= kv_len
    BY <1>4
  \* Entries that are not written stay.
  <1>8. ASSUME NEW at \in Nat, at + n <= kv_len, at + n <= m.dst \/ m.dst + m.len <= at, was(at) PROVE here(at)
    <2> SUFFICES ASSUME NEW r \in Row, NEW k \in 0 .. n - 1
                 PROVE  d[s][r * kv_len + (at + k)] = <<r, SubSeq(x, 1, k + 1)>>
      BY DEF Holds
    <2>1. c[s][r * kv_len + (at + k)] = <<r, SubSeq(x, 1, k + 1)>>
      BY <1>8 DEF Holds
    <2> DEFINE p == at + k
               to == m.dst
               ml == m.len
    <2>2. to \in Nat /\ ml \in Nat
      BY <1>1, <1>2
    <2>5. at + n <= to \/ to + ml <= at
      BY <1>8
    <2> HIDE DEF to, ml, n, st
    <2>3. p \in 0 .. kv_len - 1 /\ ~ (to <= p /\ p < to + ml)
      BY <1>7, <1>8, <2>2, <2>5
    <2> HIDE DEF p
    <2>4. d[s][r * kv_len + p] = c[s][r * kv_len + p]
      BY <2>3 DEF MovedCells, m, to, ml
    <2> QED BY <2>1, <2>4 DEF p
  <1>9. CASE m.dst = st
    <2>1. was(m.src)
      BY <1>1, <1>6, <1>9
    <2>2. m.len = n /\ m.src \in Nat /\ m.dst \in Nat /\ m.src + m.len <= kv_len
      <3>1. PICK j \in DOMAIN segs : Brings(m, segs[j])
        BY <1>1, <1>2
      <3>2. j = i
        BY <1>5, <1>9, <3>1 DEF Brings
      <3> QED BY <1>1, <1>2, <3>1, <3>2 DEF Brings
    <2>3. here(st)
      <3> SUFFICES ASSUME NEW r \in Row, NEW k \in 0 .. n - 1
                   PROVE  d[s][r * kv_len + (st + k)] = <<r, SubSeq(x, 1, k + 1)>>
        BY DEF Holds
      <3>1. c[s][r * kv_len + (m.src + k)] = <<r, SubSeq(x, 1, k + 1)>>
        BY <2>1 DEF Holds
      <3> DEFINE p == st + k
      <3>2. p \in 0 .. kv_len - 1 /\ m.dst <= p /\ p < m.dst + m.len /\ p - m.dst + m.src = m.src + k
        BY SMTT(40), <1>7, <1>9, <2>2
      <3> HIDE DEF p
      <3>3. d[s][r * kv_len + p] = c[s][r * kv_len + (p - m.dst + m.src)]
        BY <3>2 DEF MovedCells, m
      <3> QED BY SMTT(40), <3>1, <3>2, <3>3 DEF p
    <2>4. ASSUME NEW k \in DOMAIN Tail(mv) PROVE Tail(mv)[k].dst # st
      <3>1. Tail(mv)[k] = mv[k + 1] /\ k + 1 \in DOMAIN mv /\ 1 < k + 1
        BY <1>1
      <3>2. mv[1].dst # mv[k + 1].dst
        BY <1>1, <1>3, <3>1
      <3> QED BY <1>1, <1>9, <3>1, <3>2
    <2> QED BY <1>6, <2>3, <2>4
  <1>10. CASE m.dst # st
    <2>1. ASSUME NEW k \in DOMAIN Tail(mv), Tail(mv)[k].dst = st PROVE here(Tail(mv)[k].src)
      <3>1. Tail(mv)[k] = mv[k + 1] /\ k + 1 \in DOMAIN mv /\ 1 < k + 1
        BY <1>1
      <3> DEFINE l == k + 1
      <3>2. was(mv[l].src) /\ mv[l].dst = st
        BY <1>6, <2>1, <3>1
      <3>3. m.dst + m.len <= mv[l].src \/ mv[l].src + mv[l].len <= m.dst
        BY <1>1, <1>3, <3>1
      <3>4. mv[l].len = n /\ mv[l].src \in Nat /\ mv[l].src + mv[l].len <= kv_len
        <4>1. PICK j \in DOMAIN segs : Brings(mv[l], segs[j])
          BY <1>2, <3>1
        <4>2. j = i
          BY <1>5, <3>2, <4>1 DEF Brings
        <4> QED BY <1>2, <3>1, <4>1, <4>2 DEF Brings
      <3> HIDE DEF l
      <3>5. here(mv[l].src)
        <4> HIDE DEF was, here
        <4> QED BY <1>8, <3>2, <3>3, <3>4
      <3> QED BY <3>1, <3>5 DEF l
    <2>2. ASSUME \A k \in DOMAIN Tail(mv) : Tail(mv)[k].dst # st PROVE here(st)
      <3>1. ASSUME NEW k \in DOMAIN mv PROVE mv[k].dst # st
        <4>1. CASE k = 1
          BY <1>1, <1>10, <4>1
        <4>2. CASE k # 1
          <5>1. k - 1 \in DOMAIN Tail(mv) /\ (k - 1) + 1 = k
            BY <1>1, <4>2
          <5>2. Tail(mv)[k - 1] = mv[k]
            BY <1>1, <5>1
          <5> QED BY <2>2, <5>1, <5>2
        <4> QED BY <4>1, <4>2
      <3>2. was(st)
        BY <1>6, <3>1
      <3>3. PICK j \in DOMAIN segs : Brings(m, segs[j])
        BY <1>1, <1>2
      <3>4. j # i /\ m.dst = segs[j].start /\ m.len = segs[j].length
        BY <1>10, <3>3 DEF Brings
      <3>5. i < j \/ j < i
        BY <3>4
      <3>6. st + n <= m.dst \/ m.dst + m.len <= st
        BY <1>4, <3>4, <3>5
      <3> QED BY <1>7, <1>8, <3>2, <3>6
    <2> QED BY <1>6, <2>1, <2>2
  <1> QED BY <1>9, <1>10

\* A place of a row is in the tensor, whatever variant it is laid out for.
LEMMA PlaceInTensor ==
    ASSUME NEW cl \in 1 .. NumCL, NEW r \in Row, NEW p \in 0 .. KVLen(cl) - 1
    PROVE  /\ r * KVLen(cl) + p \in Addr /\ r * KVLen(cl) + p \in Nat
           /\ (r * KVLen(cl) + p) \div KVLen(cl) = r /\ (r * KVLen(cl) + p) % KVLen(cl) = p
  <1> DEFINE k == KVLen(cl)
             max == KVLen(NumCL)
  <1>1. k \in Nat \ {0} /\ max \in Nat /\ k <= max /\ Rows \in Nat /\ r \in 0 .. Rows - 1 /\ r \in Nat
    <2>1. Rows \in Nat \ {0}
      BY CBAssumption DEF CBAssumption
    <2>2. NumCL \in 1 .. NumCL
      BY VariantFacts
    <2> QED BY <2>1, <2>2, VariantFacts DEF Row
  <1>2. Addr = 0 .. Rows * max - 1
    BY DEF Addr
  <1> HIDE DEF k, max
  <1>3. p \in 0 .. k - 1
    BY DEF k
  <1>4. r * k + p \in Addr
    <2>1. k \in 0 .. max
      BY <1>1
    <2> QED BY <1>1, <1>2, <1>3, <2>1, CellInTensor
  <1>5. r * k + p \in Nat /\ (r * k + p) \div k = r /\ (r * k + p) % k = p
    BY <1>1, <1>3, RowAndPlace
  <1> QED BY <1>4, <1>5 DEF k

LEMMA MoveKVBufferCells ==
    ASSUME Cells, MovesInOrder, MoveKVBuffer
    PROVE  Cells' /\ MovedCells(kv, kv', KVLen(active_cl), Head(moves))
  <1> DEFINE m == Head(moves)
             k == KVLen(active_cl)
             moved(a) == a \div k < Rows /\ a % k \in m.dst .. m.dst + m.len - 1
             from(s, a) == IF moved(a) THEN kv[s][a + m.src - m.dst] ELSE kv[s][a]
  <1>1. kv' = [s \in KVShards |-> [a \in Addr |-> from(s, a)]] /\ moves # <<>> /\ active_cl' = active_cl
    BY DEF MoveKVBuffer
  <1>2. active_cl \in 1 .. NumCL /\ kv \in [KVShards -> [Addr -> Cell]]
    BY DEF Cells
  <1>3. k \in Nat \ {0} /\ Rows \in Nat \ {0}
    BY <1>2, VariantFacts, CBAssumption DEF CBAssumption
  <1>4. m.src \in Nat /\ m.dst \in Nat /\ m.len \in Nat \ {0} /\ m.src + m.len <= k
    <2>1. MovesLeft(moves, segments, k)
      BY DEF MovesInOrder
    <2>2. moves \in Seq(MoveType) /\ Len(moves) \in Nat \ {0}
      BY <1>1, <2>1, EmptySeq DEF MovesLeft
    <2>3. m = moves[1] /\ 1 \in DOMAIN moves /\ moves[1] \in MoveType
      BY <2>2
    <2>4. m.src + m.len <= k
      BY <2>1, <2>3 DEF MovesLeft
    <2> QED BY <2>3, <2>4 DEF MoveType
  <1> HIDE DEF m, k
  <1>5. ASSUME NEW s \in KVShards, NEW a \in Addr PROVE from(s, a) \in Cell
    <2>1. kv[s][a] \in Cell
      BY <1>2
    <2>2. CASE moved(a)
      <3> DEFINE r == a \div k
                 p == a % k
      <3>1. a \in Nat
        BY DEF Addr
      <3>2. r \in Nat /\ p \in 0 .. k - 1 /\ a = r * k + p
        BY <1>3, <3>1, QuotientRemainder
      <3>3. r < Rows /\ p \in m.dst .. m.dst + m.len - 1
        BY <2>2
      <3> HIDE DEF r, p
      <3> DEFINE q == p - m.dst + m.src
      <3>4. q \in 0 .. k - 1
        BY <1>3, <1>4, <3>2, <3>3
      <3>5. r \in Row
        BY <1>3, <3>2, <3>3 DEF Row
      <3>6. r * k + q \in Addr
        <4> HIDE DEF q
        <4> QED BY <1>2, <3>4, <3>5, PlaceInTensor DEF k
      <3>7. a + m.src - m.dst = r * k + q
        <4>1. r * k \in Nat
          BY <1>3, <3>2, ProductNat
        <4> DEFINE b == r * k
        <4> HIDE DEF b
        <4>2. a = b + p /\ b \in Nat
          BY <3>2, <4>1 DEF b
        <4>3. a + m.src - m.dst = b + q
          BY <1>4, <3>2, <4>2
        <4> QED BY <4>3 DEF b
      <3>8. kv[s][a + m.src - m.dst] \in Cell
        BY <1>2, <3>6, <3>7
      <3> QED BY <2>2, <3>8
    <2>3. CASE ~moved(a)
      BY <2>1, <2>3
    <2> QED BY <2>2, <2>3
  <1>6. Cells'
    <2> HIDE DEF from
    <2>1. kv' \in [KVShards -> [Addr -> Cell]]
      BY <1>1, <1>5
    <2> QED BY <1>1, <1>2, <2>1 DEF Cells
  <1>7. ASSUME NEW s \in KVShards, NEW r \in Row, NEW p \in 0 .. k - 1
        PROVE  kv'[s][r * k + p] = IF m.dst <= p /\ p < m.dst + m.len THEN kv[s][r * k + (p - m.dst + m.src)]
                                   ELSE kv[s][r * k + p]
    <2> DEFINE a == r * k + p
    <2>1. a \in Addr /\ a \in Nat /\ a \div k = r /\ a % k = p
      BY <1>2, PlaceInTensor DEF k
    <2>2. r \in Nat /\ r < Rows
      BY <1>3 DEF Row
    <2>3. kv'[s][a] = from(s, a)
      BY <1>1, <2>1
    <2>4. moved(a) <=> m.dst <= p /\ p < m.dst + m.len
      BY <1>4, <2>1, <2>2
    <2>5. a + m.src - m.dst = r * k + (p - m.dst + m.src)
      <3> DEFINE b == r * k
      <3>1. b \in Nat
        BY <1>3, <2>2, ProductNat
      <3> HIDE DEF b
      <3>2. (b + p) + m.src - m.dst = b + (p - m.dst + m.src)
        BY <1>4, <3>1
      <3> QED BY <3>2 DEF b
    <2> HIDE DEF a, moved
    <2>6. kv'[s][a] = IF m.dst <= p /\ p < m.dst + m.len THEN kv[s][r * k + (p - m.dst + m.src)] ELSE kv[s][a]
      BY <2>3, <2>4, <2>5
    <2> QED BY <2>6 DEF a
  <1> QED BY <1>6, <1>7 DEF MovedCells, m, k

\* What the segments in order tell of a row of the cache.
LEMMA WidthFacts ==
    ASSUME OrderInv, Cells, SegmentsInOrder, pc # "thrown"
    PROVE  /\ segments \in Seq(SegmentType) /\ Seated(sessions, segments) /\ Laid(segments, Width)
           /\ Width \in [1 .. Len(segments) -> Nat]
           /\ \A i \in DOMAIN segments : /\ segments[i].length <= Width[i] /\ segments[i].length \in Nat
                                         /\ segments[i].length = sessions[segments[i].id].processed
           /\ KVLen(active_cl) \in Nat \ {0}
           /\ ~overflow => SumUpTo(Width, Len(segments)) <= KVLen(active_cl)
  <1> DEFINE none == <<>>
  <1>1. NatValued(lens) /\ NatValued(none)
    BY LensNat DEF NatValued
  <1> HIDE DEF none
  <1>2. /\ segments \in Seq(SegmentType) /\ Seated(sessions, segments) /\ Laid(segments, Width)
        /\ ~overflow => SumUpTo(Width, Len(segments)) <= KVLen(active_cl)
    BY Zenon DEF SegmentsInOrder
  <1>3. KVLen(active_cl) \in Nat \ {0}
    BY VariantFacts DEF Cells
  <1>4. /\ Lengths(segments) \in [1 .. Len(segments) -> Nat] /\ Widths(segments, lens) \in [1 .. Len(segments) -> Nat]
        /\ \A i \in DOMAIN segments : /\ segments[i].length \in Nat /\ Growth(segments, lens, i) \in Nat
                                      /\ Lengths(segments)[i] = segments[i].length
                                      /\ Widths(segments, lens)[i] = segments[i].length + Growth(segments, lens, i)
    BY <1>1, <1>2, SegmentFacts
  <1>5. Width \in [1 .. Len(segments) -> Nat] /\ \A i \in DOMAIN segments : segments[i].length <= Width[i]
    <2>1. CASE Growing
      BY <1>4, <2>1 DEF Width
    <2>2. CASE ~Growing
      BY <1>4, <2>2 DEF Width
    <2> QED BY <2>1, <2>2
  <1>6. \A i \in DOMAIN segments : segments[i].length = sessions[segments[i].id].processed
    BY <1>2 DEF Seated
  <1> QED BY <1>2, <1>3, <1>4, <1>5, <1>6, Zenon

LEMMA MoveKVBufferContents ==
    ASSUME OrderInv, Cells, SegmentsInOrder, MovesInOrder, Contents, MoveKVBuffer
    PROVE  Contents'
  <1>1. /\ moves # <<>> /\ moves' = Tail(moves)
        /\ segments' = segments /\ sessions' = sessions /\ active_cl' = active_cl /\ overflow' = overflow
        /\ lens' = lens /\ kv_segs' = kv_segs /\ act' = act /\ in_start' = in_start /\ pc' = pc /\ shard' = shard
    BY DEF MoveKVBuffer, step
  <1>2. /\ ~overflow /\ (pc = "pick" \/ (pc = "shard" /\ shard = 1))
        /\ MovesLeft(moves, segments, KVLen(active_cl))
    BY <1>1 DEF MovesInOrder
  <1>3. pc # "thrown" /\ pc # "sample" /\ pc # "update" /\ (Growing => pc = "shard" /\ shard = 1)
    BY <1>2 DEF Growing
  <1>4. MovedCells(kv, kv', KVLen(active_cl), Head(moves))
    BY MoveKVBufferCells
  <1>5. Held(kv, KVLen(active_cl), sessions, segments, moves)
    BY <1>2, <1>3, Zenon DEF Contents
  <1>6. Held(kv', KVLen(active_cl), sessions, segments, Tail(moves))
    <2>1. /\ segments \in Seq(SegmentType) /\ Laid(segments, Width)
          /\ Width \in [1 .. Len(segments) -> Nat]
          /\ \A i \in DOMAIN segments : segments[i].length <= Width[i]
          /\ \A i \in DOMAIN segments : segments[i].length = sessions[segments[i].id].processed
      BY <1>3, WidthFacts
    <2>2. KVLen(active_cl) \in Nat /\ SumUpTo(Width, Len(segments)) <= KVLen(active_cl)
      BY <1>2, <1>3, WidthFacts, Zenon
    <2> QED BY <1>1, <1>2, <1>4, <1>5, <2>1, <2>2, MoveHeld
  <1>7. ASSUME Growing'
        PROVE  /\ Extended(kv', KVLen(active_cl'), sessions', kv_segs', lens', Ran')
               /\ RowsOf(act', sessions', lens', in_start')
    <2>1. Growing
      BY <1>1, <1>7 DEF Growing
    <2>2. Ran' = {}
      BY <1>1, <1>3, <2>1 DEF Ran
    <2>3. RowsOf(act, sessions, lens, in_start)
      BY <1>2, <2>1, Zenon DEF Contents
    <2> QED BY <1>1, <2>2, <2>3 DEF Extended
  <1>8. Held(kv', KVLen(active_cl'), sessions', segments', moves')
    BY <1>1, <1>6
  <1> QED BY <1>1, <1>3, <1>7, <1>8, Zenon DEF Contents
-----------------------------------------------------------------------------
(* The contexts of a step's input rows.                                    *)

\* A slice that starts where a beginning ends makes it longer.
LEMMA BeginningGrows ==
    ASSUME NEW T, NEW t \in Seq(T), NEW p \in Nat, NEW l \in Nat, p + l <= Len(t), NEW k \in 0 .. l - 1
    PROVE  SubSeq(t, 1, p) \o SubSeq(SubSeq(t, p + 1, p + l), 1, k + 1) = SubSeq(t, 1, p + k + 1)
  <1> DEFINE a == SubSeq(t, 1, p)
             m == SubSeq(t, p + 1, p + l)
             b == SubSeq(m, 1, k + 1)
             c == SubSeq(t, 1, p + k + 1)
  <1>1. /\ Len(t) \in Nat /\ p <= Len(t) /\ p + 1 \in Nat \ {0} /\ p + l \in Nat /\ 1 \in Nat \ {0}
        /\ k + 1 \in Nat /\ k + 1 <= l /\ p + k + 1 \in Nat /\ p + k + 1 <= Len(t)
    OBVIOUS
  <1>2. a \in Seq(T) /\ Len(a) = p /\ \A i \in 1 .. p : a[i] = t[i]
    <2>1. /\ a \in Seq(T) /\ Len(a) = IF 1 <= p THEN p - 1 + 1 ELSE 0
          /\ \A i \in 1 .. p - 1 + 1 : a[i] = t[1 + i - 1]
      BY <1>1, Slice
    <2> HIDE DEF a
    <2> QED BY <1>1, <2>1
  <1>3. m \in Seq(T) /\ Len(m) = l /\ \A i \in 1 .. l : m[i] = t[p + i]
    <2>1. /\ m \in Seq(T) /\ Len(m) = IF p + 1 <= p + l THEN (p + l) - (p + 1) + 1 ELSE 0
          /\ \A i \in 1 .. (p + l) - (p + 1) + 1 : m[i] = t[(p + 1) + i - 1]
      BY <1>1, Slice
    <2> HIDE DEF m
    <2>2. (p + l) - (p + 1) + 1 = l /\ \A i \in 1 .. l : (p + 1) + i - 1 = p + i
      BY <1>1
    <2> QED BY <1>1, <2>1, <2>2
  <1> HIDE DEF m
  <1>4. b \in Seq(T) /\ Len(b) = k + 1 /\ \A i \in 1 .. k + 1 : b[i] = t[p + i]
    <2>1. /\ b \in Seq(T) /\ Len(b) = IF 1 <= k + 1 THEN k + 1 - 1 + 1 ELSE 0
          /\ \A i \in 1 .. k + 1 - 1 + 1 : b[i] = m[1 + i - 1]
      BY <1>1, <1>3, Slice
    <2> HIDE DEF b
    <2>2. \A i \in 1 .. k + 1 : b[i] = m[i] /\ i \in 1 .. l
      BY <1>1, <2>1
    <2> QED BY <1>1, <1>3, <2>1, <2>2
  <1>5. c \in Seq(T) /\ Len(c) = p + k + 1 /\ \A i \in 1 .. p + k + 1 : c[i] = t[i]
    <2>1. /\ c \in Seq(T) /\ Len(c) = IF 1 <= p + k + 1 THEN p + k + 1 - 1 + 1 ELSE 0
          /\ \A i \in 1 .. p + k + 1 - 1 + 1 : c[i] = t[1 + i - 1]
      BY <1>1, Slice
    <2> HIDE DEF c
    <2> QED BY <1>1, <2>1
  <1> HIDE DEF a, b, c
  <1>6. /\ a \o b \in Seq(T) /\ Len(a \o b) = p + k + 1
        /\ \A i \in 1 .. p + k + 1 : (a \o b)[i] = IF i <= p THEN a[i] ELSE b[i - p]
    <2>1. p + (k + 1) = p + k + 1
      BY <1>1
    <2> QED BY SMTT(40), <1>2, <1>4, <2>1, ConcatProperties
  <1>7. ASSUME NEW i \in 1 .. p + k + 1 PROVE (a \o b)[i] = c[i]
    <2>1. CASE i <= p
      BY SMTT(40), <1>1, <1>2, <1>5, <1>6, <2>1
    <2>2. CASE ~(i <= p)
      <3>1. i - p \in 1 .. k + 1 /\ p + (i - p) = i
        BY <1>1, <2>2
      <3> QED BY <1>4, <1>5, <1>6, <2>2, <3>1
    <2> QED BY <2>1, <2>2
  <1>8. a \o b = c
    <2> DEFINE ab == a \o b
               n == p + k + 1
    <2>1. ab \in Seq(T) /\ Len(ab) = n /\ c \in Seq(T) /\ Len(c) = n /\ n \in Nat
      BY <1>1, <1>5, <1>6
    <2>2. \A i \in 1 .. n : ab[i] = c[i]
      BY <1>7
    <2> HIDE DEF ab, n
    <2>3. ab = [i \in 1 .. n |-> ab[i]]
      BY <2>1
    <2>4. c = [i \in 1 .. n |-> c[i]]
      BY <2>1
    <2>5. ab = c
      BY <2>2, <2>3, <2>4
    <2> QED BY <2>5 DEF ab
  <1> QED BY <1>8 DEF a, b, c

\* What a session in a batch contributes are tokens it has.
LEMMA BatchWithin ==
    ASSUME OrderInv, pc \in {"prepare", "shard", "update"}, NEW id \in DOMAIN lens
    PROVE  /\ id \in DOMAIN sessions /\ sessions[id].id = id /\ sessions[id].processed \in Nat
           /\ lens[id] \in Nat \ {0} /\ in_start[id] \in Nat /\ in_start[id] + lens[id] <= SeqLen
           /\ Text(sessions[id]) \in Seq(Token) /\ Len(Text(sessions[id])) \in Nat
           /\ sessions[id].processed + lens[id] <= Len(Text(sessions[id]))
  <1> DEFINE s == sessions[id]
             l == lens[id]
  <1>1. /\ Sessions(sessions) /\ Batched(sessions, batch, lens, in_start) /\ Wanted(sessions, lens)
        /\ \A i \in ActiveOf(sessions) : Ready(sessions[i])
    BY DEF OrderInv, SessionsInOrder, BatchInOrder
  <1>2. /\ id \in DOMAIN sessions /\ l \in Nat \ {0} /\ l <= Want(s) /\ Ready(s)
        /\ in_start[id] \in Nat /\ in_start[id] + l <= SeqLen
    BY <1>1 DEF Batched, Wanted
  <1>3. /\ s.id = id /\ s.query \in Seq(Token) /\ s.generated \in Seq(Token) /\ s.processed \in Nat
        /\ Text(s) \in Seq(Token) /\ Len(Text(s)) = Len(s.query) + Len(s.generated)
        /\ Len(s.query) \in Nat /\ Len(s.generated) \in Nat
    BY <1>1, <1>2, SessionFacts
  <1> HIDE DEF s
  <1> DEFINE p == s.processed
             q == Len(s.query)
             g == Len(s.generated)
             n == Len(Text(s))
             w == Want(s)
  <1>4. p \in Nat /\ q \in Nat /\ g \in Nat /\ n = q + g /\ n \in Nat /\ l \in Nat \ {0} /\ l <= w
    <2>1. p \in Nat /\ q \in Nat /\ g \in Nat /\ n = q + g /\ l \in Nat \ {0} /\ l <= w
      BY <1>2, <1>3
    <2> HIDE DEF p, q, g, n, w, l
    <2> QED BY <2>1
  <1>5. w = q - p \/ (w = 1 /\ p + 1 = n)
    BY <1>2 DEF Want, Ready
  <1>6. p + l <= n
    <2> HIDE DEF p, q, g, n, w, l
    <2> QED BY <1>4, <1>5
  <1>7. Text(s) \in Seq(Token) /\ s.id = id
    BY <1>3
  <1> QED BY <1>2, <1>4, <1>6, <1>7 DEF s

\* The context of each input row is the beginning of its session's text up to its token.
LEMMA FedContexts ==
    ASSUME OrderInv, pc = "prepare", NEW id \in DOMAIN lens, NEW k \in 0 .. lens[id] - 1
    PROVE  History(sessions[id]) \o SubSeq(Fed(sessions[id]), 1, k + 1) =
             SubSeq(Text(sessions[id]), 1, sessions[id].processed + k + 1)
  <1> DEFINE s == sessions[id]
  <1>1. /\ s.processed \in Nat /\ lens[id] \in Nat /\ Text(s) \in Seq(Token)
        /\ s.processed + lens[id] <= Len(Text(s))
    BY BatchWithin
  <1>2. Fed(s) = SubSeq(Text(s), s.processed + 1, s.processed + lens[id])
    BY FedInBatch DEF FedInOrder, Text
  <1>3. History(s) = SubSeq(Text(s), 1, s.processed)
    BY DEF History, Text
  <1> HIDE DEF s
  <1>4. SubSeq(Text(s), 1, s.processed) \o SubSeq(SubSeq(Text(s), s.processed + 1, s.processed + lens[id]), 1, k + 1)
          = SubSeq(Text(s), 1, s.processed + k + 1)
    BY <1>1, BeginningGrows
  <1>5. History(s) \o SubSeq(Fed(s), 1, k + 1) = SubSeq(Text(s), 1, s.processed + k + 1)
    BY <1>2, <1>3, <1>4
  <1> QED BY <1>5 DEF s

\* The input rows of a batch belong to one session each.
LEMMA RowOwner ==
    ASSUME OrderInv, NEW id \in DOMAIN lens, NEW k \in 0 .. lens[id] - 1
    PROVE  /\ in_start[id] + k \in InputRow /\ Owner(in_start[id] + k) = {id}
           /\ in_start[id] \in Nat /\ lens[id] \in Nat \ {0}
  <1>1. Batched(sessions, batch, lens, in_start) /\ DOMAIN lens \subseteq SessionId
    BY LensNat DEF OrderInv, BatchInOrder
  <1>2. /\ \A i \in DOMAIN lens : lens[i] \in Nat \ {0} /\ in_start[i] \in Nat /\ in_start[i] + lens[i] <= SeqLen
        /\ \A i, j \in DOMAIN lens : i < j => in_start[i] + lens[i] <= in_start[j]
    BY <1>1 DEF Batched
  <1>3. SeqLen \in Nat /\ DOMAIN lens \subseteq Nat
    <2>1. DOMAIN lens \subseteq DOMAIN Queries /\ Queries \in Seq(Seq(Token) \ {<<>>})
      BY <1>1, CBAssumption DEF SessionId, CBAssumption
    <2> QED BY <2>1, SeqLenPositive
  <1> DEFINE row == in_start[id] + k
  <1>4. row \in InputRow /\ in_start[id] <= row /\ row < in_start[id] + lens[id] /\ row \in Nat
    BY <1>2, <1>3 DEF InputRow
  <1>5. ASSUME NEW j \in DOMAIN lens, in_start[j] <= row, row < in_start[j] + lens[j] PROVE j = id
    <2>1. ~(j < id)
      BY <1>2, <1>4, <1>5
    <2>2. ~(id < j)
      BY <1>2, <1>4, <1>5
    <2>3. j \in Nat /\ id \in Nat
      BY <1>3
    <2> QED BY <2>1, <2>2, <2>3
  <1> HIDE DEF row
  <1>6. Owner(row) = {id}
    BY <1>4, <1>5 DEF Owner
  <1> QED BY <1>2, <1>4, <1>6 DEF row

\* A change of variant keeps the places that are in use.
LEMMA SelectedCells ==
    ASSUME Cells, NEW cl \in active_cl .. NumCL, NEW used \in Nat, used <= KVLen(active_cl)
    PROVE  /\ SelectedKV(cl, used) \in [KVShards -> [Addr -> Cell]]
           /\ \A s \in KVShards, r \in Row, p \in 0 .. used - 1 :
                 SelectedKV(cl, used)[s][r * KVLen(cl) + p] = kv[s][r * KVLen(active_cl) + p]
  <1> DEFINE old == KVLen(active_cl)
             new == KVLen(cl)
             max == KVLen(NumCL)
             to(s) == Restride(kv[s], Rows, old, new, used, Zero)
  <1>1. active_cl \in 1 .. NumCL /\ kv \in [KVShards -> [Addr -> Cell]]
    BY DEF Cells
  <1>2. cl \in 1 .. NumCL /\ NumCL \in 1 .. NumCL /\ active_cl <= cl
    BY <1>1, VariantFacts
  <1>3. old \in Nat \ {0} /\ new \in Nat \ {0} /\ max \in Nat /\ old <= max /\ new <= max /\ old <= new
    BY <1>1, <1>2, VariantFacts
  <1>4. Rows \in Nat /\ Addr = 0 .. Rows * max - 1 /\ Row = 0 .. Rows - 1
    BY CBAssumption DEF CBAssumption, Addr, Row
  <1>5. CASE cl = active_cl
    <2>1. SelectedKV(cl, used) = kv
      BY <1>5 DEF SelectedKV
    <2> QED BY <1>1, <1>5, <2>1
  <1>6. CASE cl # active_cl
    <2>1. SelectedKV(cl, used) = [s \in KVShards |-> to(s)]
      BY <1>6 DEF SelectedKV
    <2>2. ASSUME NEW s \in KVShards PROVE to(s) \in [Addr -> Cell]
      <3>1. kv[s] \in [0 .. Rows * max - 1 -> Cell] /\ Zero \in Cell
        BY <1>1, <1>4 DEF Cell
      <3>2. old \in 1 .. max /\ new \in 1 .. max
        BY <1>3
      <3> HIDE DEF old, new, max
      <3>3. to(s) \in [0 .. Rows * max - 1 -> Cell]
        BY <1>3, <1>4, <3>1, <3>2, RestrideType
      <3> QED BY <1>4, <3>3
    <2>3. ASSUME NEW s \in KVShards, NEW r \in Row, NEW p \in 0 .. used - 1
          PROVE  to(s)[r * new + p] = kv[s][r * old + p]
      <3> DEFINE n == CopyLen(old, new, used)
      <3>1. used <= old
        OBVIOUS
      <3>2. p \in 0 .. new - 1
        BY <1>3, <3>1
      <3>3. r * new + p \in Addr
        BY <1>2, <3>2, PlaceInTensor
      <3> HIDE DEF old, new, max
      <3>4. n = used
        BY <1>3, <3>1 DEF CopyLen, Min2
      <3> HIDE DEF n
      <3>5. Moved(kv[s], to(s), Rows, old, new, CopyLen(old, new, used))
        BY <1>3, <1>4, RestrideCells
      <3>6. Moved(kv[s], to(s), Rows, old, new, used)
        BY <3>4, <3>5 DEF n
      <3>7. kv[s] \in [Addr -> Cell]
        BY <1>1
      <3>8. r * new + p \in DOMAIN kv[s] /\ r \in 0 .. Rows - 1
        BY <1>4, <3>3, <3>7
      <3> QED BY <3>6, <3>8 DEF Moved
    <2> HIDE DEF to
    <2>4. SelectedKV(cl, used) \in [KVShards -> [Addr -> Cell]]
      BY <2>1, <2>2
    <2>5. ASSUME NEW s \in KVShards, NEW r \in Row, NEW p \in 0 .. used - 1
          PROVE  SelectedKV(cl, used)[s][r * new + p] = kv[s][r * old + p]
      BY <2>1, <2>3
    <2> QED BY <2>4, <2>5
  <1> QED BY <1>5, <1>6

LEMMA PrepareCells ==
    ASSUME OrderInv, Cells, Flag, SegmentsInOrder, Prepare
    PROVE  /\ Cells'
           /\ ~overflow' => \A s \in KVShards, r \in Row, p \in 0 .. Used - 1 :
                               kv'[s][r * KVLen(active_cl') + p] = kv[s][r * KVLen(active_cl) + p]
  <1>1. active_cl' \in active_cl .. NumCL /\ active_cl' \in 1 .. NumCL /\ Used \in Nat /\ pc = "prepare"
    BY PrepareFacts
  <1>2. overflow' \in BOOLEAN
    BY PrepareFacts
  <1>3. overflow' => kv' = [s \in KVShards |-> [a \in Addr |-> Junk]]
    BY PrepareFacts
  <1>4. ~overflow' => ~overflow /\ kv' = SelectedKV(active_cl', Used)
    BY PrepareFacts, Zenon
  <1>5. CASE overflow'
    <2>1. Junk \in Cell
      BY DEF Cell
    <2>2. kv' \in [KVShards -> [Addr -> Cell]]
      BY <1>3, <1>5, <2>1
    <2> QED BY <1>1, <1>5, <2>2, Zenon DEF Cells
  <1>6. CASE ~overflow'
    <2>1. Used <= KVLen(active_cl)
      <3>1. ~overflow => SumUpTo(Width, Len(segments)) <= KVLen(active_cl)
        BY <1>1, WidthFacts
      <3>2. Width = Lengths(segments)
        BY <1>1 DEF Width, Growing
      <3> QED BY <1>4, <1>6, <3>1, <3>2, Zenon DEF Used
    <2> DEFINE u == Used
               cl == active_cl'
    <2>2. cl \in active_cl .. NumCL /\ u \in Nat /\ u <= KVLen(active_cl)
      BY <1>1, <2>1
    <2> HIDE DEF u, cl
    <2>3. /\ SelectedKV(cl, u) \in [KVShards -> [Addr -> Cell]]
          /\ \A s \in KVShards, r \in Row, p \in 0 .. u - 1 :
                SelectedKV(cl, u)[s][r * KVLen(cl) + p] = kv[s][r * KVLen(active_cl) + p]
      BY <2>2, SelectedCells
    <2>4. kv' = SelectedKV(cl, u)
      BY <1>4, <1>6, Zenon DEF cl, u
    <2>5. kv' \in [KVShards -> [Addr -> Cell]]
      BY <2>3, <2>4
    <2>6. \A s \in KVShards, r \in Row, p \in 0 .. u - 1 : kv'[s][r * KVLen(cl) + p] = kv[s][r * KVLen(active_cl) + p]
      BY <2>3, <2>4
    <2>7. Cells'
      BY <1>1, <2>5 DEF Cells
    <2> QED BY <2>6, <2>7, Zenon DEF u, cl
  <1> QED BY <1>2, <1>5, <1>6, Zenon

\* The input rows of a step get the contexts of their tokens.
LEMMA PrepareRows ==
    ASSUME OrderInv, Prepare
    PROVE  RowsOf(act', sessions, lens, in_start)
  <1>1. pc = "prepare"
    BY DEF Prepare
  <1> DEFINE of(row, id) == History(sessions[id]) \o SubSeq(Fed(sessions[id]), 1, row - in_start[id] + 1)
             one(row) == CHOOSE id \in Owner(row) : TRUE
  <1>2. act' = [row \in InputRow |-> IF Owner(row) = {} THEN Pad ELSE of(row, one(row))]
    BY DEF Prepare
  <1>3. ASSUME NEW id \in DOMAIN lens, NEW k \in 0 .. lens[id] - 1
        PROVE  act'[in_start[id] + k] = SubSeq(Text(sessions[id]), 1, sessions[id].processed + k + 1)
    <2> DEFINE row == in_start[id] + k
    <2>1. row \in InputRow /\ Owner(row) = {id} /\ in_start[id] \in Nat
      BY RowOwner
    <2>2. row - in_start[id] + 1 = k + 1
      BY <2>1
    <2> HIDE DEF row, of
    <2>3. one(row) = id
      BY <2>1
    <2>4. act'[row] = of(row, one(row))
      BY <1>2, <2>1
    <2>5. act'[row] = of(row, id)
      BY <2>3, <2>4
    <2>6. History(sessions[id]) \o SubSeq(Fed(sessions[id]), 1, k + 1) =
            SubSeq(Text(sessions[id]), 1, sessions[id].processed + k + 1)
      BY <1>1, FedContexts
    <2>7. of(row, id) = SubSeq(Text(sessions[id]), 1, sessions[id].processed + k + 1)
      BY <2>2, <2>6 DEF of
    <2> QED BY <2>5, <2>7 DEF row
  <1> QED BY <1>3 DEF RowsOf

\* Promotion and the moves still to be made leave every session its entries.
LEMMA PrepareHeld ==
    ASSUME OrderInv, Cells, Flag, SegmentsInOrder, MovesInOrder, Contents, Prepare, ~overflow'
    PROVE  Held(kv', KVLen(active_cl'), sessions, segments', moves')
  <1> DEFINE to == WithStarts(Grown, ShiftedTo)
             mv == Moves(Grown, ShiftedTo, RightToLeft(Grown))
             new == KVLen(active_cl')
             old == KVLen(active_cl)
  <1>1. /\ pc = "prepare" /\ segments \in Seq(SegmentType) /\ Laid(segments, Lengths(segments))
        /\ Seated(sessions, segments) /\ ShiftedTo \in [DOMAIN Grown -> Nat] /\ segments' = to
        /\ Used \in Nat /\ GrownBy \in Nat /\ active_cl' \in 1 .. NumCL
    BY PrepareFacts
  <1>2. ~overflow
    BY PrepareFacts, Zenon
  <1>3. Used + GrownBy <= new
    BY PrepareFacts, Zenon
  <1>4. moves' = mv
    BY PrepareFacts, Zenon
  <1>5. new \in Nat /\ Used <= new
    BY <1>1, <1>3, VariantFacts
  <1>6. /\ to \in Seq(SegmentType) /\ Laid(to, Widths(to, lens))
        /\ Apart(Grown, Starts(Grown)) /\ Apart(Grown, ShiftedTo)
        /\ \A i \in DOMAIN Grown : Grown[i].length > 0 => /\ Grown[i].start + Grown[i].length <= Used
                                                          /\ Grown[i].start <= ShiftedTo[i]
    BY <1>1, ShiftedFacts
  <1>7. /\ Grown \in Seq(SegmentType)
        /\ \A i \in 1 .. Len(segments) : i \in DOMAIN Grown /\ Grown[i] = segments[i]
        /\ DOMAIN segments = 1 .. Len(segments)
    BY <1>1, GrownFacts
  <1>8. /\ Seated(sessions, Grown)
        /\ \A i \in DOMAIN Grown : Grown[i].length > 0 => i \in DOMAIN segments
    BY <1>1, GrownSeated
  <1>9. NatValued(lens)
    BY LensNat
  <1>10. \A i \in DOMAIN Grown : Grown[i] \in SegmentType /\ Grown[i].start \in Nat /\ Grown[i].length \in Nat
    <2>1. \A i \in DOMAIN Grown : Grown[i] \in SegmentType
      BY <1>7
    <2> QED BY <2>1 DEF SegmentType
  <1>11. DOMAIN to = DOMAIN Grown /\ \A i \in DOMAIN Grown : to[i].start = ShiftedTo[i]
    BY <1>10 DEF WithStarts, SegmentType
  <1> HIDE DEF to
  <1>12. \A i, j \in DOMAIN Grown : ShiftedTo[i] = ShiftedTo[j] => i = j
    <2>1. Widths(to, lens) \in [1 .. Len(to) -> Nat]
      BY <1>6, <1>9, SegmentFacts
    <2>2. \A i, j \in DOMAIN to : to[i].start = to[j].start => i = j
      BY <1>6, <2>1, LaidDistinct
    <2> QED BY <1>11, <2>2
  <1>13. PICK ix : MovesOf(mv, Grown, ShiftedTo, ix) /\ mv \in Seq(MoveType)
    <2>1. ASSUME NEW i \in DOMAIN Grown, Moving(Grown, ShiftedTo, i)
          PROVE  Grown[i].start + Grown[i].length <= new /\ Grown[i].start <= ShiftedTo[i]
      <3>1. /\ Grown[i].start + Grown[i].length <= Used /\ Grown[i].start <= ShiftedTo[i]
            /\ Grown[i].start \in Nat /\ Grown[i].length \in Nat
        BY <1>6, <1>10, <2>1 DEF Moving
      <3> DEFINE a == Grown[i].start
                 l == Grown[i].length
      <3>2. a + l <= new
        <4>1. a \in Nat /\ l \in Nat /\ a + l <= Used
          BY <3>1
        <4> HIDE DEF a, l, new
        <4> QED BY <1>1, <1>5, <4>1
      <3> QED BY <3>1, <3>2
    <2> HIDE DEF new
    <2>2. MovesLeft(mv, WithStarts(Grown, ShiftedTo), new) /\ \E ix : MovesOf(mv, Grown, ShiftedTo, ix)
      BY <1>1, <1>5, <1>6, <1>7, <2>1, MovesToRight
    <2> QED BY <2>2 DEF MovesLeft
  <1>14. \A i \in DOMAIN Grown : Grown[i].length = sessions[Grown[i].id].processed
    BY <1>8 DEF Seated
  <1>15. Resident(kv, old, sessions, segments)
    <2>1. moves = <<>>
      BY <1>1 DEF MovesInOrder
    <2>2. Held(kv, old, sessions, segments, moves)
      BY <1>1, <1>2, Zenon DEF Contents
    <2> QED BY <2>1, <2>2, HeldResident
  <1>16. \A s \in KVShards, r \in Row, p \in 0 .. Used - 1 : kv'[s][r * new + p] = kv[s][r * old + p]
    BY PrepareCells, Zenon
  <1>17. ASSUME NEW s \in KVShards, NEW i \in DOMAIN Grown, Grown[i].length > 0
         PROVE  Holds(kv'[s], new, Grown[i].start, Text(sessions[Grown[i].id]), sessions[Grown[i].id].processed)
    <2> DEFINE at == Grown[i].start
               n == Grown[i].length
               t == Text(sessions[Grown[i].id])
    <2>1. i \in DOMAIN segments /\ Grown[i] = segments[i]
      BY <1>7, <1>8, <1>17
    <2>2. Holds(kv[s], old, at, t, n)
      BY <1>14, <1>15, <2>1 DEF Resident
    <2>3. at \in Nat /\ n \in Nat /\ at + n <= Used
      BY <1>6, <1>10, <1>17
    <2> HIDE DEF at, n, t, new, old
    <2>4. ASSUME NEW r \in Row, NEW k \in 0 .. n - 1
          PROVE  kv'[s][r * new + (at + k)] = <<r, SubSeq(t, 1, k + 1)>>
      <3>1. at + k \in 0 .. Used - 1
        BY <1>1, <2>3
      <3> DEFINE p == at + k
      <3>2. p \in 0 .. Used - 1
        BY <3>1
      <3> HIDE DEF p
      <3>3. kv'[s][r * new + p] = kv[s][r * old + p]
        BY <1>16, <3>2
      <3>4. kv[s][r * old + p] = <<r, SubSeq(t, 1, k + 1)>>
        BY <2>2 DEF Holds, p
      <3> QED BY <3>3, <3>4 DEF p
    <2>5. Holds(kv'[s], new, at, t, n)
      BY <2>4 DEF Holds
    <2> QED BY <1>14, <2>5 DEF at, n, t
  <1> HIDE DEF mv, new, old
  <1>18. Held(kv', new, sessions, WithStarts(Grown, ShiftedTo), mv)
    BY <1>1, <1>7, <1>12, <1>13, <1>14, <1>17, MovedHeld
  <1> QED BY <1>1, <1>4, <1>18 DEF new, to

LEMMA PrepareContents ==
    ASSUME OrderInv, Cells, Flag, SegmentsInOrder, MovesInOrder, Contents, Prepare
    PROVE  Contents'
  <1>1. /\ pc' = "shard" /\ shard' = 1 /\ sessions' = sessions /\ lens' = lens /\ in_start' = in_start
    BY PrepareFacts
  <1>2. ASSUME ~overflow' PROVE Held(kv', KVLen(active_cl'), sessions', segments', moves')
    BY <1>1, <1>2, PrepareHeld
  <1>3. Extended(kv', KVLen(active_cl'), sessions', kv_segs', lens', Ran')
    <2>1. Ran' = {}
      BY <1>1 DEF Ran
    <2> QED BY <2>1 DEF Extended
  <1>4. RowsOf(act', sessions', lens', in_start')
    BY <1>1, PrepareRows
  <1>5. pc' # "sample"
    BY <1>1
  <1> QED BY <1>2, <1>3, <1>4, <1>5, Zenon DEF Contents
-----------------------------------------------------------------------------
(* A shard runs on the packed input.                                       *)

\* Two intervals, one behind the other, have their sizes together.
Both(a, y, b, z) == (a .. y) \cup (b .. z)

LEMMA TwoIntervals ==
    ASSUME NEW a \in Int, NEW y \in Int, NEW b \in Int, NEW z \in Int, a - 1 <= y, y < b, b - 1 <= z
    PROVE  Cardinality(Both(a, y, b, z)) = (y - a + 1) + (z - b + 1)
  <1> DEFINE A == a .. y
             B == b .. z
  <1>1. IsFiniteSet(A) /\ Cardinality(A) = y - a + 1
    <2>1. IsFiniteSet(a .. y) /\ Cardinality(a .. y) = IF a > y THEN 0 ELSE y - a + 1
      BY FS_Interval
    <2>2. (IF a > y THEN 0 ELSE y - a + 1) = y - a + 1
      OBVIOUS
    <2> QED BY <2>1, <2>2
  <1>2. IsFiniteSet(B) /\ Cardinality(B) = z - b + 1
    <2>1. IsFiniteSet(b .. z) /\ Cardinality(b .. z) = IF b > z THEN 0 ELSE z - b + 1
      BY FS_Interval
    <2>2. (IF b > z THEN 0 ELSE z - b + 1) = z - b + 1
      OBVIOUS
    <2> QED BY <2>1, <2>2
  <1>3. A \cap B = {}
    OBVIOUS
  <1> HIDE DEF A, B
  <1>4. Cardinality(A \cap B) = 0
    BY <1>3, FS_EmptySet
  <1>5. Cardinality(A \cup B) = Cardinality(A) + Cardinality(B) - Cardinality(A \cap B)
    BY <1>1, <1>2, FS_Union
  <1>6. Cardinality(A \cup B) = (y - a + 1) + (z - b + 1)
    BY <1>1, <1>2, <1>4, <1>5
  <1> QED BY <1>6 DEF A, B, Both

\* The columns an input row may attend to, counted from the left: the session's cache,
\* then its inputs.
UpTo(columns, c) == Cardinality({d \in columns : d <= c})

Counted(columns, seg, kv_len, at, k) ==
    /\ Cardinality(columns) = seg.length + k + 1
    /\ \A c \in columns :
          \/ c < kv_len /\ \E j \in 0 .. seg.length - 1 : c = seg.start + j /\ UpTo(columns, c) = j + 1
          \/ ~(c < kv_len) /\ \E j \in 0 .. k : c - kv_len = at + j /\ UpTo(columns, c) = seg.length + j + 1

LEMMA ColumnFacts ==
    ASSUME NEW seg, seg.start \in Nat, seg.length \in Nat, NEW kv_len \in Nat, seg.start + seg.length <= kv_len,
           NEW at \in Nat, NEW k \in Nat
    PROVE  Counted(MaskColumns(seg, kv_len, at, k), seg, kv_len, at, k)
  <1> DEFINE a == seg.start
             p == seg.length
             b == kv_len + at
             columns == MaskColumns(seg, kv_len, at, k)
             upto(c) == UpTo(columns, c)
  <1>1. a \in Nat /\ p \in Nat /\ b \in Nat /\ a + p <= b /\ a + p <= kv_len
    <2>1. a \in Nat /\ p \in Nat /\ a + p <= kv_len
      OBVIOUS
    <2> HIDE DEF a, p
    <2> QED BY <2>1
  <1>2. columns = (a .. a + p - 1) \cup (b .. b + (k + 1) - 1)
    <2> DEFINE B == {kv_len + at + c : c \in 0 .. k}
               C == b .. b + (k + 1) - 1
    <2>1. columns = (a .. a + p - 1) \cup B
      BY DEF MaskColumns, SegEnd
    <2>2. B = C
      <3>1. ASSUME NEW x \in B PROVE x \in C
        OBVIOUS
      <3>2. ASSUME NEW x \in C PROVE x \in B
        <4>1. x - b \in 0 .. k /\ x = kv_len + at + (x - b)
          BY <1>1
        <4> QED BY <4>1
      <3> QED BY <3>1, <3>2
    <2> QED BY <2>1, <2>2
  <1> HIDE DEF columns, a, p, b
  <1>3. Cardinality(columns) = p + k + 1
    <2> DEFINE y == a + p - 1
               z == b + (k + 1) - 1
    <2>1. a \in Int /\ y \in Int /\ b \in Int /\ z \in Int /\ a - 1 <= y /\ y < b /\ b - 1 <= z
      BY <1>1
    <2>2. (y - a + 1) + (z - b + 1) = p + k + 1
      BY <1>1
    <2>3. columns = Both(a, y, b, z)
      BY <1>2 DEF Both
    <2> HIDE DEF y, z
    <2>4. Cardinality(Both(a, y, b, z)) = (y - a + 1) + (z - b + 1)
      BY <2>1, TwoIntervals
    <2> QED BY <2>2, <2>3, <2>4
  <1>4. ASSUME NEW c \in columns, c < kv_len PROVE \E j \in 0 .. p - 1 : c = a + j /\ upto(c) = j + 1
    <2> DEFINE j == c - a
    <2>1. j \in 0 .. p - 1 /\ c = a + j /\ j \in Nat /\ j + 1 \in Nat /\ a + (j + 1) <= b
      BY <1>1, <1>2, <1>4 DEF b
    <2> DEFINE z == b - 1
    <2>2. {d \in columns : d <= c} = Both(a, c, b, z)
      BY <1>1, <1>2, <2>1 DEF Both
    <2>3. a \in Int /\ c \in Int /\ b \in Int /\ z \in Int /\ a - 1 <= c /\ c < b /\ b - 1 <= z
      BY <1>1, <2>1
    <2>4. (c - a + 1) + (z - b + 1) = j + 1
      BY <1>1, <2>1
    <2> HIDE DEF j, z
    <2>5. Cardinality(Both(a, c, b, z)) = (c - a + 1) + (z - b + 1)
      BY <2>3, TwoIntervals
    <2>6. upto(c) = j + 1
      BY <2>2, <2>4, <2>5 DEF UpTo
    <2> HIDE DEF upto
    <2> QED BY <2>1, <2>6
  <1>5. ASSUME NEW c \in columns, ~(c < kv_len) PROVE \E j \in 0 .. k : c - kv_len = at + j /\ upto(c) = p + j + 1
    <2> DEFINE j == c - b
    <2>1. j \in 0 .. k /\ c = b + j /\ j + 1 \in Nat /\ c - kv_len = at + j
      BY <1>1, <1>2, <1>5 DEF b
    <2> DEFINE y == a + p - 1
    <2>2. {d \in columns : d <= c} = Both(a, y, b, c)
      BY <1>1, <1>2, <2>1 DEF Both
    <2>3. a \in Int /\ y \in Int /\ b \in Int /\ c \in Int /\ a - 1 <= y /\ y < b /\ b - 1 <= c
      BY <1>1, <2>1
    <2>4. (y - a + 1) + (c - b + 1) = p + j + 1
      BY <1>1, <2>1
    <2> HIDE DEF j, y
    <2>5. Cardinality(Both(a, y, b, c)) = (y - a + 1) + (c - b + 1)
      BY <2>3, TwoIntervals
    <2>6. upto(c) = p + j + 1
      BY <2>2, <2>4, <2>5 DEF UpTo
    <2> HIDE DEF upto
    <2> QED BY <2>1, <2>6
  <1> HIDE DEF upto
  <1>6. \A c \in columns : \/ c < kv_len /\ \E j \in 0 .. p - 1 : c = a + j /\ upto(c) = j + 1
                           \/ ~(c < kv_len) /\ \E j \in 0 .. k : c - kv_len = at + j /\ upto(c) = p + j + 1
    BY <1>4, <1>5
  <1> QED BY <1>3, <1>6 DEF columns, upto, a, p, Counted

\* A beginning of a beginning.
LEMMA CutAgain ==
    ASSUME NEW T, NEW t \in Seq(T), NEW m \in 0 .. Len(t), NEW n \in 0 .. m
    PROVE  SubSeq(SubSeq(t, 1, m), 1, n) = SubSeq(t, 1, n)
  <1> DEFINE a == SubSeq(t, 1, m)
             b == SubSeq(a, 1, n)
             c == SubSeq(t, 1, n)
  <1>1. Len(t) \in Nat /\ m \in Nat /\ n \in Nat /\ m <= Len(t) /\ n <= m /\ n <= Len(t) /\ 1 \in Nat \ {0}
    OBVIOUS
  <1>2. a \in Seq(T) /\ Len(a) = m /\ \A i \in 1 .. m : a[i] = t[i]
    <2>1. /\ a \in Seq(T) /\ Len(a) = IF 1 <= m THEN m - 1 + 1 ELSE 0
          /\ \A i \in 1 .. m - 1 + 1 : a[i] = t[1 + i - 1]
      BY <1>1, Slice
    <2> HIDE DEF a
    <2> QED BY <1>1, <2>1
  <1>3. c \in Seq(T) /\ Len(c) = n /\ \A i \in 1 .. n : c[i] = t[i]
    <2>1. /\ c \in Seq(T) /\ Len(c) = IF 1 <= n THEN n - 1 + 1 ELSE 0
          /\ \A i \in 1 .. n - 1 + 1 : c[i] = t[1 + i - 1]
      BY <1>1, Slice
    <2> HIDE DEF c
    <2> QED BY <1>1, <2>1
  <1> HIDE DEF a
  <1>4. b \in Seq(T) /\ Len(b) = n /\ \A i \in 1 .. n : b[i] = a[i]
    <2>1. /\ b \in Seq(T) /\ Len(b) = IF 1 <= n THEN n - 1 + 1 ELSE 0
          /\ \A i \in 1 .. n - 1 + 1 : b[i] = a[1 + i - 1]
      BY <1>1, <1>2, Slice
    <2> HIDE DEF b
    <2> QED BY <1>1, <2>1
  <1> HIDE DEF b, c
  <1>5. \A i \in 1 .. n : b[i] = c[i]
    BY <1>1, <1>2, <1>3, <1>4
  <1>6. b = [i \in 1 .. n |-> b[i]] /\ c = [i \in 1 .. n |-> c[i]]
    BY <1>3, <1>4
  <1>7. b = c
    BY <1>5, <1>6
  <1> QED BY <1>7 DEF a, b, c

\* While a step grows the segments, each session of the batch has its own, with room
\* behind it for what it contributes before the next one begins.
LEMMA SlotFacts ==
    ASSUME OrderInv, Cells, SegmentsInOrder, Growing, ~overflow, NEW id \in DOMAIN lens
    PROVE  /\ \E i \in DOMAIN segments : segments[i] = kv_segs[id] /\ segments[i].id = id
           /\ kv_segs[id].start \in Nat /\ kv_segs[id].length \in Nat
           /\ kv_segs[id].length = sessions[id].processed
           /\ kv_segs[id].start + kv_segs[id].length + lens[id] <= KVLen(active_cl)
           /\ \A j \in DOMAIN segments : segments[j].id # id =>
                 \/ segments[j].start + segments[j].length + At(lens, segments[j].id) <= kv_segs[id].start
                 \/ kv_segs[id].start + kv_segs[id].length + lens[id] <= segments[j].start
  <1>1. pc # "thrown" /\ pc \in {"shard", "update"}
    BY DEF Growing
  <1>2. /\ segments \in Seq(SegmentType) /\ Laid(segments, Width) /\ Width \in [1 .. Len(segments) -> Nat]
        /\ \A i \in DOMAIN segments : segments[i].length = sessions[segments[i].id].processed
        /\ KVLen(active_cl) \in Nat
    BY <1>1, WidthFacts
  <1>3. SumUpTo(Width, Len(segments)) <= KVLen(active_cl)
    BY <1>1, WidthFacts, Zenon
  <1>4. HasSegment(segments, id) /\ kv_segs[id] = GetSegment(segments, id)
    BY DEF SegmentsInOrder
  <1>5. PICK i \in DOMAIN segments : segments[i].id = id /\ kv_segs[id] = segments[i]
    <2>1. \E i \in DOMAIN segments : segments[i].id = id
      BY <1>4 DEF HasSegment
    <2> QED BY <1>4, <2>1 DEF GetSegment
  <1>6. NatValued(lens)
    BY LensNat
  <1>7. /\ DOMAIN segments = 1 .. Len(segments)
        /\ \A j \in DOMAIN segments : /\ segments[j].start \in Nat /\ segments[j].length \in Nat
                                      /\ Growth(segments, lens, j) \in Nat
                                      /\ Widths(segments, lens)[j] = segments[j].length + Growth(segments, lens, j)
    BY <1>2, <1>6, SegmentFacts
  <1>8. Width = Widths(segments, lens)
    BY DEF Width
  <1>9. \A j \in DOMAIN segments : Width[j] = segments[j].length + At(lens, segments[j].id) /\ At(lens, segments[j].id) \in Nat
    BY <1>7, <1>8 DEF Growth, At
  <1>10. At(lens, id) = lens[id]
    BY DEF At
  <1> HIDE DEF Width
  <1>11. /\ \A j \in DOMAIN segments : segments[j].start + Width[j] <= SumUpTo(Width, Len(segments))
         /\ \A j, l \in DOMAIN segments : j < l => segments[j].start + Width[j] <= segments[l].start
         /\ SumUpTo(Width, Len(segments)) \in Nat
    BY <1>2, LaidFacts
  <1> DEFINE a == kv_segs[id].start
             p == kv_segs[id].length
             l == lens[id]
  <1>12. a \in Nat /\ p \in Nat /\ l \in Nat /\ Width[i] = p + l /\ a = segments[i].start
    <2>1. a \in Nat /\ p \in Nat /\ a = segments[i].start
      BY <1>5, <1>7
    <2>2. Width[i] = p + l /\ l \in Nat
      BY <1>5, <1>9, <1>10
    <2> QED BY <2>1, <2>2
  <1> HIDE DEF a, p, l
  <1>13. a + p + l <= KVLen(active_cl)
    <2>1. a + (p + l) <= SumUpTo(Width, Len(segments))
      BY <1>11, <1>12
    <2> QED BY SMTT(40), <1>2, <1>3, <1>11, <1>12, <2>1
  <1>14. ASSUME NEW j \in DOMAIN segments, segments[j].id # id
         PROVE  \/ segments[j].start + segments[j].length + At(lens, segments[j].id) <= a
                \/ a + p + l <= segments[j].start
    <2> DEFINE b == segments[j].start
               q == segments[j].length
               g == At(lens, segments[j].id)
    <2>1. b \in Nat /\ q \in Nat /\ g \in Nat /\ Width[j] = q + g
      BY <1>7, <1>9
    <2>2. j # i /\ i \in Nat /\ j \in Nat
      BY <1>5, <1>7, <1>14
    <2>3. CASE j < i
      <3>1. b + Width[j] <= a
        BY <1>11, <1>12, <2>3
      <3> HIDE DEF b, q, g
      <3>2. b + q + g <= a
        BY <1>12, <2>1, <3>1
      <3> QED BY <3>2 DEF b, q, g
    <2>4. CASE i < j
      <3>1. a + Width[i] <= b
        BY <1>11, <1>12, <2>4
      <3> HIDE DEF b, q, g
      <3>2. a + p + l <= b
        BY <1>12, <2>1, <3>1
      <3> QED BY <3>2 DEF b
    <2> QED BY <2>2, <2>3, <2>4
  <1>15. p = sessions[id].processed
    BY <1>2, <1>5 DEF p
  <1>16. \E j \in DOMAIN segments : segments[j] = kv_segs[id] /\ segments[j].id = id
    BY <1>5
  <1> QED BY <1>12, <1>13, <1>14, <1>15, <1>16 DEF a, p, l

\* Two sessions of a batch have room of their own.
LEMMA SlotsApart ==
    ASSUME OrderInv, Cells, SegmentsInOrder, Growing, ~overflow, NEW id \in DOMAIN lens, NEW j \in DOMAIN lens, id # j
    PROVE  \/ kv_segs[j].start + kv_segs[j].length + lens[j] <= kv_segs[id].start
           \/ kv_segs[id].start + kv_segs[id].length + lens[id] <= kv_segs[j].start
  <1>1. PICK i \in DOMAIN segments : segments[i] = kv_segs[j] /\ segments[i].id = j
    BY SlotFacts
  <1>2. At(lens, segments[i].id) = lens[j]
    BY <1>1 DEF At
  <1>3. \/ segments[i].start + segments[i].length + At(lens, segments[i].id) <= kv_segs[id].start
        \/ kv_segs[id].start + kv_segs[id].length + lens[id] <= segments[i].start
    BY <1>1, SlotFacts
  <1> QED BY <1>1, <1>2, <1>3

\* Before a shard runs, the cache holds the entries of each session of the batch.
LEMMA SlotHeld ==
    ASSUME OrderInv, Cells, SegmentsInOrder, Contents, Growing, ~overflow, moves = <<>>
    PROVE  /\ Resident(kv, KVLen(active_cl), sessions, segments)
           /\ \A s \in KVShards, id \in DOMAIN lens :
                 Holds(kv[s], KVLen(active_cl), kv_segs[id].start, Text(sessions[id]), sessions[id].processed)
  <1>1. pc # "thrown"
    BY DEF Growing
  <1>2. Held(kv, KVLen(active_cl), sessions, segments, moves)
    BY <1>1, Zenon DEF Contents
  <1>3. Resident(kv, KVLen(active_cl), sessions, segments)
    BY <1>2, HeldResident
  <1>4. ASSUME NEW s \in KVShards, NEW id \in DOMAIN lens
        PROVE  Holds(kv[s], KVLen(active_cl), kv_segs[id].start, Text(sessions[id]), sessions[id].processed)
    <2>1. PICK i \in DOMAIN segments : segments[i] = kv_segs[id] /\ segments[i].id = id
      BY SlotFacts
    <2>2. Holds(kv[s], KVLen(active_cl), segments[i].start, Text(sessions[segments[i].id]), sessions[segments[i].id].processed)
      BY <1>3 DEF Resident
    <2> QED BY <2>1, <2>2
  <1> QED BY <1>3, <1>4

LEMMA TextNotJunk == ASSUME NEW t \in Seq(Token) PROVE t # Junk
  BY CBAssumption DEF CBAssumption

\* What the mask shows an input row is its own context.
LEMMA SeesOwn ==
    ASSUME OrderInv, Cells, SegmentsInOrder, Contents, pc = "shard", ~overflow, moves = <<>>,
           NEW s \in KVShards, NEW id \in DOMAIN lens, NEW k \in 0 .. lens[id] - 1
    PROVE  SeesOwnContext(s, id, in_start[id] + k)
  <1> DEFINE kv_len == KVLen(active_cl)
             seg == kv_segs[id]
             row == in_start[id] + k
             t == Text(sessions[id])
             p == seg.length
             context == act[row]
             columns == MaskColumns(seg, kv_len, in_start[id], k)
             upto(c) == UpTo(columns, c)
  <1>1. Growing
    BY DEF Growing
  <1>2. /\ t \in Seq(Token) /\ Len(t) \in Nat /\ lens[id] \in Nat \ {0} /\ in_start[id] \in Nat
        /\ sessions[id].processed + lens[id] <= Len(t)
    BY BatchWithin
  <1>3. seg.start \in Nat /\ p \in Nat /\ p = sessions[id].processed /\ seg.start + p + lens[id] <= kv_len
    BY <1>1, SlotFacts
  <1>4. kv_len \in Nat
    BY VariantFacts DEF Cells
  <1>5. RowsOf(act, sessions, lens, in_start)
    BY <1>1, Zenon DEF Contents
  <1>6. Holds(kv[s], kv_len, seg.start, t, p)
    BY <1>1, <1>3, SlotHeld
  <1> HIDE DEF kv_len, t
  <1>7. ASSUME NEW j \in 0 .. lens[id] - 1 PROVE act[in_start[id] + j] = SubSeq(t, 1, p + j + 1)
    BY <1>3, <1>5 DEF RowsOf, t
  <1>8. context = SubSeq(t, 1, p + k + 1)
    BY <1>7
  <1>9. row - in_start[id] = k
    BY <1>2
  <1>10. k \in Nat /\ p + k + 1 \in 0 .. Len(t) /\ p + k + 1 \in Nat /\ p + k + 1 <= Len(t) /\ seg.start + p <= kv_len
    <2> HIDE DEF p, seg
    <2>1. lens[id] \in Nat /\ k \in 0 .. lens[id] - 1 /\ p + lens[id] <= Len(t)
      BY <1>2, <1>3
    <2>2. k \in Nat /\ k + 1 <= lens[id]
      BY <2>1
    <2>3. p + k + 1 \in Nat /\ p + k + 1 <= Len(t)
      <3> DEFINE l == lens[id]
                 n == Len(t)
      <3>1. l \in Nat /\ n \in Nat /\ p + l <= n /\ k + 1 <= l /\ k \in Nat /\ p \in Nat
        BY <1>2, <1>3, <2>1, <2>2
      <3> HIDE DEF l, n
      <3>2. p + k + 1 \in Nat /\ p + k + 1 <= n
        BY <3>1
      <3> QED BY <3>2 DEF n
    <2>4. kv_segs[id].start + p <= kv_len
      <3> DEFINE a == kv_segs[id].start
      <3>1. a \in Nat /\ a + p + lens[id] <= kv_len
        BY <1>3 DEF seg
      <3> HIDE DEF a
      <3>2. a + p <= kv_len
        BY SMTT(40), <1>3, <1>4, <2>1, <3>1
      <3> QED BY <3>2 DEF a
    <2> QED BY <1>2, <2>2, <2>3, <2>4 DEF seg
  <1>11. context \in Seq(Token) /\ Len(context) = p + k + 1
    <2> DEFINE n == p + k + 1
    <2>1. n \in Nat /\ n <= Len(t) /\ 1 \in Nat \ {0} /\ 1 <= n
      BY <1>3, <1>10
    <2> HIDE DEF n
    <2>2. SubSeq(t, 1, n) \in Seq(Token) /\ Len(SubSeq(t, 1, n)) = IF 1 <= n THEN n - 1 + 1 ELSE 0
      BY <1>2, <2>1, Slice
    <2>3. Len(SubSeq(t, 1, n)) = n
      BY <2>1, <2>2
    <2> QED BY <1>8, <2>2, <2>3 DEF n
  <1>12. /\ Cardinality(columns) = p + k + 1
         /\ \A c \in columns : \/ c < kv_len /\ \E j \in 0 .. p - 1 : c = seg.start + j /\ upto(c) = j + 1
                               \/ ~(c < kv_len) /\ \E j \in 0 .. k : c - kv_len = in_start[id] + j /\ upto(c) = p + j + 1
    <2> HIDE DEF seg
    <2>1. seg.start \in Nat /\ seg.length \in Nat /\ seg.start + seg.length <= kv_len
      BY <1>3, <1>10
    <2>2. Counted(columns, seg, kv_len, in_start[id], k)
      BY <1>2, <1>4, <1>10, <2>1, ColumnFacts
    <2> QED BY <2>2 DEF Counted
  <1> HIDE DEF columns, upto
  <1>13. context # Junk
    BY <1>11, TextNotJunk
  <1>14. PositionId(seg, k) = Len(context) - 1
    <2> HIDE DEF context
    <2>1. PositionId(seg, k) = p + k
      BY DEF PositionId
    <2> HIDE DEF p, seg
    <2> QED BY <1>3, <1>10, <1>11, <2>1
  <1>15. ASSUME NEW c \in columns, c < kv_len, NEW r \in Row
         PROVE  kv[s][r * kv_len + c] = Entry(r, SubSeq(context, 1, upto(c)))
    <2>1. PICK j \in 0 .. p - 1 : c = seg.start + j /\ upto(c) = j + 1
      BY <1>12, <1>15
    <2>2. kv[s][r * kv_len + c] = <<r, SubSeq(t, 1, j + 1)>>
      BY <1>6, <2>1 DEF Holds
    <2> DEFINE m == p + k + 1
               n == j + 1
    <2>3. m \in 0 .. Len(t) /\ n \in 0 .. m
      <3> HIDE DEF p
      <3> QED BY SMTT(40), <1>3, <1>10
    <2>4. context = SubSeq(t, 1, m) /\ upto(c) = n
      BY <1>8, <2>1
    <2> HIDE DEF m, n, context
    <2>5. SubSeq(context, 1, n) = SubSeq(t, 1, n)
      BY <1>2, <2>3, <2>4, CutAgain
    <2>6. SubSeq(t, 1, n) \in Seq(Token)
      <3>1. n \in Nat /\ n <= Len(t) /\ 1 \in Nat \ {0}
        BY <1>2, <2>3
      <3> QED BY <1>2, <3>1, Slice
    <2>7. Entry(r, SubSeq(context, 1, n)) = <<r, SubSeq(t, 1, n)>>
      BY <2>5, <2>6, TextNotJunk DEF Entry
    <2> QED BY <2>2, <2>4, <2>7 DEF n
  <1>16. ASSUME NEW c \in columns, ~(c < kv_len)
         PROVE  act[c - kv_len] = SubSeq(context, 1, upto(c))
    <2>1. PICK j \in 0 .. k : c - kv_len = in_start[id] + j /\ upto(c) = p + j + 1
      BY <1>12, <1>16
    <2>2. j \in 0 .. lens[id] - 1
      BY <1>2, <1>10
    <2> DEFINE m == p + k + 1
               n == p + j + 1
    <2>3. m \in 0 .. Len(t) /\ n \in 0 .. m
      <3> HIDE DEF p
      <3> QED BY SMTT(40), <1>3, <1>10
    <2>4. context = SubSeq(t, 1, m) /\ upto(c) = n /\ act[c - kv_len] = SubSeq(t, 1, n)
      BY <1>7, <1>8, <2>1, <2>2
    <2> HIDE DEF m, n, context
    <2>5. SubSeq(context, 1, n) = SubSeq(t, 1, n)
      BY <1>2, <2>3, <2>4, CutAgain
    <2> QED BY <2>4, <2>5
  <1>17. \A c \in columns : IF c < kv_len THEN \A r \in Row : kv[s][r * kv_len + c] = Entry(r, SubSeq(context, 1, upto(c)))
                            ELSE act[c - kv_len] = SubSeq(context, 1, upto(c))
    BY <1>15, <1>16
  <1>18. Cardinality(columns) = Len(context)
    BY <1>11, <1>12
  <1> HIDE DEF context
  <1>19. MaskColumns(kv_segs[id], KVLen(active_cl), in_start[id], row - in_start[id]) = columns
    BY <1>9 DEF columns, kv_len
  <1>20. PositionId(kv_segs[id], row - in_start[id]) = Len(context) - 1
    BY <1>9, <1>14
  <1> HIDE DEF row, p, seg
  <1>21. SeesOwnContext(s, id, row)
    BY <1>13, <1>17, <1>18, <1>19, <1>20, Zenon DEF SeesOwnContext, upto, UpTo, kv_len, context
  <1> QED BY <1>21 DEF row

\* The hidden states of the batch's rows pass through a shard.
LEMMA ShardKeepsRows ==
    ASSUME OrderInv, Cells, SegmentsInOrder, Contents, pc = "shard", ~overflow, moves = <<>>,
           NEW id \in DOMAIN lens, NEW k \in 0 .. lens[id] - 1
    PROVE  ShardOut(shard)[in_start[id] + k] = SubSeq(Text(sessions[id]), 1, sessions[id].processed + k + 1)
  <1> DEFINE row == in_start[id] + k
  <1>1. RowsOf(act, sessions, lens, in_start)
    BY Zenon DEF Contents, Growing
  <1>2. act[row] = SubSeq(Text(sessions[id]), 1, sessions[id].processed + k + 1)
    BY <1>1 DEF RowsOf
  <1>3. row \in InputRow /\ Owner(row) = {id}
    BY RowOwner
  <1>4. shard \in KVShards => SeesOwnContext(shard, id, row)
    BY SeesOwn
  <1> HIDE DEF row
  <1>5. ~(shard \in KVShards /\ \E j \in Owner(row) : overflow \/ ~SeesOwnContext(shard, j, row))
    BY <1>3, <1>4, Zenon
  <1>6. ShardOut(shard)[row] = act[row]
    BY <1>3, <1>5, Zenon DEF ShardOut
  <1> QED BY <1>2, <1>6 DEF row

Writers(t) == {id \in DOMAIN lens : NewSlot(id) <= t /\ t < NewSlot(id) + lens[id]}

\* No two sessions of a batch write the same place.
LEMMA OneWriter ==
    ASSUME OrderInv, Cells, SegmentsInOrder, Growing, ~overflow, NEW t \in Nat, NEW id \in Writers(t)
    PROVE  /\ Writers(t) = {id} /\ Max(Writers(t)) = id
           /\ id \in DOMAIN lens /\ NewSlot(id) \in Nat /\ t - NewSlot(id) \in 0 .. lens[id] - 1
  <1>1. \A j \in DOMAIN lens : /\ kv_segs[j].start \in Nat /\ kv_segs[j].length \in Nat /\ lens[j] \in Nat \ {0}
                               /\ NewSlot(j) = kv_segs[j].start + kv_segs[j].length
    BY SlotFacts, LensNat DEF NewSlot, SegEnd
  <1>2. id \in DOMAIN lens /\ NewSlot(id) <= t /\ t < NewSlot(id) + lens[id]
    BY DEF Writers
  <1>3. ASSUME NEW j \in Writers(t), j # id PROVE FALSE
    <2> DEFINE a == kv_segs[id].start
               p == kv_segs[id].length
               l == lens[id]
               b == kv_segs[j].start
               q == kv_segs[j].length
               m == lens[j]
    <2>1. j \in DOMAIN lens /\ NewSlot(j) <= t /\ t < NewSlot(j) + lens[j]
      BY DEF Writers
    <2>2. b + q + m <= a \/ a + p + l <= b
      BY <1>2, <1>3, <2>1, SlotsApart
    <2>3. /\ a \in Nat /\ p \in Nat /\ l \in Nat /\ b \in Nat /\ q \in Nat /\ m \in Nat
          /\ a + p <= t /\ t < a + p + l /\ b + q <= t /\ t < b + q + m
      BY <1>1, <1>2, <2>1
    <2> HIDE DEF a, p, l, b, q, m
    <2> QED BY <2>2, <2>3
  <1>4. Writers(t) = {id}
    BY <1>3
  <1>5. id \in Nat
    <2>1. DOMAIN lens \subseteq DOMAIN Queries /\ Queries \in Seq(Seq(Token) \ {<<>>})
      BY LensNat, CBAssumption DEF SessionId, CBAssumption
    <2> QED BY <1>2, <2>1
  <1>6. Max({id}) = id
    <2>1. id >= id
      BY <1>5
    <2> QED BY <2>1 DEF Max
  <1>7. NewSlot(id) \in Nat /\ lens[id] \in Nat
    BY <1>1, <1>2
  <1>8. t - NewSlot(id) \in 0 .. lens[id] - 1
    <2> DEFINE b == NewSlot(id)
               l == lens[id]
    <2>1. b \in Nat /\ l \in Nat /\ b <= t /\ t < b + l
      BY <1>2, <1>7
    <2> HIDE DEF b, l
    <2>2. t - b \in 0 .. l - 1
      BY <2>1
    <2> QED BY <2>2 DEF b, l
  <1> QED BY <1>2, <1>4, <1>6, <1>7, <1>8

\* copyNewKV puts the new entries of each session behind its old ones and touches
\* nothing else.
LEMMA CopiedNew ==
    ASSUME OrderInv, Cells, SegmentsInOrder, pc = "shard", ~overflow, NEW buf \in [Addr -> Cell],
           NEW out, RowsOf(out, sessions, lens, in_start)
    PROVE  /\ CopyNewKV(buf, out) \in [Addr -> Cell]
           /\ \A id \in DOMAIN lens : \A k \in 0 .. lens[id] - 1, r \in Row :
                 CopyNewKV(buf, out)[r * KVLen(active_cl) + (NewSlot(id) + k)] =
                   <<r, SubSeq(Text(sessions[id]), 1, sessions[id].processed + k + 1)>>
           /\ \A r \in Row, p \in 0 .. KVLen(active_cl) - 1 :
                 Writers(p) = {} => CopyNewKV(buf, out)[r * KVLen(active_cl) + p] = buf[r * KVLen(active_cl) + p]
  <1> DEFINE kv_len == KVLen(active_cl)
             new == CopyNewKV(buf, out)
             from(id, t) == out[in_start[id] + t - NewSlot(id)]
             cell(a) == IF Writers(a % kv_len) = {} \/ a \div kv_len >= Rows THEN buf[a]
                        ELSE Entry(a \div kv_len, from(Max(Writers(a % kv_len)), a % kv_len))
  <1>1. new = [a \in Addr |-> cell(a)]
    BY DEF CopyNewKV, Writers
  <1>2. Growing
    BY DEF Growing
  <1>3. kv_len \in Nat \ {0} /\ active_cl \in 1 .. NumCL
    BY VariantFacts DEF Cells
  <1>4. Rows \in Nat \ {0} /\ Row = 0 .. Rows - 1
    BY CBAssumption DEF CBAssumption, Row
  <1> HIDE DEF kv_len, new
  <1>5. ASSUME NEW id \in DOMAIN lens, NEW k \in 0 .. lens[id] - 1
        PROVE  /\ out[in_start[id] + k] = SubSeq(Text(sessions[id]), 1, sessions[id].processed + k + 1)
               /\ SubSeq(Text(sessions[id]), 1, sessions[id].processed + k + 1) \in Seq(Token)
    <2> DEFINE t == Text(sessions[id])
               p == sessions[id].processed
               l == lens[id]
               n == p + k + 1
    <2>1. out[in_start[id] + k] = SubSeq(t, 1, n)
      BY DEF RowsOf
    <2>2. t \in Seq(Token) /\ Len(t) \in Nat /\ p \in Nat /\ l \in Nat /\ p + l <= Len(t) /\ k \in 0 .. l - 1
      BY BatchWithin
    <2> HIDE DEF t, p, l
    <2>3. n \in Nat /\ n <= Len(t) /\ 1 \in Nat \ {0}
      BY <2>2
    <2> HIDE DEF n
    <2>4. SubSeq(t, 1, n) \in Seq(Token)
      BY <2>2, <2>3, Slice
    <2> QED BY <2>1, <2>4 DEF t, p, n
  <1>6. ASSUME NEW t \in Nat, NEW id \in Writers(t)
        PROVE  /\ Max(Writers(t)) = id /\ Writers(t) # {}
               /\ from(id, t) = SubSeq(Text(sessions[id]), 1, sessions[id].processed + (t - NewSlot(id)) + 1)
               /\ from(id, t) \in Seq(Token)
    <2> DEFINE k == t - NewSlot(id)
    <2>1. Max(Writers(t)) = id /\ Writers(t) # {} /\ id \in DOMAIN lens /\ NewSlot(id) \in Nat /\ k \in 0 .. lens[id] - 1
      BY <1>2, OneWriter
    <2>2. in_start[id] \in Nat
      BY <2>1, BatchWithin
    <2>3. in_start[id] + t - NewSlot(id) = in_start[id] + k
      <3> DEFINE b == NewSlot(id)
                 i == in_start[id]
      <3>1. b \in Nat /\ i \in Nat
        BY <2>1, <2>2
      <3> HIDE DEF b, i
      <3>2. i + t - b = i + (t - b)
        BY <3>1
      <3> QED BY <3>2 DEF b, i
    <2> HIDE DEF k
    <2>4. /\ out[in_start[id] + k] = SubSeq(Text(sessions[id]), 1, sessions[id].processed + k + 1)
          /\ SubSeq(Text(sessions[id]), 1, sessions[id].processed + k + 1) \in Seq(Token)
      BY <1>5, <2>1
    <2> QED BY <2>1, <2>3, <2>4 DEF k
  <1> HIDE DEF from
  <1>7. ASSUME NEW a \in Addr PROVE cell(a) \in Cell
    <2>1. a \in Nat
      BY DEF Addr
    <2>2. a % kv_len \in Nat /\ a \div kv_len \in Nat
      <3>1. a \div kv_len \in Nat /\ a % kv_len \in 0 .. kv_len - 1
        BY <1>3, <2>1, QuotientRemainder
      <3> QED BY <1>3, <3>1
    <2> DEFINE t == a % kv_len
               r == a \div kv_len
    <2>3. CASE Writers(t) = {} \/ r >= Rows
      BY <2>3
    <2>4. CASE ~(Writers(t) = {} \/ r >= Rows)
      <3>1. PICK id \in Writers(t) : TRUE
        BY <2>4
      <3>2. t \in Nat /\ r \in Row
        BY <1>4, <2>2, <2>4
      <3>3. cell(a) = Entry(r, from(Max(Writers(t)), t))
        BY <2>4
      <3> HIDE DEF t, r
      <3>4. Max(Writers(t)) = id /\ from(id, t) \in Seq(Token)
        BY <1>6, <3>1, <3>2
      <3>5. Entry(r, from(Max(Writers(t)), t)) \in Row \X Seq(Token)
        BY <3>2, <3>4, TextNotJunk DEF Entry
      <3> HIDE DEF cell
      <3> QED BY <3>3, <3>5 DEF Cell
    <2> QED BY <2>3, <2>4
  <1>8. new \in [Addr -> Cell]
    <2> HIDE DEF cell
    <2> QED BY <1>1, <1>7
  <1>9. ASSUME NEW id \in DOMAIN lens, NEW k \in 0 .. lens[id] - 1, NEW r \in Row
        PROVE  new[r * kv_len + (NewSlot(id) + k)] = <<r, SubSeq(Text(sessions[id]), 1, sessions[id].processed + k + 1)>>
    <2> DEFINE t == NewSlot(id) + k
               a == r * kv_len + t
    <2>1. t \in 0 .. kv_len - 1 /\ t \in Nat /\ t - NewSlot(id) = k /\ id \in Writers(t)
      <3> DEFINE s == kv_segs[id].start
                 p == kv_segs[id].length
                 l == lens[id]
      <3>1. s \in Nat /\ p \in Nat /\ s + p + l <= kv_len /\ NewSlot(id) = s + p
        BY <1>2, SlotFacts DEF NewSlot, SegEnd, kv_len
      <3>2. l \in Nat /\ k \in 0 .. l - 1
        BY LensNat
      <3> HIDE DEF s, p, l
      <3>3. t \in 0 .. kv_len - 1 /\ t \in Nat /\ t - NewSlot(id) = k
        BY <1>3, <3>1, <3>2
      <3>4. NewSlot(id) <= t /\ t < NewSlot(id) + l
        BY <3>1, <3>2
      <3> QED BY <3>3, <3>4 DEF Writers, l
    <2> HIDE DEF t
    <2>2. a \in Addr /\ a \div kv_len = r /\ a % kv_len = t
      BY <1>3, <2>1, PlaceInTensor DEF kv_len
    <2>3. ~(r >= Rows)
      BY <1>4
    <2>4. /\ Max(Writers(t)) = id /\ Writers(t) # {}
          /\ from(id, t) = SubSeq(Text(sessions[id]), 1, sessions[id].processed + (t - NewSlot(id)) + 1)
          /\ from(id, t) \in Seq(Token)
      BY <1>6, <2>1
    <2>5. new[a] = cell(a)
      BY <1>1, <2>2
    <2> HIDE DEF a
    <2>6. cell(a) = Entry(r, from(id, t))
      BY <2>2, <2>3, <2>4
    <2>7. Entry(r, from(id, t)) = <<r, from(id, t)>>
      BY <2>4, TextNotJunk DEF Entry
    <2>8. new[a] = <<r, SubSeq(Text(sessions[id]), 1, sessions[id].processed + k + 1)>>
      <3> HIDE DEF cell
      <3> QED BY <2>1, <2>4, <2>5, <2>6, <2>7
    <2> QED BY <2>8 DEF a, t
  <1>10. ASSUME NEW r \in Row, NEW p \in 0 .. kv_len - 1, Writers(p) = {}
         PROVE  new[r * kv_len + p] = buf[r * kv_len + p]
    <2> DEFINE a == r * kv_len + p
    <2>1. a \in Addr /\ a \div kv_len = r /\ a % kv_len = p
      BY <1>3, PlaceInTensor DEF kv_len
    <2>2. new[a] = cell(a)
      BY <1>1, <2>1
    <2> HIDE DEF a
    <2>3. cell(a) = buf[a]
      BY <1>10, <2>1
    <2> QED BY <2>2, <2>3 DEF a
  <1> QED BY <1>8, <1>9, <1>10 DEF new, kv_len

\* What a segment holds is not written over.
LEMMA SegmentUnwritten ==
    ASSUME OrderInv, Cells, SegmentsInOrder, Growing, ~overflow,
           NEW i \in DOMAIN segments, NEW k \in 0 .. segments[i].length - 1
    PROVE  Writers(segments[i].start + k) = {} /\ segments[i].start + k \in 0 .. KVLen(active_cl) - 1
  <1> DEFINE b == segments[i].start
             q == segments[i].length
             g == At(lens, segments[i].id)
             n == KVLen(active_cl)
  <1>1. pc # "thrown"
    BY DEF Growing
  <1>2. /\ segments \in Seq(SegmentType) /\ Seated(sessions, segments) /\ Laid(segments, Width)
        /\ Width \in [1 .. Len(segments) -> Nat] /\ n \in Nat
        /\ \A j \in DOMAIN segments : segments[j].length <= Width[j] /\ segments[j].length \in Nat
    BY <1>1, WidthFacts
  <1>3. SumUpTo(Width, Len(segments)) <= n
    BY <1>1, WidthFacts, Zenon
  <1>4. b \in Nat /\ q \in Nat /\ g \in Nat /\ k \in 0 .. q - 1
    <2>1. b \in Nat /\ SumUpTo(Width, Len(segments)) \in Nat
      BY <1>2, LaidFacts
    <2>2. g \in Nat
      BY LensNat DEF At
    <2> QED BY <1>2, <2>1, <2>2
  <1>5. b + q <= n
    <2> DEFINE w == Width[i]
               m == SumUpTo(Width, Len(segments))
    <2>1. b + w <= m /\ w \in Nat /\ m \in Nat
      BY <1>2, LaidFacts
    <2>2. q <= w /\ m <= n
      BY <1>2, <1>3
    <2> HIDE DEF b, q, n, w, m
    <2> QED BY <1>2, <1>4, <2>1, <2>2
  <1>6. ASSUME NEW id \in Writers(b + k) PROVE FALSE
    <2> DEFINE a == kv_segs[id].start
               p == kv_segs[id].length
               l == lens[id]
    <2>1. id \in DOMAIN lens /\ NewSlot(id) <= b + k /\ b + k < NewSlot(id) + l
      BY DEF Writers
    <2>2. a \in Nat /\ p \in Nat /\ NewSlot(id) = a + p /\ l \in Nat
      BY <2>1, SlotFacts, LensNat DEF NewSlot, SegEnd
    <2>3. PICK j \in DOMAIN segments : segments[j] = kv_segs[id] /\ segments[j].id = id
      BY <2>1, SlotFacts
    <2>4. CASE segments[i].id = id
      <3>1. i = j
        BY <1>2, <2>3, <2>4 DEF Seated
      <3>2. b = a /\ q = p
        BY <2>3, <3>1
      <3> HIDE DEF a, p, l, b, q
      <3> QED BY <1>4, <2>1, <2>2, <3>2
    <2>5. CASE segments[i].id # id
      <3>1. b + q + g <= a \/ a + p + l <= b
        BY <2>1, <2>5, SlotFacts
      <3> HIDE DEF a, p, l, b, q, g
      <3> QED BY <1>4, <2>1, <2>2, <3>1
    <2> QED BY <2>4, <2>5
  <1>7. b + k \in 0 .. n - 1
    <2> HIDE DEF b, q, n
    <2> QED BY <1>2, <1>4, <1>5
  <1> QED BY <1>6, <1>7

\* The step of one shard.
LEMMA RunShardFacts ==
    ASSUME OrderInv, Cells, Flag, SegmentsInOrder, Contents, RunShard
    PROVE  /\ pc = "shard" /\ moves = <<>> /\ moves' = <<>> /\ Growing /\ Growing'
           /\ act' = ShardOut(shard) /\ shard \in 1 .. NumShards
           /\ sessions' = sessions /\ segments' = segments /\ active_cl' = active_cl /\ lens' = lens
           /\ in_start' = in_start /\ kv_segs' = kv_segs
           /\ Ran = 1 .. shard - 1 /\ Ran' = 1 .. shard
           /\ ~overflow => RowsOf(act', sessions, lens, in_start)
           /\ ~(shard \in KVShards /\ ~overflow) => kv' = kv
           /\ (shard \in KVShards /\ ~overflow) => kv' = [kv EXCEPT ![shard] = CopyNewKV(kv[shard], act')]
  <1>1. /\ pc = "shard" /\ moves = <<>> /\ moves' = <<>> /\ act' = ShardOut(shard)
        /\ sessions' = sessions /\ segments' = segments /\ active_cl' = active_cl /\ lens' = lens
        /\ in_start' = in_start /\ kv_segs' = kv_segs
        /\ IF shard < NumShards THEN shard' = shard + 1 /\ pc' = pc ELSE shard' = 1 /\ pc' = "update"
    BY DEF RunShard
  <1>2. kv' = IF shard \in KVShards /\ ~overflow THEN [kv EXCEPT ![shard] = CopyNewKV(kv[shard], ShardOut(shard))] ELSE kv
    BY DEF RunShard
  <1>3. ~(shard \in KVShards /\ ~overflow) => kv' = kv
    BY <1>2, Zenon
  <1>4. (shard \in KVShards /\ ~overflow) => kv' = [kv EXCEPT ![shard] = CopyNewKV(kv[shard], act')]
    BY <1>1, <1>2, Zenon
  <1>5. shard \in 1 .. NumShards /\ NumShards \in Nat \ {0}
    BY ShardPositive DEF OrderInv, Loops
  <1>6. Growing /\ Growing'
    BY <1>1 DEF Growing
  <1>7. Ran = 1 .. shard - 1
    BY <1>1 DEF Ran
  <1>8. Ran' = 1 .. shard
    <2>1. CASE shard < NumShards
      <3>1. pc' # "update" /\ shard' - 1 = shard
        BY <1>1, <1>5, <2>1
      <3> QED BY <3>1 DEF Ran
    <2>2. CASE ~(shard < NumShards)
      <3>1. pc' = "update" /\ shard = NumShards
        BY <1>1, <1>5, <2>2
      <3> QED BY <3>1 DEF Ran
    <2> QED BY <2>1, <2>2
  <1>9. ASSUME ~overflow PROVE RowsOf(act', sessions, lens, in_start)
    <2>1. \A id \in DOMAIN lens : \A k \in 0 .. lens[id] - 1 :
             ShardOut(shard)[in_start[id] + k] = SubSeq(Text(sessions[id]), 1, sessions[id].processed + k + 1)
      BY <1>1, <1>9, ShardKeepsRows
    <2> QED BY <1>1, <2>1 DEF RowsOf
  <1>10. ~overflow => RowsOf(act', sessions, lens, in_start)
    BY <1>9, Zenon
  <1> QED BY <1>1, <1>3, <1>4, <1>5, <1>6, <1>7, <1>8, <1>10, Zenon

LEMMA RunShardCells ==
    ASSUME OrderInv, Cells, Flag, SegmentsInOrder, Contents, RunShard
    PROVE  Cells'
  <1>1. active_cl \in 1 .. NumCL /\ kv \in [KVShards -> [Addr -> Cell]]
    BY DEF Cells
  <1>2. pc = "shard" /\ active_cl' = active_cl
    BY RunShardFacts, Zenon
  <1>3. CASE shard \in KVShards /\ ~overflow
    <2>1. kv' = [kv EXCEPT ![shard] = CopyNewKV(kv[shard], act')] /\ RowsOf(act', sessions, lens, in_start)
      BY <1>3, RunShardFacts, Zenon
    <2>2. shard \in KVShards /\ ~overflow
      BY <1>3, Zenon
    <2>3. kv[shard] \in [Addr -> Cell]
      BY <1>1, <2>2
    <2> DEFINE to == CopyNewKV(kv[shard], act')
    <2>4. to \in [Addr -> Cell]
      BY <1>2, <2>1, <2>2, <2>3, CopiedNew, Zenon
    <2> HIDE DEF to
    <2>5. kv' = [kv EXCEPT ![shard] = to]
      BY <2>1 DEF to
    <2>6. kv' \in [KVShards -> [Addr -> Cell]]
      BY <1>1, <2>4, <2>5
    <2> QED BY <1>1, <1>2, <2>6 DEF Cells
  <1>4. CASE ~(shard \in KVShards /\ ~overflow)
    <2>1. kv' = kv
      BY <1>4, RunShardFacts, Zenon
    <2> QED BY <1>1, <1>2, <2>1 DEF Cells
  <1> QED BY <1>3, <1>4, Zenon

LEMMA ZeroInRow == 0 \in Row
  BY CBAssumption DEF CBAssumption, Row

\* What a shard's step makes of the cache.
LEMMA RunShardPlaces ==
    ASSUME OrderInv, Cells, Flag, SegmentsInOrder, Contents, RunShard, ~overflow, NEW s \in KVShards, NEW r \in Row
    PROVE  /\ s # shard => kv'[s] = kv[s]
           /\ \A p \in 0 .. KVLen(active_cl) - 1 :
                 Writers(p) = {} => kv'[s][r * KVLen(active_cl) + p] = kv[s][r * KVLen(active_cl) + p]
           /\ s = shard =>
                \A id \in DOMAIN lens : \A k \in 0 .. lens[id] - 1 :
                   kv'[s][r * KVLen(active_cl) + (NewSlot(id) + k)] =
                     <<r, SubSeq(Text(sessions[id]), 1, sessions[id].processed + k + 1)>>
  <1>1. kv \in [KVShards -> [Addr -> Cell]]
    BY DEF Cells
  <1>2. pc = "shard"
    BY RunShardFacts
  <1>3. CASE shard \in KVShards
    <2>1. kv' = [kv EXCEPT ![shard] = CopyNewKV(kv[shard], act')] /\ RowsOf(act', sessions, lens, in_start)
      BY <1>3, RunShardFacts, Zenon
    <2>2. kv[shard] \in [Addr -> Cell]
      BY <1>1, <1>3
    <2> DEFINE buf == kv[shard]
               out == act'
               to == CopyNewKV(buf, out)
               n == KVLen(active_cl)
    <2>3. buf \in [Addr -> Cell] /\ RowsOf(out, sessions, lens, in_start)
      BY <2>1, <2>2
    <2> HIDE DEF buf, out
    <2>4. /\ \A id \in DOMAIN lens : \A k \in 0 .. lens[id] - 1, x \in Row :
                to[x * n + (NewSlot(id) + k)] = <<x, SubSeq(Text(sessions[id]), 1, sessions[id].processed + k + 1)>>
          /\ \A x \in Row, p \in 0 .. n - 1 : Writers(p) = {} => to[x * n + p] = buf[x * n + p]
      BY <1>2, <2>3, CopiedNew
    <2> HIDE DEF to, n
    <2>5. kv' = [kv EXCEPT ![shard] = to] /\ buf = kv[shard]
      BY <2>1 DEF to, buf, out
    <2>6. kv'[s] = IF s = shard THEN to ELSE kv[s]
      BY <1>1, <1>3, <2>5
    <2>7. CASE s = shard
      BY <2>4, <2>5, <2>6, <2>7 DEF n
    <2>8. CASE s # shard
      BY <2>6, <2>8
    <2> QED BY <2>7, <2>8
  <1>4. CASE shard \notin KVShards
    <2>1. kv' = kv
      BY <1>4, RunShardFacts, Zenon
    <2> QED BY <1>4, <2>1
  <1> QED BY <1>3, <1>4

LEMMA RunShardContents ==
    ASSUME OrderInv, Cells, Flag, SegmentsInOrder, Contents, RunShard
    PROVE  Contents'
  <1> DEFINE n == KVLen(active_cl)
  <1>1. /\ pc = "shard" /\ moves = <<>> /\ moves' = <<>> /\ Growing /\ Growing' /\ shard \in 1 .. NumShards
        /\ sessions' = sessions /\ segments' = segments /\ active_cl' = active_cl /\ lens' = lens
        /\ in_start' = in_start /\ kv_segs' = kv_segs /\ Ran = 1 .. shard - 1 /\ Ran' = 1 .. shard
    BY RunShardFacts, Zenon
  <1>2. overflow' = overflow
    BY DEF RunShard
  <1>3. ASSUME ~overflow PROVE Held(kv', n, sessions, segments, <<>>)
    <2>1. Resident(kv, n, sessions, segments)
      BY <1>1, <1>3, SlotHeld
    <2>2. ASSUME NEW s \in KVShards, NEW i \in DOMAIN segments
          PROVE  Holds(kv'[s], n, segments[i].start, Text(sessions[segments[i].id]), sessions[segments[i].id].processed)
      <3> DEFINE at == segments[i].start
                 t == Text(sessions[segments[i].id])
                 m == sessions[segments[i].id].processed
      <3>1. Holds(kv[s], n, at, t, m)
        BY <2>1 DEF Resident
      <3>2. segments[i].length = m
        BY <1>1, WidthFacts DEF Growing
      <3>3. ASSUME NEW r \in Row, NEW k \in 0 .. m - 1 PROVE kv'[s][r * n + (at + k)] = <<r, SubSeq(t, 1, k + 1)>>
        <4> DEFINE p == at + k
        <4>1. Writers(p) = {} /\ p \in 0 .. n - 1
          BY <1>1, <1>3, <3>2, SegmentUnwritten
        <4>2. kv[s][r * n + p] = <<r, SubSeq(t, 1, k + 1)>>
          BY <3>1 DEF Holds
        <4> HIDE DEF p, t
        <4>3. kv'[s][r * n + p] = kv[s][r * n + p]
          BY <1>3, <4>1, RunShardPlaces
        <4> QED BY <4>2, <4>3 DEF p
      <3> QED BY <3>3 DEF Holds
    <2>3. Resident(kv', n, sessions, segments)
      BY <2>2 DEF Resident
    <2> QED BY <2>3, HeldResident
  <1>4. ASSUME ~overflow, NEW s \in KVShards \cap (1 .. shard), NEW id \in DOMAIN lens
        PROVE  Holds(kv'[s], n, kv_segs[id].start, Text(sessions[id]), sessions[id].processed + lens[id])
    <2> DEFINE at == kv_segs[id].start
               t == Text(sessions[id])
               m == sessions[id].processed
               l == lens[id]
               u == m + l
    <2>1. s \in KVShards /\ s \in 1 .. shard
      OBVIOUS
    <2>2. Holds(kv[s], n, at, t, m)
      BY <1>1, <1>4, <2>1, SlotHeld
    <2>3. PICK i \in DOMAIN segments : segments[i] = kv_segs[id] /\ segments[i].id = id
      BY <1>1, <1>4, SlotFacts
    <2>4. at \in Nat /\ m \in Nat /\ l \in Nat /\ NewSlot(id) = at + m /\ segments[i].length = m
      BY <1>1, <1>4, <2>3, SlotFacts, LensNat DEF NewSlot, SegEnd
    <2>5. CASE s < shard
      <3>1. kv'[s] = kv[s]
        <4>1. s # shard
          BY <1>1, <2>5
        <4> QED BY <1>1, <1>4, <4>1, ZeroInRow, RunShardPlaces
      <3>2. s \in KVShards \cap Ran
        BY <1>1, <2>1, <2>5
      <3>3. Extended(kv, n, sessions, kv_segs, lens, Ran)
        BY <1>1, <1>4, Zenon DEF Contents
      <3> QED BY <3>1, <3>2, <3>3 DEF Extended
    <2>6. CASE s = shard
      <3>1. ASSUME NEW r \in Row, NEW k \in 0 .. u - 1 PROVE kv'[s][r * n + (at + k)] = <<r, SubSeq(t, 1, k + 1)>>
        <4>1. CASE k < m
          <5> DEFINE p == at + k
          <5>1. k \in 0 .. m - 1
            <6> HIDE DEF m, l
            <6> QED BY <2>4, <4>1
          <5>2. Writers(p) = {} /\ p \in 0 .. n - 1
            BY <1>1, <1>4, <2>3, <2>4, <5>1, SegmentUnwritten
          <5>3. kv[s][r * n + p] = <<r, SubSeq(t, 1, k + 1)>>
            BY <2>2, <5>1 DEF Holds
          <5> HIDE DEF p, t
          <5>4. kv'[s][r * n + p] = kv[s][r * n + p]
            BY <1>4, <2>1, <5>2, RunShardPlaces
          <5> QED BY <5>3, <5>4 DEF p
        <4>2. CASE ~(k < m)
          <5> DEFINE j == k - m
          <5>1. j \in 0 .. l - 1 /\ NewSlot(id) + j = at + k /\ m + j + 1 = k + 1
            <6> HIDE DEF m, l, at
            <6> QED BY <2>4, <4>2
          <5> HIDE DEF j
          <5>2. kv'[s][r * n + (NewSlot(id) + j)] = <<r, SubSeq(t, 1, m + j + 1)>>
            BY <1>4, <2>1, <2>6, <5>1, RunShardPlaces
          <5> QED BY <5>1, <5>2
        <4> QED BY SMTT(40), <4>1, <4>2
      <3> HIDE DEF u
      <3>2. Holds(kv'[s], n, at, t, u)
        BY <3>1 DEF Holds
      <3> QED BY <3>2 DEF u
    <2>7. s < shard \/ s = shard
      BY <1>1, <2>1
    <2> QED BY <2>5, <2>6, <2>7
  <1>5. ASSUME ~overflow PROVE Extended(kv', n, sessions, kv_segs, lens, 1 .. shard)
    BY <1>4, <1>5 DEF Extended
  <1>6. ASSUME ~overflow PROVE RowsOf(act', sessions, lens, in_start)
    BY <1>6, RunShardFacts, Zenon
  <1>7. pc' # "sample"
    BY <1>1 DEF Growing
  <1> HIDE DEF n
  <1>8. ASSUME ~overflow'
        PROVE  /\ Held(kv', KVLen(active_cl'), sessions', segments', moves')
               /\ Extended(kv', KVLen(active_cl'), sessions', kv_segs', lens', Ran')
               /\ RowsOf(act', sessions', lens', in_start')
    <2>1. ~overflow
      BY <1>2, <1>8, Zenon
    <2> QED BY <1>1, <1>3, <1>5, <1>6, <2>1 DEF n
  <1> QED BY <1>7, <1>8, Zenon DEF Contents
-----------------------------------------------------------------------------
(* The step is over: its tokens count as processed.                        *)

LEMMA UpdateContents ==
    ASSUME OrderInv, Cells, SegmentsInOrder, MovesInOrder, Contents, Update
    PROVE  Contents' /\ Cells'
  <1> DEFINE n == KVLen(active_cl)
  <1>1. /\ pc = "update" /\ pc' = "sample" /\ segments' = Extend(segments, lens) /\ moves' = moves /\ next' = 1
        /\ active_cl' = active_cl /\ overflow' = overflow /\ kv' = kv /\ act' = act /\ lens' = lens
        /\ in_start' = in_start /\ batch' = batch
    BY DEF Update
  <1>2. Growing /\ ~Growing' /\ pc # "thrown" /\ moves = <<>>
    BY <1>1 DEF Growing, MovesInOrder
  <1>3. segments \in Seq(SegmentType) /\ Seated(sessions, segments)
    BY <1>2, WidthFacts
  <1>4. NatValued(lens)
    BY LensNat
  <1>5. /\ DOMAIN segments' = DOMAIN segments
        /\ \A i \in DOMAIN segments : segments'[i].id = segments[i].id /\ segments'[i].start = segments[i].start
    BY <1>1, <1>3, <1>4, ExtendFacts
  <1>6. /\ DOMAIN sessions' = DOMAIN sessions
        /\ \A i \in DOMAIN sessions : /\ sessions'[i].processed = sessions[i].processed + At(lens, i)
                                      /\ Text(sessions'[i]) = Text(sessions[i])
    BY UpdatedSessions
  <1>7. \A i \in DOMAIN sessions : sessions[i].processed \in Nat
    <2>1. Sessions(sessions)
      BY DEF OrderInv, SessionsInOrder
    <2> QED BY <2>1, SessionFacts
  <1>8. ASSUME ~overflow PROVE Held(kv', n, sessions', segments', <<>>)
    <2>1. Resident(kv, n, sessions, segments)
      BY <1>2, <1>8, SlotHeld
    <2>2. Extended(kv, n, sessions, kv_segs, lens, Ran)
      BY <1>2, <1>8, Zenon DEF Contents
    <2>3. ASSUME NEW s \in KVShards, NEW i \in DOMAIN segments
          PROVE  Holds(kv[s], n, segments'[i].start, Text(sessions'[segments'[i].id]), sessions'[segments'[i].id].processed)
      <3> DEFINE id == segments[i].id
      <3>1. id \in DOMAIN sessions
        BY <1>3 DEF Seated
      <3>2. /\ segments'[i].start = segments[i].start /\ segments'[i].id = id
            /\ Text(sessions'[id]) = Text(sessions[id])
            /\ sessions'[id].processed = sessions[id].processed + At(lens, id)
        BY <1>5, <1>6, <3>1
      <3>3. CASE id \in DOMAIN lens
        <4>1. PICK j \in DOMAIN segments : segments[j] = kv_segs[id] /\ segments[j].id = id
          BY <1>2, <1>8, <3>3, SlotFacts
        <4>2. i = j
          BY <1>3, <4>1 DEF Seated
        <4>3. s \in KVShards \cap Ran
          <5>1. Ran = 1 .. NumShards
            BY <1>1 DEF Ran
          <5> QED BY <5>1, CBAssumption DEF CBAssumption
        <4>4. Holds(kv[s], n, kv_segs[id].start, Text(sessions[id]), sessions[id].processed + lens[id])
          BY <2>2, <3>3, <4>3 DEF Extended
        <4>5. At(lens, id) = lens[id] /\ segments[i].start = kv_segs[id].start
          BY <3>3, <4>1, <4>2 DEF At
        <4> QED BY <3>2, <4>4, <4>5
      <3>4. CASE id \notin DOMAIN lens
        <4>1. Holds(kv[s], n, segments[i].start, Text(sessions[id]), sessions[id].processed)
          BY <2>1 DEF Resident
        <4>2. sessions[id].processed + At(lens, id) = sessions[id].processed
          BY <1>7, <3>1, <3>4 DEF At
        <4> QED BY <3>2, <4>1, <4>2
      <3> QED BY <3>3, <3>4
    <2>4. Resident(kv', n, sessions', segments')
      BY <1>1, <1>5, <2>3 DEF Resident
    <2> QED BY <2>4, HeldResident
  <1>9. ASSUME ~overflow, NEW k \in 1 .. Len(batch)
        PROVE  LET s == sessions'[batch[k]]
               IN  act[in_start[s.id] + lens[s.id] - 1] = SubSeq(Text(s), 1, s.processed)
    <2> DEFINE id == batch[k]
    <2>1. id \in DOMAIN lens
      <3>1. batch \in Seq(DOMAIN lens)
        BY DEF OrderInv, BatchInOrder, Batched
      <3> QED BY <3>1
    <2> HIDE DEF id
    <2>2. id \in DOMAIN sessions /\ lens[id] \in Nat \ {0} /\ in_start[id] \in Nat
      BY <1>1, <2>1, BatchWithin
    <2>3. sessions'[id].id = id
      <3>1. Sessions(sessions')
        BY UpdateOrder DEF OrderInv, SessionsInOrder
      <3> QED BY <1>6, <2>2, <3>1 DEF Sessions
    <2>4. RowsOf(act, sessions, lens, in_start)
      BY <1>2, <1>9, Zenon DEF Contents
    <2> DEFINE l == lens[id]
               at == in_start[id]
               p == sessions[id].processed
    <2>5. /\ l \in Nat \ {0} /\ at \in Nat /\ p \in Nat
          /\ \A j \in 0 .. l - 1 : act[at + j] = SubSeq(Text(sessions[id]), 1, p + j + 1)
      BY <1>7, <2>1, <2>2, <2>4 DEF RowsOf
    <2>6. sessions'[id].processed = p + l /\ Text(sessions'[id]) = Text(sessions[id])
      BY <1>6, <2>1, <2>2 DEF At
    <2> HIDE DEF l, at, p
    <2>7. act[at + l - 1] = SubSeq(Text(sessions[id]), 1, p + l)
      <3> DEFINE j == l - 1
      <3>1. j \in 0 .. l - 1 /\ at + j = at + l - 1 /\ p + j + 1 = p + l
        BY <2>5
      <3> HIDE DEF j
      <3> QED BY <2>5, <3>1
    <2> QED BY <2>3, <2>6, <2>7 DEF id, l, at
  <1>10. ASSUME ~overflow
         PROVE  \A k \in next' .. Len(batch') :
                  LET s == sessions'[batch'[k]]
                  IN  act'[in_start'[s.id] + lens'[s.id] - 1] = SubSeq(Text(s), 1, s.processed)
    BY <1>1, <1>9, <1>10
  <1>11. ASSUME ~overflow' PROVE Held(kv', KVLen(active_cl'), sessions', segments', moves')
    <2>1. ~overflow
      BY <1>1, <1>11, Zenon
    <2> QED BY <1>1, <1>2, <1>8, <2>1
  <1>12. Contents'
    BY <1>1, <1>2, <1>10, <1>11, Zenon DEF Contents
  <1> QED BY <1>1, <1>12 DEF Cells

LEMMA SampleContents ==
    ASSUME OrderInv, Cells, SegmentsInOrder, Contents, Sample
    PROVE  Contents' /\ Cells'
  <1> DEFINE n == KVLen(active_cl)
  <1>1. /\ pc = "sample" /\ pc' = pc /\ next <= Len(batch) /\ next' = next + 1
        /\ segments' = segments /\ moves' = moves /\ active_cl' = active_cl /\ overflow' = overflow /\ kv' = kv
        /\ act' = act /\ lens' = lens /\ in_start' = in_start /\ batch' = batch
    BY DEF Sample
  <1>2. pc # "thrown" /\ ~Growing /\ ~Growing'
    BY <1>1 DEF Growing
  <1>3. Sessions(sessions) /\ Seated(sessions, segments)
    BY <1>2, WidthFacts DEF OrderInv, SessionsInOrder
  <1>4. Carried(sessions, sessions')
    BY SampleCarries
  <1>5. ASSUME ~overflow PROVE Held(kv, n, sessions', segments, moves)
    <2>1. Held(kv, n, sessions, segments, moves)
      BY <1>2, <1>5, Zenon DEF Contents
    <2> HIDE DEF n
    <2> QED BY <1>3, <1>4, <2>1, CarriedHeld
  <1>6. /\ next \in Nat \ {0} /\ Len(batch) \in Nat
        /\ \A i \in DOMAIN sessions : i # batch[next] => sessions'[i] = sessions[i]
    BY <1>1, DueFacts, SampleDone
  <1>7. /\ \A k, l \in DOMAIN batch : batch[k] = batch[l] => k = l
        /\ batch \in Seq(DOMAIN lens) /\ DOMAIN lens \subseteq DOMAIN sessions
    BY SMTT(40) DEF OrderInv, BatchInOrder, Batched
  <1>8. ASSUME ~overflow, NEW k \in next + 1 .. Len(batch)
        PROVE  LET s == sessions'[batch[k]]
               IN  act[in_start[s.id] + lens[s.id] - 1] = SubSeq(Text(s), 1, s.processed)
    <2>1. k \in next .. Len(batch) /\ k # next /\ k \in DOMAIN batch /\ next \in DOMAIN batch
      BY <1>1, <1>6, <1>7
    <2>2. batch[k] # batch[next] /\ batch[k] \in DOMAIN sessions
      BY <1>7, <2>1
    <2>3. sessions'[batch[k]] = sessions[batch[k]]
      BY <1>6, <2>2
    <2>4. \A j \in next .. Len(batch) :
             LET s == sessions[batch[j]]
             IN  act[in_start[s.id] + lens[s.id] - 1] = SubSeq(Text(s), 1, s.processed)
      BY <1>1, <1>8, Zenon DEF Contents
    <2> QED BY <2>1, <2>3, <2>4
  <1>9. ASSUME ~overflow
        PROVE  \A k \in next' .. Len(batch') :
                  LET s == sessions'[batch'[k]]
                  IN  act'[in_start'[s.id] + lens'[s.id] - 1] = SubSeq(Text(s), 1, s.processed)
    BY <1>1, <1>8, <1>9
  <1>10. ASSUME ~overflow' PROVE Held(kv', KVLen(active_cl'), sessions', segments', moves')
    <2>1. ~overflow
      BY <1>1, <1>10, Zenon
    <2> QED BY <1>1, <1>5, <2>1
  <1>11. Contents'
    BY <1>1, <1>2, <1>9, <1>10, Zenon DEF Contents
  <1> QED BY <1>1, <1>11 DEF Cells

\* Between steps the cache keeps what it holds, whoever joins or is picked.
LEMMA KeptContents ==
    ASSUME OrderInv, Cells, SegmentsInOrder, Contents,
           \/ \E m \in MaxTokens : AddSession(m)
           \/ GenerateBatch \/ Return \/ Pick
    PROVE  Contents' /\ Cells'
  <1> DEFINE n == KVLen(active_cl)
  <1>1. /\ pc \in {"idle", "pick"} /\ pc' \in {"idle", "pick", "prepare"}
        /\ segments' = segments /\ moves' = moves /\ active_cl' = active_cl /\ overflow' = overflow /\ kv' = kv
    BY DEF AddSession, GenerateBatch, Return, Pick
  <1>2. pc # "thrown" /\ ~Growing' /\ pc' # "sample"
    BY <1>1 DEF Growing
  <1>3. Sessions(sessions) /\ Seated(sessions, segments)
    BY <1>2, WidthFacts DEF OrderInv, SessionsInOrder
  <1>4. Carried(sessions, sessions')
    <2>1. CASE \E m \in MaxTokens : AddSession(m)
      BY <2>1, AddSessionCarries
    <2>2. CASE GenerateBatch \/ Return
      <3>1. sessions' = sessions
        BY <2>2 DEF GenerateBatch, Return
      <3> QED BY <3>1, CarriedSame
    <2>3. CASE Pick
      BY <2>3, PickCarries
    <2> QED BY <2>1, <2>2, <2>3
  <1>5. ASSUME ~overflow PROVE Held(kv, n, sessions', segments, moves)
    <2>1. Held(kv, n, sessions, segments, moves)
      BY <1>2, <1>5, Zenon DEF Contents
    <2> HIDE DEF n
    <2> QED BY <1>3, <1>4, <2>1, CarriedHeld
  <1>6. ASSUME ~overflow' PROVE Held(kv', KVLen(active_cl'), sessions', segments', moves')
    <2>1. ~overflow
      BY <1>1, <1>6, Zenon
    <2> QED BY <1>1, <1>5, <2>1
  <1>7. Contents'
    BY <1>2, <1>6, Zenon DEF Contents
  <1> QED BY <1>1, <1>7 DEF Cells

\* Closing the holes: every entry is where its segment was until its move is made.
LEMMA ReleaseContents ==
    ASSUME OrderInv, Cells, Flag, SegmentsInOrder, MovesInOrder, Contents, ReleaseAndCompact
    PROVE  Contents' /\ Cells'
  <1> DEFINE to == WithStarts(Left, CompactedTo)
             mv == Moves(Left, CompactedTo, LeftToRight(Left))
             n == KVLen(active_cl)
  <1>1. /\ pc = "sample" /\ pc' = "pick" /\ sessions' = sessions /\ active_cl' = active_cl /\ kv' = kv
        /\ segments \in Seq(SegmentType) /\ Seated(sessions, segments) /\ Laid(segments, Lengths(segments))
        /\ segments' = to
    BY ReleaseFacts
  <1>2. overflow' = overflow /\ moves = <<>> /\ pc # "thrown" /\ ~Growing'
    BY <1>1 DEF ReleaseAndCompact, MovesInOrder, Growing
  <1>3. ~overflow => Used <= n /\ moves' = mv
    BY ReleaseFacts, Zenon
  <1>4. /\ CompactedTo \in [DOMAIN Left -> Nat] /\ Left \in Seq(SegmentType)
        /\ to \in Seq(SegmentType) /\ Laid(to, Lengths(to)) /\ Used \in Nat
        /\ Apart(Left, Starts(Left)) /\ Apart(Left, CompactedTo)
        /\ \A q \in DOMAIN Left : Left[q].start + Left[q].length <= Used /\ CompactedTo[q] <= Left[q].start
    BY <1>1, CompactedFacts
  <1>5. /\ Seated(sessions, Left)
        /\ \E ix : /\ ix \in [1 .. Len(Left) -> 1 .. Len(segments)]
                   /\ \A q \in 1 .. Len(Left) : Left[q] = segments[ix[q]]
    BY <1>1, LeftFacts
  <1>6. \A q \in DOMAIN Left : Left[q] \in SegmentType /\ Left[q].start \in Nat /\ Left[q].length \in Nat
    <2>1. \A q \in DOMAIN Left : Left[q] \in SegmentType
      BY <1>4
    <2> QED BY <2>1 DEF SegmentType
  <1>7. DOMAIN to = DOMAIN Left /\ \A q \in DOMAIN Left : to[q].start = CompactedTo[q]
    BY <1>6 DEF WithStarts, SegmentType
  <1> HIDE DEF to
  <1>8. \A i, j \in DOMAIN Left : CompactedTo[i] = CompactedTo[j] => i = j
    <2> DEFINE none == <<>>
    <2>1. NatValued(none)
      BY DEF NatValued
    <2> HIDE DEF none
    <2>2. Lengths(to) \in [1 .. Len(to) -> Nat]
      BY <1>4, <2>1, SegmentFacts
    <2>3. \A i, j \in DOMAIN to : to[i].start = to[j].start => i = j
      BY <1>4, <2>2, LaidDistinct
    <2> QED BY <1>7, <2>3
  <1>9. \A q \in DOMAIN Left : Left[q].length = sessions[Left[q].id].processed
    BY <1>5 DEF Seated
  <1>10. ASSUME ~overflow PROVE Held(kv, n, sessions, WithStarts(Left, CompactedTo), mv)
    <2>1. Used <= n /\ n \in Nat
      BY <1>3, <1>10, VariantFacts, Zenon DEF Cells
    <2>2. PICK jx : MovesOf(mv, Left, CompactedTo, jx) /\ mv \in Seq(MoveType)
      <3>1. ASSUME NEW q \in DOMAIN Left, Moving(Left, CompactedTo, q)
            PROVE  Left[q].start + Left[q].length <= n /\ CompactedTo[q] <= Left[q].start
        <4> DEFINE a == Left[q].start
                   l == Left[q].length
        <4>1. a \in Nat /\ l \in Nat /\ a + l <= Used /\ CompactedTo[q] <= a
          BY <1>4, <1>6
        <4> HIDE DEF a, l, n
        <4>2. a + l <= n
          BY <1>4, <2>1, <4>1
        <4> QED BY <4>1, <4>2 DEF a, l
      <3> HIDE DEF n
      <3>2. MovesLeft(mv, WithStarts(Left, CompactedTo), n) /\ \E jx : MovesOf(mv, Left, CompactedTo, jx)
        BY <1>4, <2>1, <3>1, MovesToLeft
      <3> QED BY <3>2 DEF MovesLeft
    <2>3. Resident(kv, n, sessions, segments)
      <3>1. Held(kv, n, sessions, segments, moves)
        BY <1>2, <1>10, Zenon DEF Contents
      <3> QED BY <1>2, <3>1, HeldResident
    <2>4. PICK ix : /\ ix \in [1 .. Len(Left) -> 1 .. Len(segments)]
                    /\ \A q \in 1 .. Len(Left) : Left[q] = segments[ix[q]]
      BY <1>5
    <2>5. \A s \in KVShards, q \in DOMAIN Left :
             Left[q].length > 0 => Holds(kv[s], n, Left[q].start, Text(sessions[Left[q].id]), sessions[Left[q].id].processed)
      <3>1. \A q \in DOMAIN Left : ix[q] \in DOMAIN segments /\ Left[q] = segments[ix[q]]
        BY <1>1, <1>4, <2>4
      <3> QED BY <2>3, <3>1 DEF Resident
    <2> HIDE DEF mv, n
    <2> QED BY <1>4, <1>8, <1>9, <2>2, <2>5, MovedHeld
  <1>11. ASSUME ~overflow' PROVE Held(kv', KVLen(active_cl'), sessions', segments', moves')
    <2>1. ~overflow
      BY <1>2, <1>11, Zenon
    <2>2. moves' = mv
      BY <1>3, <2>1, Zenon
    <2> QED BY <1>1, <1>10, <2>1, <2>2 DEF to
  <1>12. Contents'
    BY <1>1, <1>2, <1>11, Zenon DEF Contents
  <1> QED BY <1>1, <1>12 DEF Cells

\* A new cache, or the old one as it is: no session has anything in it.
LEMMA NewSchedulerContents ==
    ASSUME Cells, MovesInOrder, NEW reset \in BOOLEAN, NewScheduler(reset)
    PROVE  Contents' /\ Cells' /\ Flag'
  <1>1. pc' = "idle" /\ segments' = <<>> /\ active_cl' \in 1 .. NumCL /\ overflow' = FALSE
    BY NewSchedulerSegments DEF NewScheduler
  <1> DEFINE c == IF reset THEN Zero ELSE Junk
  <1>2. kv' = [s \in KVShards |-> [a \in Addr |-> c]]
    BY DEF NewScheduler
  <1>3. c \in Cell
    BY DEF Cell
  <1> HIDE DEF c
  <1>4. kv' \in [KVShards -> [Addr -> Cell]]
    BY <1>2, <1>3
  <1>5. Held(kv', KVLen(active_cl'), sessions', segments', moves')
    BY <1>1 DEF Held
  <1>6. ~Growing' /\ pc' # "sample"
    BY <1>1 DEF Growing
  <1>7. Contents'
    BY <1>5, <1>6, Zenon DEF Contents
  <1> QED BY <1>1, <1>4, <1>7 DEF Cells, Flag

LEMMA ThrowContents ==
    ASSUME Cells, ExecuteFails \/ CallbackThrows
    PROVE  Contents' /\ Cells'
  <1>1. pc' = "thrown" /\ active_cl' = active_cl /\ kv' = kv
    BY DEF ExecuteFails, CallbackThrows, Throw
  <1>2. pc' = "thrown" /\ ~Growing' /\ pc' # "sample"
    BY <1>1 DEF Growing
  <1>3. Contents'
    BY <1>2, Zenon DEF Contents
  <1> QED BY <1>1, <1>3 DEF Cells
-----------------------------------------------------------------------------
(* The invariant, from the first state on.                                 *)

LEMMA InitInv == Init => CBInv
  <1> SUFFICES ASSUME Init PROVE CBInv
    OBVIOUS
  <1>1. OrderInv
    BY InitOrder
  <1>2. /\ sessions = <<>> /\ segments = <<>> /\ active_cl = 1 /\ moves = <<>> /\ pc = "idle"
        /\ kv = [s \in KVShards |-> [a \in Addr |-> Zero]]
    BY DEF Init
  <1>3. Flag
    BY DEF Init, Flag
  <1>4. Cells
    <2>1. Zero \in Cell
      BY DEF Cell
    <2>2. kv \in [KVShards -> [Addr -> Cell]]
      BY <1>2, <2>1
    <2>3. active_cl \in 1 .. NumCL
      BY <1>2, VariantFacts
    <2> QED BY <2>2, <2>3 DEF Cells
  <1>5. ~Growing /\ pc # "sample" /\ pc # "thrown"
    BY <1>2 DEF Growing
  <1> DEFINE none == <<>>
  <1>6. none \in Seq(SegmentType) /\ none \in Seq(MoveType) /\ DOMAIN none = {} /\ Len(none) = 0
    OBVIOUS
  <1>7. SegmentsInOrder
    <2>1. Seated(sessions, segments)
      BY <1>2 DEF Seated, ActiveOf
    <2>2. Laid(segments, Width)
      BY <1>2 DEF Laid
    <2>3. SumUpTo(Width, Len(segments)) <= KVLen(active_cl)
      <3>1. Len(segments) = 0 /\ KVLen(active_cl) \in Nat
        BY <1>2, <1>4, VariantFacts DEF Cells
      <3>2. NatValued(Width)
        <4>1. Width = Lengths(segments)
          BY <1>5 DEF Width
        <4>2. DOMAIN Width = {}
          BY <1>2, <4>1 DEF Lengths
        <4> QED BY <4>2 DEF NatValued
      <3>3. SumUpTo(Width, 0) = 0
        BY <3>2, SumFacts
      <3> QED BY <3>1, <3>3
    <2>4. segments \in Seq(SegmentType) /\ \A i \in DOMAIN segments : segments[i].id \in ActiveOf(sessions)
      BY <1>2
    <2> QED BY <1>5, <2>1, <2>2, <2>3, <2>4, Zenon DEF SegmentsInOrder
  <1>8. MovesInOrder
    BY <1>2, <1>6 DEF MovesInOrder, MovesLeft
  <1>9. Contents
    <2>1. Held(kv, KVLen(active_cl), sessions, segments, moves)
      BY <1>2 DEF Held
    <2> QED BY <1>5, <2>1, Zenon DEF Contents
  <1> QED BY <1>1, <1>3, <1>4, <1>7, <1>8, <1>9, Zenon DEF CBInv

\* No step that neither seats segments nor starts afresh changes the overflow flag.
LEMMA FlagKept ==
    ASSUME Flag,
           \/ \E m \in MaxTokens : AddSession(m)
           \/ GenerateBatch \/ Return \/ Pick \/ MoveKVBuffer \/ RunShard \/ ExecuteFails \/ Update \/ Sample
           \/ CallbackThrows \/ ReleaseAndCompact
    PROVE  Flag'
  <1>1. overflow' = overflow
    BY DEF AddSession, GenerateBatch, Return, Pick, MoveKVBuffer, RunShard, ExecuteFails, Update, Sample,
           CallbackThrows, ReleaseAndCompact, Throw
  <1> QED BY <1>1, Zenon DEF Flag

LEMMA NextInv ==
    ASSUME CBInv, [Next]_vars
    PROVE  CBInv'
  <1>1. OrderInv /\ Cells /\ Flag /\ SegmentsInOrder /\ MovesInOrder /\ Contents
    BY Zenon DEF CBInv
  <1>2. OrderInv'
    BY <1>1, NextOrder
  <1>3. CASE \/ \E m \in MaxTokens : AddSession(m)
             \/ GenerateBatch \/ Return \/ Pick
    BY <1>1, <1>2, <1>3, KeptSegments, KeptContents, FlagKept, Zenon DEF CBInv
  <1>4. CASE \E reset \in BOOLEAN : NewScheduler(reset)
    <2>1. PICK reset \in BOOLEAN : NewScheduler(reset)
      BY <1>4
    <2>2. SegmentsInOrder' /\ MovesInOrder'
      BY <1>1, <2>1, NewSchedulerSegments, Zenon
    <2>3. Contents' /\ Cells' /\ Flag'
      BY <1>1, <2>1, NewSchedulerContents, Zenon
    <2> QED BY <1>2, <2>2, <2>3, Zenon DEF CBInv
  <1>5. CASE Prepare
    <2>1. Cells'
      BY <1>1, <1>5, PrepareCells, Zenon
    <2> QED BY <1>1, <1>2, <1>5, <2>1, PrepareSegments, PrepareContents, Zenon DEF CBInv
  <1>6. CASE MoveKVBuffer
    <2>1. Cells'
      BY <1>1, <1>6, MoveKVBufferCells, Zenon
    <2>2. Flag'
      BY <1>1, <1>6, FlagKept, Zenon
    <2> QED BY <1>1, <1>2, <1>6, <2>1, <2>2, MoveKVBufferSegments, MoveKVBufferContents, Zenon DEF CBInv
  <1>7. CASE RunShard
    <2>1. Flag'
      BY <1>1, <1>7, FlagKept, Zenon
    <2> QED BY <1>1, <1>2, <1>7, <2>1, RunShardSegments, RunShardCells, RunShardContents, Zenon DEF CBInv
  <1>8. CASE ExecuteFails \/ CallbackThrows
    <2>1. Flag'
      BY <1>1, <1>8, FlagKept, Zenon
    <2> QED BY <1>1, <1>2, <1>8, <2>1, ThrowSegments, ThrowContents, Zenon DEF CBInv
  <1>9. CASE Update
    <2>1. Flag'
      BY <1>1, <1>9, FlagKept, Zenon
    <2> QED BY <1>1, <1>2, <1>9, <2>1, UpdateSegments, UpdateContents, Zenon DEF CBInv
  <1>10. CASE Sample
    <2>1. Flag'
      BY <1>1, <1>10, FlagKept, Zenon
    <2>2. SegmentsInOrder' /\ MovesInOrder'
      BY <1>1, <1>10, KeptSegments, Zenon
    <2> QED BY <1>1, <1>2, <1>10, <2>1, <2>2, SampleContents, Zenon DEF CBInv
  <1>11. CASE ReleaseAndCompact
    <2>1. Flag'
      BY <1>1, <1>11, FlagKept, Zenon
    <2> QED BY <1>1, <1>2, <1>11, <2>1, ReleaseSegments, ReleaseContents, Zenon DEF CBInv
  <1>12. CASE UNCHANGED vars
    <2>1. Cells' /\ Flag' /\ SegmentsInOrder' /\ MovesInOrder' /\ Contents'
      <3>1. /\ sessions' = sessions /\ segments' = segments /\ active_cl' = active_cl /\ kv' = kv /\ moves' = moves
            /\ pc' = pc /\ batch' = batch /\ lens' = lens /\ in_start' = in_start /\ kv_segs' = kv_segs /\ act' = act
            /\ shard' = shard /\ next' = next /\ overflow' = overflow
        BY <1>12 DEF vars
      <3>2. Cells'
        BY <1>1, <3>1 DEF Cells
      <3>3. Flag'
        BY <1>1, <3>1, Zenon DEF Flag
      <3>4. Growing' <=> Growing
        BY <3>1 DEF Growing
      <3>5. Width' = Width
        BY <3>1 DEF Width, Growing
      <3>6. SegmentsInOrder'
        BY <1>1, <3>1, <3>4, <3>5, Zenon DEF SegmentsInOrder
      <3>7. MovesInOrder'
        BY <1>1, <3>1, Zenon DEF MovesInOrder
      <3>8. Ran' = Ran
        BY <3>1 DEF Ran
      <3>9. Contents'
        BY <1>1, <3>1, <3>4, <3>8, Zenon DEF Contents
      <3> QED BY <3>2, <3>3, <3>6, <3>7, <3>9
    <2> QED BY <1>2, <2>1, Zenon DEF CBInv
  <1> QED BY <1>3, <1>4, <1>5, <1>6, <1>7, <1>8, <1>9, <1>10, <1>11, <1>12, Zenon DEF Next, BatchStep

LEMMA InvAlways == Spec => []CBInv
  <1>1. CBInv /\ [Next]_vars => CBInv'
    BY NextInv
  <1> QED BY InitInv, <1>1, PTL DEF Spec
-----------------------------------------------------------------------------
(* What the runs check.                                                    *)

\* Scheduler, KVCacheManager and generateBatch keep their types, and a step never packs
\* more than its input rows.
THEOREM CBTypeCorrect == Spec => []TypeOK
  <1>1. ASSUME CBInv PROVE TypeOK
    <2>1. OrderInv /\ Cells /\ Flag /\ SegmentsInOrder
      BY <1>1, Zenon DEF CBInv
    <2>2. sessions \in Seq(SessionType) /\ DOMAIN lens \subseteq SessionId
      BY <2>1, LensNat
    <2>3. segments \in Seq(SegmentType)
      BY <2>1, Zenon DEF SegmentsInOrder
    <2>4. active_cl \in 1 .. NumCL /\ kv \in [KVShards -> [Addr -> {Zero, Junk} \cup (Row \X Seq(Token))]]
      BY <2>1 DEF Cells, Cell
    <2>5. /\ pc \in {"idle", "pick", "prepare", "shard", "update", "sample", "thrown"}
          /\ shard \in 1 .. NumShards /\ next \in 1 .. Len(batch) + 1
      BY <2>1 DEF OrderInv, Loops
    <2>6. Batched(sessions, batch, lens, in_start)
      BY <2>1 DEF OrderInv, BatchInOrder
    <2>7. batch \in Seq(SessionId)
      <3>1. batch \in Seq(DOMAIN lens)
        BY <2>6 DEF Batched
      <3> QED BY <2>2, <3>1
    <2>8. \A id \in DOMAIN lens : lens[id] \in 1 .. SeqLen
      <3>1. \A id \in DOMAIN lens : lens[id] \in Nat \ {0} /\ in_start[id] \in Nat /\ in_start[id] + lens[id] <= SeqLen
        BY <2>6 DEF Batched
      <3>2. SeqLen \in Nat
        BY SeqLenPositive
      <3> QED BY <3>1, <3>2
    <2>9. SumUpTo(lens, Len(Queries)) <= SeqLen
      BY <2>6 DEF Batched
    <2>10. overflow \in BOOLEAN
      BY <2>1, Zenon DEF Flag
    <2> QED BY <2>2, <2>3, <2>4, <2>5, <2>7, <2>8, <2>9, <2>10, Zenon DEF TypeOK
  <1> QED BY InvAlways, <1>1, PTL

\* When no move is left to be made, the segment of each session holds the entries of the
\* session's own tokens, all of them and in order, in every row of every shard: through
\* growth, promotion to a larger cache, exceptions and the release of other sessions.
THEOREM SegmentsHoldSessions == Spec => []SegmentsMirrorSessions
  <1>1. ASSUME CBInv PROVE SegmentsMirrorSessions
    <2> SUFFICES ASSUME pc = "pick", moves = <<>>, ~overflow, NEW i \in DOMAIN segments
                 PROVE  LET seg == segments[i]
                            h == History(sessions[seg.id])
                        IN  /\ seg.length = Len(h)
                            /\ \A s \in KVShards, r \in Row, k \in 0 .. seg.length - 1 :
                                  kv[s][r * KVLen(active_cl) + seg.start + k] = Entry(r, SubSeq(h, 1, k + 1))
      BY Zenon DEF SegmentsMirrorSessions
    <2>1. OrderInv /\ Cells /\ SegmentsInOrder /\ Contents
      BY <1>1, Zenon DEF CBInv
    <2>2. /\ segments \in Seq(SegmentType) /\ Seated(sessions, segments)
          /\ segments[i].length = sessions[segments[i].id].processed /\ KVLen(active_cl) \in Nat
      BY <2>1, WidthFacts
    <2> DEFINE n == KVLen(active_cl)
               at == segments[i].start
               m == segments[i].length
               t == Text(sessions[segments[i].id])
               h == History(sessions[segments[i].id])
    <2>3. t \in Seq(Token) /\ Len(t) \in Nat /\ m \in Nat /\ m <= Len(t) /\ at \in Nat /\ n \in Nat
      <3>1. segments[i].id \in DOMAIN sessions /\ Sessions(sessions)
        BY <2>1, <2>2 DEF Seated, OrderInv, SessionsInOrder
      <3>2. t \in Seq(Token) /\ m \in Nat /\ m <= Len(t)
        BY <2>2, <3>1, SessionFacts
      <3>3. segments[i] \in SegmentType
        BY <2>2
      <3> QED BY <2>2, <3>2, <3>3 DEF SegmentType
    <2>4. h = SubSeq(t, 1, m)
      BY <2>2 DEF History, Text
    <2>5. Resident(kv, n, sessions, segments)
      <3>1. Held(kv, n, sessions, segments, moves)
        BY <2>1, Zenon DEF Contents
      <3> QED BY <3>1, HeldResident
    <2>6. \A s \in KVShards : Holds(kv[s], n, at, t, m)
      BY <2>2, <2>5 DEF Resident
    <2> HIDE DEF n, at, m, t, h
    <2>7. m = Len(h)
      <3>1. 1 \in Nat \ {0}
        OBVIOUS
      <3>2. Len(SubSeq(t, 1, m)) = IF 1 <= m THEN m - 1 + 1 ELSE 0
        BY <2>3, <3>1, Slice
      <3>3. Len(SubSeq(t, 1, m)) = m
        BY <2>3, <3>2
      <3> QED BY <2>4, <3>3
    <2>8. ASSUME NEW s \in KVShards, NEW r \in Row, NEW k \in 0 .. m - 1
          PROVE  kv[s][r * n + at + k] = Entry(r, SubSeq(h, 1, k + 1))
      <3>1. kv[s][r * n + (at + k)] = <<r, SubSeq(t, 1, k + 1)>>
        BY <2>6 DEF Holds
      <3>2. r * n + at + k = r * n + (at + k)
        <4> DEFINE b == r * n
        <4>1. r \in Nat
          BY CBAssumption DEF CBAssumption, Row
        <4>2. b \in Nat
          BY <2>3, <4>1, ProductNat
        <4> HIDE DEF b
        <4>3. b + at + k = b + (at + k)
          BY <2>3, <4>2
        <4> QED BY <4>3 DEF b
      <3> DEFINE j == k + 1
      <3>3. m \in 0 .. Len(t) /\ j \in 0 .. m /\ j \in Nat /\ j <= Len(t) /\ 1 \in Nat \ {0}
        BY <2>3
      <3> HIDE DEF j
      <3>4. SubSeq(SubSeq(t, 1, m), 1, j) = SubSeq(t, 1, j)
        BY <2>3, <3>3, CutAgain
      <3>5. SubSeq(t, 1, j) \in Seq(Token)
        BY <2>3, <3>3, Slice
      <3>6. Entry(r, SubSeq(h, 1, j)) = <<r, SubSeq(t, 1, j)>>
        BY <2>4, <3>4, <3>5, TextNotJunk DEF Entry
      <3> QED BY <3>1, <3>2, <3>6 DEF j
    <2> QED BY <2>7, <2>8 DEF n, at, m, h
  <1> QED BY InvAlways, <1>1, PTL

\* The token a session gets is sampled from exactly its own prompt and its own output,
\* whoever shares the batch and the cache with it.
THEOREM SampledFromItself == Spec => []SampledFromOwnContext
  <1>1. ASSUME CBInv PROVE SampledFromOwnContext
    <2> SUFFICES ASSUME pc = "sample", ~overflow, NEW k \in next .. Len(batch)
                 PROVE  LET s == sessions[batch[k]]
                        IN  act[in_start[s.id] + lens[s.id] - 1] = History(s)
      BY Zenon DEF SampledFromOwnContext
    <2>1. Contents
      BY <1>1, Zenon DEF CBInv
    <2>2. \A j \in next .. Len(batch) :
             LET s == sessions[batch[j]]
             IN  act[in_start[s.id] + lens[s.id] - 1] = SubSeq(Text(s), 1, s.processed)
      BY <2>1, Zenon DEF Contents
    <2> QED BY <2>2 DEF History, Text
  <1> QED BY InvAlways, <1>1, PTL
=============================================================================
