--------------------------- MODULE KVCacheManager ---------------------------
(***************************************************************************)
(* geniex::cb::KVCacheManager: which slice of the shared KV buffer belongs *)
(* to which session.  The manager holds a list of segments [id, start,     *)
(* length] and speaks only in token offsets; the moves it asks for are     *)
(* applied to the tensors by CBLLMModel.  Its operations are operators on  *)
(* the list.  growth[id] is how many tokens a session is about to add.     *)
(***************************************************************************)
EXTENDS Integers, Sequences, FiniteSetsExt, SequencesExt

\* The sum of f over the places of its domain up to n.
SumUpTo(f, n) ==
    LET sum[i \in 0 .. n] ==
          IF i = 0 THEN 0 ELSE sum[i - 1] + (IF i \in DOMAIN f THEN f[i] ELSE 0)
    IN  sum[n]

\* The elements of s at the places in K, in order.
Those(s, K) == FlattenSeq([i \in DOMAIN s |-> IF i \in K THEN <<s[i]>> ELSE <<>>])

SegEnd(seg) == seg.start + seg.length

HasSegment(segs, id) == \E i \in DOMAIN segs : segs[i].id = id
GetSegment(segs, id) == segs[CHOOSE i \in DOMAIN segs : segs[i].id = id]

TotalUsed(segs) == Max({0} \cup {SegEnd(segs[i]) : i \in DOMAIN segs})

\* allocate(id, 0) for each of ids: an empty segment behind the last one, and so at
\* the end of the last one that is not empty.
Allocate(segs, ids) ==
    segs \o [k \in DOMAIN ids |->
                [id |-> ids[k], length |-> 0,
                 start |-> IF segs = <<>> THEN 0 ELSE SegEnd(Last(segs))]]

\* extend() for every session that grew.
Extend(segs, growth) ==
    [i \in DOMAIN segs |->
        IF segs[i].id \in DOMAIN growth
          THEN [segs[i] EXCEPT !.length = @ + growth[segs[i].id]] ELSE segs[i]]

Release(segs, ids) == Those(segs, {i \in DOMAIN segs : segs[i].id \notin ids})

WithStarts(segs, start) == [i \in DOMAIN segs |-> [segs[i] EXCEPT !.start = start[i]]]

\* The moves that take the segments of a list to new starts, for the indices of
\* the sequence `order' in that order; a segment that stays or is empty has none.
Moves(segs, start, order) ==
    LET moving == Those(order, {k \in DOMAIN order :
                                  LET i == order[k]
                                  IN  start[i] # segs[i].start /\ segs[i].length > 0})
    IN  [k \in DOMAIN moving |->
            [src |-> segs[moving[k]].start, dst |-> start[moving[k]],
             len |-> segs[moving[k]].length]]

LeftToRight(segs) == [i \in DOMAIN segs |-> i]
RightToLeft(segs) == Reverse(LeftToRight(segs))

\* compact(): where each segment goes.  An empty segment stays.
CompactStarts(segs) ==
    LET start[i \in DOMAIN segs] ==
          IF segs[i].length = 0 THEN segs[i].start
          ELSE IF i = 1 THEN 0 ELSE start[i - 1] + segs[i - 1].length
    IN  start
CompactMoves(segs) == Moves(segs, CompactStarts(segs), LeftToRight(segs))
Compact(segs) == WithStarts(segs, CompactStarts(segs))

Growth(segs, growth, i) == IF segs[i].id \in DOMAIN growth THEN growth[segs[i].id] ELSE 0

\* shiftForGrowth(): how far segment i moves to the right, which is by how much the
\* segments before it grow.
Shift(segs, growth, i) == SumUpTo([j \in DOMAIN segs |-> Growth(segs, growth, j)], i - 1)

\* Where each segment goes; an empty one is seated behind its predecessor's growth.
ShiftedStarts(segs, growth) ==
    LET start[i \in DOMAIN segs] ==
          IF segs[i].length > 0 THEN segs[i].start + Shift(segs, growth, i)
          ELSE IF i = 1 THEN 0
          ELSE start[i - 1] + segs[i - 1].length + Growth(segs, growth, i - 1)
    IN  start

\* Mutant: the moves are made from left to right and overwrite what is to be moved.
ShiftMovesLeftToRight(segs, growth) ==
    Moves(segs, ShiftedStarts(segs, growth), LeftToRight(segs))

ShiftMoves(segs, growth) == Moves(segs, ShiftedStarts(segs, growth), RightToLeft(segs))
ShiftForGrowth(segs, growth) == WithStarts(segs, ShiftedStarts(segs, growth))

\* Mutant: the cache part of the mask opens everything up to the segment's end.
MaskKVFromZero(seg, kv_len, in_start, r) ==
    0 .. SegEnd(seg) - 1 \cup {kv_len + in_start + c : c \in 0 .. r}

\* getAttentionMask(): the columns input row in_start + r of a session may attend
\* to, its own cache and, causally, its own inputs.
MaskColumns(seg, kv_len, in_start, r) ==
    seg.start .. SegEnd(seg) - 1 \cup {kv_len + in_start + c : c \in 0 .. r}

\* getPositionIds(): the position of that row.
PositionId(seg, r) == seg.length + r
=============================================================================
