--------------------------- MODULE VisionWindows ----------------------------
(***************************************************************************)
(* qwen_vit (core/src/vlm/vit_utils.cpp): the index arithmetic of window   *)
(* attention, for one frame of lh x lw patch groups, sm x sm patches each, *)
(* and windows of ws x ws groups.  Tables are functions on 0 .. n-1, as    *)
(* the code's vectors.                                                     *)
(***************************************************************************)
EXTENDS Integers, SequencesExt

Groups(lh, lw) == 0 .. lh * lw - 1

PadTo(n, ws) == (ws - (n % ws)) % ws
NumWindows(n, ws) == (n + PadTo(n, ws)) \div ws

\* The cells of the padded frame, window by window, row by row within a window.
PaddedCells(lh, lw, ws) ==
    LET nw_w == NumWindows(lw, ws)
        cell(k) == LET win == k \div (ws * ws)
                       in_win == k % (ws * ws)
                   IN  <<(win \div nw_w) * ws + (in_win \div ws), (win % nw_w) * ws + (in_win % ws)>>
    IN  [k \in 1 .. NumWindows(lh, ws) * nw_w * ws * ws |-> cell(k - 1)]

IsGroup(c, lh, lw) == c[1] < lh /\ c[2] < lw

AsTable(s) == [i \in 0 .. Len(s) - 1 |-> s[i + 1]]

\* computeWindowIndex: the natural index of the k-th group in window order.
ComputeWindowIndex(lh, lw, ws) ==
    LET cells == PaddedCells(lh, lw, ws)
    IN  AsTable(FlattenSeq([k \in DOMAIN cells |->
            IF IsGroup(cells[k], lh, lw) THEN <<cells[k][1] * lw + cells[k][2]>> ELSE <<>>]))

\* Mutant: the reverse index is the index itself.
ReverseWindowIndexIdentity(window_index) == window_index

ReverseWindowIndex(window_index) ==
    [g \in DOMAIN window_index |-> CHOOSE i \in DOMAIN window_index : window_index[i] = g]

\* computeCuWindowSeqlens: the patch offsets at which the windows begin and end.
CuWindowSeqlens(lh, lw, sm, ws) ==
    LET cells == PaddedCells(lh, lw, ws)
        valid(w) == Cardinality({k \in w * ws * ws + 1 .. (w + 1) * ws * ws :
                                    IsGroup(cells[k], lh, lw)})
        cu[w \in 0 .. NumWindows(lh, ws) * NumWindows(lw, ws)] ==
            IF w = 0 THEN <<0>>
            ELSE IF valid(w - 1) = 0 THEN cu[w - 1]
            ELSE Append(cu[w - 1], Last(cu[w - 1]) + valid(w - 1) * sm * sm)
    IN  AsTable(cu[NumWindows(lh, ws) * NumWindows(lw, ws)])

\* buildBlockAttentionMask(n, boundaries): the patches each patch may attend to.
BlockAttentionMask(n, boundaries) ==
    [i \in 0 .. n - 1 |->
        {j \in 0 .. n - 1 : \E b \in DOMAIN boundaries : b + 1 \in DOMAIN boundaries
                              /\ {i, j} \subseteq boundaries[b] .. boundaries[b + 1] - 1}]

\* computePatchRoPE: the coordinates patch p is rotated to; the patches of a group
\* are consecutive.
PatchRoPE(lh, lw, sm) ==
    [p \in 0 .. lh * lw * sm * sm - 1 |->
        LET g == p \div (sm * sm)  in_g == p % (sm * sm)
        IN  <<(g \div lw) * sm + (in_g \div sm), (g % lw) * sm + (in_g % sm)>>]

\* windowReorder: rows move in runs of sm_unit.
WindowReorder(rows, sm_unit, window_index) ==
    [p \in DOMAIN rows |-> rows[window_index[p \div sm_unit] * sm_unit + (p % sm_unit)]]
=============================================================================
