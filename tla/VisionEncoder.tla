--------------------------- MODULE VisionEncoder ----------------------------
(***************************************************************************)
(* encode() of the two vision encoders (models/qwen2_5_vl, models/         *)
(* qwen3_vl): what the host prepares for the compiled ViT and what it does *)
(* with the features that come back.  The ViT is external: it takes the    *)
(* patches in natural order and, when it attends in windows, puts their    *)
(* groups into window order itself.  A feature is which group it stands    *)
(* for, the positions its patches were rotated to and the groups they      *)
(* attended to.                                                            *)
(***************************************************************************)
EXTENDS VisionWindows

WindowOf(g, lw, ws) == <<(g \div lw) \div ws, (g % lw) \div ws>>

\* The order the compiled ViT puts the groups in: by window, then by row and column.
Before(a, b, lw, ws) ==
    LET wa == WindowOf(a, lw, ws)
        wb == WindowOf(b, lw, ws)
    IN  IF wa = wb THEN a < b ELSE wa[1] < wb[1] \/ (wa[1] = wb[1] /\ wa[2] < wb[2])

GraphOrder(lh, lw, ws) ==
    LET rank(g) == Cardinality({h \in Groups(lh, lw) : Before(h, g, lw, ws)})
    IN  [k \in Groups(lh, lw) |-> CHOOSE g \in Groups(lh, lw) : rank(g) = k]

\* g.execute(): the k-th feature of the output tensor.
GraphFeatures(order, unit, rope, mask) ==
    [k \in DOMAIN order |->
        LET rows == k * unit .. (k + 1) * unit - 1
        IN  [group |-> order[k],
             at    |-> [j \in 0 .. unit - 1 |-> rope[k * unit + j]],
             sees  |-> {order[q \div unit] : q \in UNION {mask[p] : p \in rows}}]]

\* Qwen25VLVisionEncoder::encode for one image.
EncodeWindowed(lh, lw, sm, ws) ==
    LET unit == sm * sm
        window_index == ComputeWindowIndex(lh, lw, ws)
        reverse_index == ReverseWindowIndex(window_index)
        rope == WindowReorder(PatchRoPE(lh, lw, sm), unit, window_index)
        mask == BlockAttentionMask(lh * lw * unit, CuWindowSeqlens(lh, lw, sm, ws))
        tokens == GraphFeatures(GraphOrder(lh, lw, ws), unit, rope, mask)
    IN  [i \in Groups(lh, lw) |-> tokens[reverse_index[i]]]

\* Qwen3VLVisionEncoder::encode for one image: one window, natural order.
EncodeFull(lh, lw, sm) ==
    LET n == lh * lw * sm * sm
    IN  GraphFeatures([g \in Groups(lh, lw) |-> g], sm * sm, PatchRoPE(lh, lw, sm),
                      BlockAttentionMask(n, AsTable(<<0, n>>)))

\* What the feature of group g ought to be: its own patches' places in the frame,
\* the groups of its window (of the frame, when ws = 0).
TrueFeature(g, lh, lw, sm, ws) ==
    [group |-> g,
     at    |-> [j \in 0 .. sm * sm - 1 |->
                  <<(g \div lw) * sm + (j \div sm), (g % lw) * sm + (j % sm)>>],
     sees  |-> {h \in Groups(lh, lw) : ws = 0 \/ WindowOf(h, lw, ws) = WindowOf(g, lw, ws)}]
=============================================================================
