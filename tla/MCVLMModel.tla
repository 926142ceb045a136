----------------------------- MODULE MCVLMModel -----------------------------
(* Small instances of VLMModel.  Windows of two by two groups over frames   *)
(* of up to five by four are ragged on either edge, on both and on none;   *)
(* chunks of four tokens let images straddle them.                         *)
EXTENDS VLMModel, TLC

CONSTANTS t, u, e, vs, pad, i1, i2

MCShapes == {<<t, u>>, <<i1, u>>, <<t, i2, i1, u>>}
\* The second outgrows a context of seven tokens.
FindShapes == {<<t>>, <<t, u, i1, u>>}
MCGrids == (1 .. 5) \X (1 .. 4)
FindGrids == {<<2, 2>>}

\* How far mrope_deltas_ may drift; every rejected image moves it on.
DeltaBound == mrope.deltas >= -6

\* Bounds: no turn is begun on a context that an eviction has replayed, and only the
\* context of one image and its question is saved.
EndsAtEviction == ~("evicted" \in damage /\ pc = "fit")
SavesUndamaged == file # None => file.damage = {} /\ file.deltas # 0 /\ Len(file.history) = 8
\* The tables of every frame are checked; conversations are held about two.
TalksAboutSmallFrames == grid \in {<<1, 2>>, <<2, 3>>}

\* What the network prefers varies between one ordinary token and the end.
SampledPlain == next_token # t
=============================================================================
