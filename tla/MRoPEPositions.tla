--------------------------- MODULE MRoPEPositions ---------------------------
(***************************************************************************)
(* computeMRoPEPositions (core/src/vlm/vlm_utils.cpp): the three-          *)
(* dimensional positions of a prompt.  Text counts on in all dimensions;   *)
(* the tokens of an image of t x h x w groups, after its vision-start      *)
(* token, spread over a box, and the text after it goes on past the box.   *)
(* Both callers pass no audio segments.                                    *)
(***************************************************************************)
EXTENDS MinMax, SequencesExt

PastBox(g) == Max2(g[1], Max2(g[2], g[3]))

\* The k-th cell of the box of g.
BoxCell(g, k) == <<k \div (g[2] * g[3]), (k \div g[3]) % g[2], k % g[3]>>

\* The state of the loop: the positions so far, the running counter st, the images
\* not begun, and the box being filled: its grid, its origin, the cells used.
NoBox == [grid |-> <<0, 0, 0>>, at |-> 0, used |-> 0]

MRoPEStep(s, tok, start, image) ==
    LET g == s.box.grid
        text(box, past, left) ==
            [pos |-> Append(s.pos, <<s.st, s.st, s.st>>), st |-> s.st + 1 + past,
             left |-> left, box |-> box]
    IN  IF tok = image /\ s.box.used < g[1] * g[2] * g[3]
          THEN [s EXCEPT !.pos = Append(@, [d \in 1 .. 3 |-> s.box.at + BoxCell(g, s.box.used)[d]]),
                         !.box.used = @ + 1]
        ELSE IF tok = start /\ s.left # <<>>
          THEN text([grid |-> Head(s.left), at |-> s.st + 1, used |-> 0],
                    PastBox(Head(s.left)), Tail(s.left))
        ELSE text(NoBox, 0, s.left)

ComputePositions(ids, grids, start, image) ==
    LET s[i \in 0 .. Len(ids)] ==
            IF i = 0 THEN [pos |-> <<>>, st |-> 0, left |-> grids, box |-> NoBox]
            ELSE MRoPEStep(s[i - 1], ids[i], start, image)
    IN  s[Len(ids)].pos

\* deltas: how far the last temporal position is ahead of the token count.
PositionDelta(pos) ==
    (IF pos = <<>> THEN 0 ELSE Max({pos[i][1] : i \in DOMAIN pos})) + 1 - Len(pos)
=============================================================================
