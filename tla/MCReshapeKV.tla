---------------------------- MODULE MCReshapeKV -----------------------------
(* Every call of reshapeKV on a buffer of up to MaxRows rows of up to MaxKV *)
(* tokens.  reshapeKV never looks at a cell, so one buffer whose cells are  *)
(* all different stands for every buffer.                                   *)
EXTENDS ReshapeKV

MCCell == {Zero} \cup 0 .. MaxRows * MaxKV - 1
MCContents == {[a \in Addr |-> a]}
=============================================================================
