---------------------------- MODULE TokenWindow -----------------------------
(***************************************************************************)
(* What LLMModel promises about the conversation's context, without chunks,*)
(* strides, variants, shards or jobs: a bounded window of tokens that      *)
(* grows at its end, from which a contiguous run may be evicted, and which *)
(* can be cleared, saved and restored.                                     *)
(***************************************************************************)
EXTENDS Integers, Sequences

CONSTANTS Token, Capacity, None

VARIABLES window, saved

wvars == <<window, saved>>

WInit == window = <<>> /\ saved = None

\* Tokens are appended, within the capacity.
Extend ==
    /\ Len(window') > Len(window) /\ Len(window') <= Capacity
    /\ SubSeq(window', 1, Len(window)) = window
    /\ UNCHANGED saved

\* A run of tokens above an anchored prefix is evicted; the rest closes up.
EvictRun ==
    /\ \E keep \in 0 .. Len(window), n \in 1 .. Len(window) :
          /\ keep + n <= Len(window)
          /\ window' = SubSeq(window, 1, keep) \o SubSeq(window, keep + n + 1, Len(window))
    /\ UNCHANGED saved

Clear == window' = <<>> /\ UNCHANGED saved
Save == saved' = window /\ UNCHANGED window
Restore == saved # None /\ window' = saved /\ UNCHANGED saved

WNext == Extend \/ EvictRun \/ Clear \/ Save \/ Restore

WSpec == WInit /\ [][WNext]_wvars
=============================================================================
