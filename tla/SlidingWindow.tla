--------------------------- MODULE SlidingWindow ----------------------------
(***************************************************************************)
(* How many tokens LLMModel::try_slide discards to fit n_fit more, of past *)
(* tokens the first n_keep of which are anchored.                          *)
(***************************************************************************)
EXTENDS MinMax

ComputeSlideDiscard(past, n_fit, max_cl, n_keep) ==
    IF past <= n_keep THEN 0
    ELSE Max2(0, Min2(Max2(past \div 2 - n_keep, past + n_fit - max_cl + 1),
                      past - n_keep))
=============================================================================
