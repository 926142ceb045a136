SPECIFICATION Spec
CONSTANTS
    x = x  m = m  n = n  w = w  s = s  e = e  c1 = c1  c2 = c2
    Messages <- MCMessages
    Words = {w}
    Eos = {e}
    Silent = {}
    Bos = Bos
    EndOfTurn = EndOfTurn
    Bundles = {x}
    SamplerCfgs = {Greedy}
    Greedy = Greedy
    MaxTokens = {2}
    Sliding = {FALSE}
    NKeep = 1
    MaxCL = 12
    Faults = FALSE
    MaxTurns = 2
    MayCreate = {0}
    MaySave = {}
    None = None
INVARIANT CacheHoldsMessages
