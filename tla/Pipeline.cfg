SPECIFICATION Spec
CONSTANTS
    x = x  m = m  n = n  w = w  s = s  e = e  c1 = c1  c2 = c2
    Messages <- MCMessages
    Words = {w, s}
    Eos = {e}
    Silent = {s}
    Bos = Bos
    EndOfTurn = EndOfTurn
    SamplerCfgs = {Greedy, c1, c2}
    Greedy = Greedy
    Bundles = {x}
    MaxTokens = {2}
    Sliding = {TRUE, FALSE}
    NKeep = 1
    MaxCL = 5
    Faults = TRUE
    MaxTurns = 2
    MayCreate = {0}
    MaySave = {3, 4}
    None = None
INVARIANTS TypeOK SamplerHearsConversation ContextIsTranscript BosOnceAtFront ReasonIsTrue
PROPERTY ImplementsWindow
