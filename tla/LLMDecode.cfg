SPECIFICATION FairSpec
CONSTANTS
    a = a  b = b  e = e
    Token <- MCToken
    Eos = {e}
    ContextLengths <- ShortLengths
    SeqLenPrefill = 2
    SeqLenDecode = 1
    NumShards = 3
    KVShards = {1, 2}
    LmHeadOnly = {3}
    Rows = 2
    DecodeWorkers = 1
    ClockKeepers = 1
    Prompts <- MCPrompts
    MaxTokens = {0, 4}
    NKeeps <- MCNKeeps
    Sliding = {TRUE, FALSE}
    Faults = {}
    Persistence = FALSE
    Zero = Zero  Junk = Junk  None = None
INVARIANTS TypeOK HistoryMatches WithinContext KVMatchesHistory SampledFromHistory
PROPERTIES AnchorKept ImplementsWindow SafeBelowPrefillCapacity GenerateReturns
