SPECIFICATION Spec
CONSTANTS
    a = a  b = b  e = e
    Token <- TwoTokens
    Eos = {e}
    ContextLengths <- ShortLengths
    SeqLenPrefill = 2
    SeqLenDecode = 1
    NumShards = 2
    KVShards = {1, 2}
    LmHeadOnly = {}
    Rows = 2
    DecodeWorkers = 1
    ClockKeepers = 1
    Prompts <- TwoPrompts
    MaxTokens = {0, 4}
    NKeeps = {0}
    Sliding = {FALSE}
    Faults = {}
    Persistence = FALSE
    Zero = Zero  Junk = Junk  None = None
INVARIANTS PrefillBufferHolds
