SPECIFICATION Spec
CONSTANTS
    a = a  b = b  e = e
    Token <- TwoTokens
    Eos = {e}
    ContextLengths <- ShortLengths
    SeqLenPrefill = 2
    SeqLenDecode = 1
    NumShards = 2
    KVShards = {1}
    LmHeadOnly = {}
    Rows = 2
    DecodeWorkers = 1
    ClockKeepers = 1
    Prompts <- TwoPrompts
    MaxTokens = {2}
    NKeeps <- MCNKeeps
    Sliding = {FALSE}
    Faults = {"execute", "callback", "disk"}
    Persistence = TRUE
    Zero = Zero  Junk = Junk  None = None
INVARIANTS KVMatchesHistory
CONSTRAINT GeneratesUndamaged
