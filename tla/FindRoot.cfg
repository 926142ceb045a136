SPECIFICATION Spec
CONSTANTS
    Branches <- MCBranches
    VocabSize = 3
    Eos = {2}
    ContextLength = 38
    SeqLenPrefill = 16
    SeqLenDecode = 15
    ForecastPrefix = 1
    Rows = 2
    Prompts <- MCPrompts
    MaxTokens = {0, 1, 4}
    Faults = {}
    Zero = Zero  Junk = Junk  Forecast = Forecast
CONSTRAINTS LongFirst GeneratesUndamaged
INVARIANT RootNeverProcessed
