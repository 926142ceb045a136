SPECIFICATION FairSpec
CONSTANTS
    a = a  b = b   e = e
    Token <- MCToken
    Eos = {e}
    ContextLengths <- MCLengths
    SeqLen = 4
    NumShards = 2
    KVShards = {1, 2}
    Rows = 2
    Queries <- MCQueries
    MaxTokens = {0, 2}
    Faults = {"execute", "callback"}
    Zero = Zero  Junk = Junk  Pad = Pad
INVARIANTS TypeOK SegmentsMirrorSessions SampledFromOwnContext FedInOrder
PROPERTIES EverySessionCompletes
