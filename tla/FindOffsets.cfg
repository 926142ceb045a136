SPECIFICATION Spec
CONSTANTS
    t = t  u = u  e = e  vs = vs  pad = pad  i1 = i1  i2 = i2
    Text = {t, u}
    Eos = {e}
    VisionStart = vs
    ImagePad = pad
    Images = {i1, i2}
    Shapes <- FindShapes
    Grids <- FindGrids
    SpatialMerge = 2
    WindowSize = 2
    MaxCL = 7
    SeqLenPrefill = 4
    MaxTokens = {1}
    Sliding = {FALSE}
    NKeep = 1
    Faults = FALSE
    Junk = Junk  None = None
INVARIANT OffsetsOfThisConversation
