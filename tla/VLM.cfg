SPECIFICATION Spec
CONSTANTS
    t = t  u = u  e = e  vs = vs  pad = pad  i1 = i1  i2 = i2
    Text = {t, u}
    Eos = {e}
    VisionStart = vs
    ImagePad = pad
    Images = {i1, i2}
    Shapes <- MCShapes
    Grids <- MCGrids
    SpatialMerge = 2
    WindowSize = 2
    MaxCL = 11
    SeqLenPrefill = 4
    MaxTokens = {1}
    Sliding = {TRUE, FALSE}
    NKeep = 1
    Faults = TRUE
    Junk = Junk  None = None
INVARIANTS TypeOK FeaturesInPlace FedAsPrompted PositionsContinue
CONSTRAINTS DeltaBound EndsAtEviction SavesUndamaged SampledPlain TalksAboutSmallFrames
