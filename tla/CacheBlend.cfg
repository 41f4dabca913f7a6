SPECIFICATION BlendSpec
CONSTANTS
    Samples <- MCSamples
    Reads <- MCReads
    NumLayers = 4
    CheckLayers = {1}
    RatioNum = 1
    RatioDen = 3
    MaxTokens = 2
INVARIANTS
    BlendTypeOK
    CacheHoldsThePrompt
    ReuseIsConfined
    RowsSeeTheirPrefix
    SampledFromLastToken
    NoBlendError
CHECK_DEADLOCK FALSE
