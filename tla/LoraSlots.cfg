SPECIFICATION SchedulerSpec
CONSTANTS
    a = a
    b = b
    c = c
    d = d
    e = e
    Groups <- SingleGroups
    Seqs <- SingleSeqs
    GroupOf <- SingleGroupOf
    Parent <- SingleParent
    PromptLen <- SinglePromptLen
    BestOf <- SingleBestOf
    BeamGroups = {}
    BlockSize = 1
    MaxModelLen = 4
    GpuBlocks = {g1, g2, g3, g4}
    CpuBlocks = {}
    WatermarkBlocks = 0
    BlockSlidingWindow = 0
    Policies = {"chunked"}
    MaxNumBatchedTokens = 4
    MaxNumSeqs = 3
    LoraOf <- SingleLora
    MaxLoras = 1
INVARIANT
    LorasFitTheSlots
