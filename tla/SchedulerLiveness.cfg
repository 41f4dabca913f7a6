SPECIFICATION FairSchedulerSpec
CONSTANTS
    a = a
    b = b
    c = c
    d = d
    e = e
    Groups <- SingleGroups
    Seqs <- SingleSeqs
    GroupOf <- SingleGroupOf
    Parent <- SingleParent
    PromptLen <- SinglePromptLen
    BestOf <- SingleBestOf
    BeamGroups = {}
    BlockSize = 1
    MaxModelLen = 4
    GpuBlocks = {g1, g2, g3}
    CpuBlocks = {}
    WatermarkBlocks = 0
    BlockSlidingWindow = 0
    Policies = {"default"}
    MaxNumBatchedTokens = 4
    MaxNumSeqs = 2
    LoraOf <- SingleNoLora
    MaxLoras = 0
INVARIANTS
    NoSchedulerError
    WaitingIsSorted
    FirstComeFirstServed
PROPERTIES
    EveryRequestFinishes
