SPECIFICATION SchedulerSpec
CONSTANTS
    a = a
    b = b
    c = c
    d = d
    e = e
    Groups <- MCGroups
    Seqs <- MCSeqs
    GroupOf <- MCGroupOf
    Parent <- MCParent
    PromptLen <- MCPromptLen
    BestOf <- MCBestOf
    BeamGroups = {"g"}
    BlockSize = 2
    MaxModelLen = 4
    GpuBlocks = {g1, g2, g3, g4}
    CpuBlocks = {c1, c2, c3}
    WatermarkBlocks = 0
    BlockSlidingWindow = 0
    Policies = {"default"}
    MaxNumBatchedTokens = 4
    MaxNumSeqs = 3
    LoraOf <- MCNoLora
    MaxLoras = 0
INVARIANT
    NoSchedulerError
