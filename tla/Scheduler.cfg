SPECIFICATION SchedulerSpec
CONSTANTS
    a = a
    b = b
    c = c
    d = d
    e = e
    Groups <- MCGroups
    Seqs <- MCSeqs
    GroupOf <- MCGroupOf
    Parent <- MCParent
    PromptLen <- MCPromptLen
    BestOf <- MCBestOf
    BeamGroups = {"g"}
    BlockSize = 2
    MaxModelLen = 4
    GpuBlocks = {g1,g2,g3}
    CpuBlocks = {c1,c2,c3}
    WatermarkBlocks = 0
    BlockSlidingWindow = 0
    Policies = {"default", "chunked"}
    MaxNumBatchedTokens = 4
    MaxNumSeqs = 3
    LoraOf <- MCLora
    MaxLoras = 1
SYMMETRY MCBlockSymmetry
INVARIANTS
    SchedulerTypeOK
    QueuesMatchStatuses
    ComputedTokensAreStored
    BatchIsUniform
PROPERTIES
    BatchIsBounded
