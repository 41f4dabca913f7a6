SPECIFICATION Spec
CONSTANTS
    a = a
    b = b
    d = d
    Groups <- MCGroups
    Seqs <- MCSeqs
    GroupOf <- MCGroupOf
    Parent <- MCParent
    PromptLen <- MCPromptLenWindow
    BestOf <- MCBestOf
    BeamGroups = {}
    BlockSize = 1
    MaxModelLen = 6
    GpuBlocks = {g1, g2, g3, g4}
    CpuBlocks = {c1}
    WatermarkBlocks = 0
    BlockSlidingWindow = 2
SYMMETRY BlockSymmetry
INVARIANTS
    ScheduledSlotIsExclusive
CHECK_DEADLOCK FALSE
