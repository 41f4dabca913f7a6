SPECIFICATION Spec
CONSTANTS
    a = a
    b = b
    d = d
    Groups <- MCGroups
    Seqs <- MCSeqs
    GroupOf <- MCGroupOf
    Parent <- MCParent
    PromptLen <- MCPromptLenWindow
    BestOf <- MCBestOfOne
    BeamGroups = {}
    BlockSize = 1
    MaxModelLen = 6
    GpuBlocks = {g1, g2, g3}
    CpuBlocks = {c1}
    WatermarkBlocks = 0
    BlockSlidingWindow = 2
SYMMETRY BlockSymmetry
INVARIANTS
    RefCountExact
    ScheduledSlotIsExclusive
    WindowIsNotOverwritten
CHECK_DEADLOCK FALSE
