SPECIFICATION Spec
CONSTANTS
    a = a
    b = b
    d = d
    Groups <- MCGroups
    Seqs <- MCSeqs
    GroupOf <- MCGroupOf
    Parent <- MCParent
    PromptLen <- MCPromptLen
    BestOf <- MCBestOf
    BeamGroups = {"g"}
    BlockSize = 2
    MaxModelLen = 3
    GpuBlocks = {g1, g2, g3, g4}
    CpuBlocks = {c1, c2, c3}
    WatermarkBlocks = 0
    BlockSlidingWindow = 0
SYMMETRY BlockSymmetry
INVARIANTS
    TypeOK
    RefCountExact
    NoBlockError
    ScheduledSlotIsExclusive
    TablesAreOnTheRightDevice
PROPERTIES
    SwapKeepsSharing
    AdmissionLeavesRoom
    ImplementsPool
CHECK_DEADLOCK FALSE
