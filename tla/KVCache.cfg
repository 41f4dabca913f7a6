SPECIFICATION Spec
CONSTANTS
    a = a
    c = c
    d = d
    Requests <- MCRequests
    Seqs <- MCSeqs
    Owner <- MCOwner
    First <- MCFirst
    BeamRequests = {"h"}
    Prompts <- MCPrompts
    Vocabulary <- MCVocabulary
    MaxLen <- MCMaxLen
    BlockSize = 3
    GpuBlocks = {g1, g2, g3}
    CpuBlocks = {c1, c2}
    WatermarkBlocks = 0
    NumSpeculativeTokens = 2
    DraftMaxModelLen = 8
SYMMETRY BlockSymmetry
INVARIANTS
    KVCacheTypeOK
    TablesHoldTheirTokens
    ComputedBlocksAreStored
    OneBlockPerHash
    CountsMatchTables
    SlotsArePromisedOnce
    DraftCacheHoldsTheTokens
CHECK_DEADLOCK FALSE
