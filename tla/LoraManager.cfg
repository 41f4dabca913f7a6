SPECIFICATION LoraSpec
CONSTANTS
    Loras = {1, 2, 3, 4}
    MaxLoras = 2
    MaxCpuLoras = 3
    Mappings <- MCMappings
INVARIANTS
    SlotsHoldTheirLoras
    BatchUsesItsLoras
CHECK_DEADLOCK FALSE
