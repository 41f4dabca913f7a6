SPECIFICATION AsyncSpec
CONSTANTS
    Requests <- MCRequests
    MaxAttempts <- MCMaxAttempts
    MaxOutputs = 2
INVARIANTS
    AsyncTypeOK
    EngineRequestsAreRegistered
    NoStreamIsCutShort
PROPERTIES
    AbortTakesEffectNextStep
    EveryStreamIsServed
CHECK_DEADLOCK FALSE
