SPECIFICATION Spec
CONSTANTS
    Width = 4
    MemorySizes <- MCMemorySizes
    InitialSize = 4
    RequestLens <- MCRequestLens
    ResponseLens <- MCResponseLens
    MaxFaults = 2
INVARIANTS
    TypeOK
    CopiesInLiveBlock
    FreesLiveBlock
    OnlyFailuresLeak
    ResultsReadInTime
    ResponseXorError
    RefusesOnlyOversized
PROPERTIES
    EveryCallReturns
