SPECIFICATION SystemSpec
CONSTANTS
    Width = 4
    MemorySizes <- MCMemorySizes
    InitialSize = 4
    RequestLens <- MCRequestLens
    ResponseLens <- MCResponseLens
    MaxFaults = 2
    Strings <- MCStrings
    Blanks <- MCBlanks
    Scalars <- MCScalars
    Requests <- MCRequests
    Malformed <- MCMalformed
    Texts <- MCTexts
    Parsed <- MCParsed
    TextLength <- MCTextLength
    AnswerLength <- MCAnswerLength
    NoText = NoText
    Blank = Blank
    matching = matching
    passing = passing
    nonsense = nonsense
    empty = empty
    oversized = oversized
INVARIANTS
    SystemTypeOK
    RequestReachesCore
    ResponseIsVerdict
PROPERTIES
    ImplementsFlagCall
    EveryRequestReturns
    CallComesCloser
