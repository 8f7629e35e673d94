SPECIFICATION Spec
CONSTANTS
    Text = Text
    MaxRules = 2
    Strings <- MCStrings
    Blanks <- MCBlanks
    Scalars <- MCScalars
    Requests <- MCRequests
    Malformed <- MCMalformed
INVARIANTS
    TypeOK
    NothingAppliedUnvetted
    AnswerIsVerdict
PROPERTIES
    ImplementsFlagEvaluation
    EveryCallReturns
