SPECIFICATION Spec
CONSTANTS
    MaxRuns = 2
    MaxVersions = 1
INVARIANTS
    IosFieldsStayNull
CHECK_DEADLOCK FALSE
