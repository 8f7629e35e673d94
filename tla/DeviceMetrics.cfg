SPECIFICATION Spec
CONSTANTS
    MaxRuns = 3
    MaxVersions = 2
INVARIANTS
    TypeOK
    HostsAgree
    MeasuresOwnBuild
    SummaryOfOneRun
CHECK_DEADLOCK FALSE
