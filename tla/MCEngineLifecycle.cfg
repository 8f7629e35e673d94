SPECIFICATION Spec
CONSTANTS
    a1 = a1
    a2 = a2
    Addresses <- MCAddresses
    Null = Null
INVARIANTS
    TypeOK
    ReleasesLive
    CodeOutlivesModule
    NothingLeaks
    HandleIsWhole
PROPERTIES
    CreateReturns
