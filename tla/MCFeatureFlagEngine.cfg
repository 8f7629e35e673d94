SPECIFICATION Spec
CONSTANTS
    android = android
    package = package
    app = app
    a1 = a1
    a2 = a2
    Objects <- MCObjects
    Android <- MCAndroid
    Package <- MCPackage
    Addresses <- MCAddresses
    Null = Null
INVARIANTS
    TypeOK
    UsesOwnEngine
    EnginesAccounted
    BuffersReleased
PROPERTIES
    ImplementsFlagService
    EvaluateReturns
