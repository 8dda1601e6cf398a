SPECIFICATION Spec
CONSTANTS
    x = x
    y = y
    v1 = v1
    v2 = v2
    hollow = hollow
    Hollow = hollow
    Objects <- MCObjects
    Values <- MCValues
    Profiles <- AllProfiles
INVARIANTS
    TypeOK
    NeverValueless
    NoLifetimeFault
    ExceptionGuarantee
    NoexceptHonest
PROPERTIES
    ImplementsExpected
