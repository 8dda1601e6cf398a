SPECIFICATION Spec
CONSTANTS
    x = x
    y = y
    A = A
    B = B
    v1 = v1
    v2 = v2
    Hollow = hollow
    Objects <- MCObjects
    Alts <- MCAlts
    Values <- MCValues
    Profiles <- AllProfiles
INVARIANTS
    TypeOK
    NeverValueless
    NoLifetimeFault
    StrongGuarantee
    NoexceptHonest
    Delivers
