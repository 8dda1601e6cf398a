SPECIFICATION Spec
CONSTANTS
    x = x
    y = y
    r = r
    q = q
    v1 = v1
    v2 = v2
    Hollow = hollow
    Objects <- MCObjects
    Refs <- MCRefs
    Values <- MCValues
    Profiles <- AllProfiles
INVARIANTS
    TypeOK
    FlagTells
    NoLifetimeFault
PROPERTIES
    ImplementsOptional
    ImplementsOptionalLive
