CONSTANTS
    Types <- TwoTypes
    Tokens <- OneToken
    Branches <- BranchTypes
SPECIFICATION CallSpec
CHECK_DEADLOCK FALSE
INVARIANTS
    BindsAssociate
    NoexceptHonest
    NoexceptExact
