CONSTANTS
    a = a
    b = b
    Types <- TwoTypes
    Tokens <- TwoTokens
SPECIFICATION Spec
INVARIANTS
    ApplicableBindsCompile
