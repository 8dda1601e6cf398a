CONSTANTS
    a = a
    b = b
    Types <- TwoTypes
    Tokens <- TwoTokens
SPECIFICATION Spec
SYMMETRY Symmetry
INVARIANTS
    TypeOK
    IndexNamesMember
PROPERTIES
    GradingNeverDrops
    ImplementsGraded
