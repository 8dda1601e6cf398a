CONSTANTS
    Types <- TwoTypes
    Operands <- OperandTypes
    MaxOperands = 3
SPECIFICATION Spec
CHECK_DEADLOCK FALSE
INVARIANTS
    TypeOK
    ContentFits
    FoldsAssociate
PROPERTY
    ImplementsSemiring
