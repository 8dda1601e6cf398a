CONSTANTS
    Half = 8
    Numbers <- Pairs
    gcd <- GreatestCommonDivisor
    zero = zero
    other = other
    maximum = 7
    Doubles <- TwoDoubles
    ZeroDouble = zero
    Spelled <- Bounds
    MaxDepth = 3
    MaxTokens = 2
SPECIFICATION ExamplesSpec
INVARIANTS
    TypeOK
    Canonical
    Exact
    Deserved
    CalculatorTypeOK
PROPERTIES
    ExactOrRefused
    OperandsOnly
