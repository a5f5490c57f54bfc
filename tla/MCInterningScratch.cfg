SPECIFICATION Spec
CONSTANTS
    Symbols <- MCSymbols
    Inputs <- MCInputs
    Values = {v1}
    Operands = {o1, o2}
    NoOperand = NoOperand
    MaxIds = 3
    MaxPool = 2
    MaxTemps = 3
SYMMETRY Symmetry
INVARIANTS
    CountMatchesTemporaries
    NoDanglingSlice
PROPERTY
    OperationsCompute
