SPECIFICATION Spec
CONSTANTS
    Symbols <- MCSymbols
    Inputs <- MCInputs
    Values = {v1, v2}
    Operands = {o1}
    NoOperand = NoOperand
    MaxIds = 4
    MaxPool = 4
    MaxTemps = 2
SYMMETRY Symmetry
INVARIANTS
    OneIdPerWord
    NoOrphanSymbols
PROPERTY
    ImplementsFreeMonoid
