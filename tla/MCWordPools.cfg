SPECIFICATION PoolsSpec
CONSTANTS
    Symbols <- MCSymbols
    Words <- MCWords
    LiveIds = {x, y, z}
    a = a
    b = b
    Arcs = {a, b}
    States = {q}
    NoValue = NoValue
    Eps = Eps
    Sigma = {a, b}
    Texts <- MCTexts
    MaxLength = 2
    MaxWords = 3
    Alphabet <- MCSymbols
    Inputs <- MCInputs
    MaxIds = 4
    MaxSymbols = 4
SYMMETRY Symmetry
INVARIANTS
    SharingIsKept
    ContentIsKept
    OffsetIsRank
    LabelsKeepTheirWords
    IdsKeepTheirWords
CHECK_DEADLOCK FALSE
