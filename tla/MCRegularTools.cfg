SPECIFICATION ToolsSpec
CONSTANTS
    MaxInput = 6
    MaxOutput = 4
    MaxReordered = 3
    Newline = "nl"
    ErrorToken = "ERROR"
    SizeModulus = 1000
    MaxTokens = 6
    Symbols <- Symbols0
    RuleSets <- RuleSets0
    Tokenizers <- TokenizersOfRules
    Texts <- Texts0
    Regexes <- Regexes0
CHECK_DEADLOCK FALSE
INVARIANTS
    ConstructionsAreExact
    StagesKeepTheRelation
    MinimalIsMinimal
    VerdictsAreRight
    SubsequentialKeepsTheFunction
    TokensTileTheText
    LongestMatchFirstRule
PROPERTY
    LexEnds
