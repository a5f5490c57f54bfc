SPECIFICATION ToolsSpec
CONSTANTS
    Eps = "eps"
    Mark = "mark"
    Eof = "#"
    Grammars <- LLGrammars
    AnyGrammars <- SmallGrammars
    Idle = Idle
    MaxRoom = 3
    MaxCalls = 3
    SizeModulus = 8
    Expressions <- MCExpressions
    Texts <- MCTexts
    MaxWord = 4
    MaxDescribed = 5
    Foreign = {"z"}
    MaxProductions = 5
CHECK_DEADLOCK FALSE
INVARIANTS
    TablesAreDerivable
    DerivationIsKept
    RejectsOnlyMistakes
    TreeIsDerivation
    AcceptsTheExpression
    ParsedMeansText
    ItemsAreValid
    GeneratesItsLanguage
PROPERTIES
    CallsEnd
