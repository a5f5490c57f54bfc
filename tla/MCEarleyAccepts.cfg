SPECIFICATION ToolsSpec
CONSTANTS
    Eps = "eps"
    Mark = "mark"
    Eof = "#"
    Grammars = {}
    AnyGrammars <- SmallGrammars
    Idle = Idle
    MaxRoom = 3
    MaxCalls = 3
    SizeModulus = 8
    Expressions = {}
    Texts = {}
    MaxWord = 4
    MaxDescribed = 5
    Foreign = {"z"}
    MaxProductions = 5
CHECK_DEADLOCK FALSE
INVARIANT
    AcceptsOnlyWords
