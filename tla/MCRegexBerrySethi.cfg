SPECIFICATION PipelineSpec
CONSTANTS
    MaxInput = 3
    MaxOutput = 4
    MaxReordered = 3
    Regexes <- Regexes0
CHECK_DEADLOCK FALSE
INVARIANT BerrySethiIsExact
