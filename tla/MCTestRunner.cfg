SPECIFICATION Spec
CONSTANTS
    Invocations <- MCInvocations
    MaxUnsigned = 100
    MaxInt = 50
    MaxRuns = 12
INVARIANTS
    RunsWhatWasAsked
    EveryPathOnce
    VerdictsAreKept
    ReportsAgree
PROPERTY
    RunEnds
CHECK_DEADLOCK FALSE
