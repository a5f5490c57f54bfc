SPECIFICATION Spec
CONSTANTS
    Procs = {p1, p2}
    Parent = parent
    Programs <- MCPrograms
    TextLength = 5
    BufferSize = 2
    PipeCapacity = 3
CHECK_DEADLOCK FALSE
INVARIANTS
    StreamsAreWhole
PROPERTY
    EndsOrHangs
