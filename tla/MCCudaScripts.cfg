SPECIFICATION Spec
CONSTANTS
    N = 4
    B = 2
    D = 2
    Replays = 2
    Threads = 2
    Empty = {2}
    Tensors = 2
    Programs <- AllScripts
CHECK_DEADLOCK FALSE
INVARIANTS
    DataIsCurrent
    TotalsAreWhole
    BuffersReleasedOnce
    NothingForgotten
PROPERTIES
    RunEnds
