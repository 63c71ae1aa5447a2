SPECIFICATION Spec
CONSTANTS
    Client = {c1, c2}
    Request = {r1, r2}
    v1 = v1
    v2 = v2
    Version = {v1}
    SizeOf <- OneSize
    NoFile = NoFile
    Truncated = Truncated
    Garbage = Garbage
    NoJob = NoJob
    Serial = FALSE
    Crashes = TRUE
    DropPlanned = TRUE
    Unregistered = TRUE
    CarelessDeletes = TRUE
    CarelessReplaces = FALSE
SYMMETRY Symmetry
\* An index that is not valid JSON stops all commands for good.
CHECK_DEADLOCK FALSE
INVARIANTS
    RestoresItsPrompt
