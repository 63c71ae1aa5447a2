SPECIFICATION Spec
CONSTANTS
    Client = {c1, c2}
    Request = {r1, r2}
    v1 = v1
    v2 = v2
    Version = {v1, v2}
    SizeOf <- DistinctSizes
    NoFile = NoFile
    Truncated = Truncated
    Garbage = Garbage
    NoJob = NoJob
    Serial = TRUE
    Crashes = FALSE
    DropPlanned = FALSE
    Unregistered = FALSE
    CarelessDeletes = FALSE
    CarelessReplaces = FALSE
SYMMETRY Symmetry
INVARIANTS
    ReuseMatchesModel
    ExistingSlotIsOffered
