SPECIFICATION Spec
CONSTANTS
    NPredict = 4
    Slack = 1
    MinCtx = 2
    MaxPieces = 2
    CtxSizes = {0, 4}
    Encoders = {}
\* A run ends.
CHECK_DEADLOCK FALSE
INVARIANTS
    ContextsHoldTheText
    RoomSuffices
PROPERTIES
    TextSpec
