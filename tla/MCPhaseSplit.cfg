SPECIFICATION FairSpec
CONSTANTS
    r1 = r1
    r2 = r2
    Runner = {r1, r2}
    PortBase <- Disjoint
    MaxRuns <- TwiceAndOnce
    None = None
\* The script may have been run for the last time (MaxRuns).
CHECK_DEADLOCK FALSE
INVARIANTS
    OwnServerAnswers
    NoServerLeft
    OneServerAtATime
PROPERTIES
    RunEnds
