SPECIFICATION FairSpec
CONSTANTS
    NLayer = 3
    Bufferless = {}
    Size <- MixedSize
    Cpu = Cpu
    Gpu = Gpu
    OtherGpus = {}
    MaxVram = 5
    MinFree = 2
    RestoreSetting = 4
    RestoreStep = 2
    Interval = 2
    CooldownDecodes = 2
    ManualCalls = FALSE
    MaxStack = 3
INVARIANTS
    UntouchedIsHomeOrParked
PROPERTIES
    NoBounce
    RotatesVictims
    CooldownRespected
    PressureIsRelieved
    ParkedLayersReturn
