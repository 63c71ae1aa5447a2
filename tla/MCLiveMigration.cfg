SPECIFICATION Spec
CONSTANTS
    NLayer = 2
    Weight = {w1, w2}
    Bufferless = {}
    Cpu = Cpu
    Gpu = Gpu
    OtherGpus = {}
    Capacity = 4
    MaxEntries = 6
    MinFree = 1
    RestoreSetting = 3
    RestoreStep = 1
    Interval = 1
    CooldownDecodes = 1
    ManualCalls = TRUE
    MaxStack = 2
SYMMETRY Symmetry
INVARIANTS
    VramAccounted
    ParkedInHostMemory
    UntouchedIsHomeOrParked
PROPERTIES
    PolicySpec
