SPECIFICATION Spec
CONSTANTS
    NLayer = 3
    Weight = {w1, w2}
    Bufferless = {1}
    Cpu = Cpu
    Gpus = {Gpu, Gpu2}
    Context = {c1}
    MaxEntries = 9
SYMMETRY Symmetry
INVARIANTS
    WeightsReachable
    DeviceMemoryReleased
    NoReadOfReleasedBuffer
    GraphIsCurrent
