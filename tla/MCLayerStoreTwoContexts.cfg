SPECIFICATION Spec
CONSTANTS
    NLayer = 2
    Weight = {w1, w2}
    Bufferless = {}
    Cpu = Cpu
    Gpus = {Gpu}
    Context = {c1, c2}
    MaxEntries = 6
SYMMETRY Symmetry
INVARIANTS
    GraphIsCurrent
