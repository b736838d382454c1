SPECIFICATION Spec
CONSTANTS
    Tasks = {t1, t2, t3}
    NULL = NULL
    NUM_PRI = 2
    Locks = {a, b}
    SliceTimes = {}
    MaxCount = 1
SYMMETRY Symmetry
INVARIANT OneReadyKlocked
