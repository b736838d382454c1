SPECIFICATION Spec
CONSTANTS
    Tasks = {t1, t2, t3}
    NULL = NULL
    Mutexes = {1, 2}
    NUM_PRI = 3
    INI_PRI = 2
    Attributes <- Protocols
    Nested = TRUE
SYMMETRY Symmetry
INVARIANTS
    TypeOK
    MutexesExact
    PriorityExact
    CeilingRespected
