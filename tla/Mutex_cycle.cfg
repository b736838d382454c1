SPECIFICATION Spec
CONSTANTS
    Tasks = {t1, t2}
    NULL = NULL
    Mutexes = {1, 2}
    NUM_PRI = 2
    INI_PRI = 1
    Attributes <- InheritOnly
    Nested = FALSE
SYMMETRY Symmetry
INVARIANT QueuedTasksWait
