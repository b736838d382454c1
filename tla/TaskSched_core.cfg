SPECIFICATION Spec
CONSTANTS
    Tasks = {t1, t2, t3}
    NULL = NULL
    NUM_PRI = 2
    Locks = {a, b}
    SliceTimes = {1}
    MaxCount = 2
CONSTRAINT OneSpecial
SYMMETRY Symmetry
INVARIANTS
    TypeOK
    ReadyQueueExact
    SchedtskRunnable
    TopPriorityScheduled
    KernelLockExact
    KlocktskHolds
    RunningReady
    SuspendCounted
