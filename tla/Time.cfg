SPECIFICATION Spec
CONSTANTS
    Kinds = {"sleep", "event", "handlers"}
    NULL = NULL
    Tasks = {t1, t2}
    Cycs = {c}
    Alms = {a}
    TIMER_PERIOD = 2
    MaxNest = 2
    Evts = {"e1", "e2"}
    Timeouts = {1, 2}
    WUP_MAX = 2
    DisMasks <- Masks
    CycKinds <- Cycles
    AlmTimes = {0, 1, 3}
INVARIANTS
    TypeOK
    TimerQueueTrue
    NobodyWaitsInVain
    HandlerTimesTrue
PROPERTIES
    OnTime
    TimedWaitsEnd
