SPECIFICATION Spec
CONSTANTS
    Kinds = {"svc"}
    NULL = NULL
    raised = raised
    raiser = raiser
    SvcTasks = {raised, raiser}
    Ssids = {ssy}
    Codes = {1}
    MaxFrames <- Frames3
    TexTasks = {raised}
    TexMasks <- AllOrNone
    BasePri <- Priorities
    BreakCalls = {"self"}
    MAX_PROCESSES = 4
    MAX_MEM_ALLOCS = 3
    MAX_DEVICES = 2
    MaxIds = 5
    Bases = {b1, b2, b3, b4}
    NBlks = {1, 2}
    BufSize = 3
    MaxSz = 4
    MaxBytes = 5
    PoolSize = 14
    Header = 2
    Sizes = {1, 2, 3, 5}
    Paths = {p, q}
    startup = p
    MAX_FS_FILES = 2
    MAX_RECS_PER_FILE = 1
    MAX_RECORD_SIZE = 2
    MAX_OPEN_RECS = 2
    FileSizes = {1, 2}
    SmpTasks = {u1, u2, u3}
    SmpSems = {s1}
    MaxSem = 2
INVARIANT BreakExclusive
