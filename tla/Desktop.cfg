SPECIFICATION MCSpec
CONSTANTS
    Kinds = {"windows", "input", "editor", "menu"}
    WND = {w1, w2, w3}
    NULL = NULL
    EVT <- EventTypes
    EVENT_QUEUE_SIZE = 2
    NumButtons = 2
    Letters = {"a", "b"}
    Words <- Dictionary
    TIP_MAX_CLAUSES = 2
    TIP_MAX_STR_LEN = 7
    MaxCommit = 11
    MaxRomaji = 4
    MaxReading = 4
    Chars = {"a"}
    NUL = NUL
    NL = NL
    TEDITOR_MAX_COLS = 4
    TEDITOR_MAX_LINES = 3
    ClipSize = 5
    Commits <- Typed
    Files <- Documents
    Menus <- MenuBar
    SubItems = {0, 1}
SYMMETRY Symmetry
CONSTRAINT BeginsWithWord
INVARIANTS
    TypeOK
    WindowsExact
    NoStuckGesture
    CompositionExact
    CaretInside
    CutPasteRestores
    MenuExact
PROPERTY FifoSpec
