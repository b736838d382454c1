SPECIFICATION Spec
CONSTANTS
    Kinds = {"flg", "mbx", "mpf", "sem", "mbf", "mpl", "por"}
    Tasks = {t1, t2, t3}
    NULL = NULL
    NUM_PRI = 2
    INI_PRI = 1
    Attributes <- SomeAttributes
    Bits = {1, 2}
    Modes <- TwoModes
    m1 = m1
    m2 = m2
    m3 = m3
    Msgs = {m1, m2, m3}
    MsgPri <- Priorities
    MaxBlocks = 2
    MaxSem = 2
    HEADERSZ = 4
    BufSizes = {0, 16}
    small = small
    large = large
    MbfMsgs = {small, large}
    MsgSz <- Sizes
    MplSizes = {8}
    BlkSizes = {2, 4}
    MinFragment = 2
    Ports = {p1, p2}
    CalPatterns = {{1}}
    AcpPatterns = {{1}, {2}}
    p1 = p1
    p2 = p2
    PortKinds <- OnePortEach
    MaxOdd = 2
CONSTRAINT OneMasked
SYMMETRY Symmetry
INVARIANTS
    TypeOK
    WaitQueueExact
    NobodyServable
    Conserved
    RendezvousExact
PROPERTY NoOvertaking
