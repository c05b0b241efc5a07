CONSTANTS
    Srcs = {a, b, c}
    Dsts = {d, e}
    BadDsts = {e}
    Handles = {h1, h2, h3}
    MaxPending = 2
    ChannelDepth = 0
    ChunkLen = 1
    TxCap = 1
    RxCap = 0
    HandshakeTimeout = 2
    ShutdownTimeout = 1
    TimeWaitTimeout = 1
    MaxSyns = 4
    BusyTasks = {}
SPECIFICATION Spec
INVARIANTS
    TablesAgree
    FlowIsItsConnection
    NoOverdueDeadline
SYMMETRY Symmetry
