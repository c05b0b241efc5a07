CONSTANTS
    Srcs = {a}
    Dsts = {d}
    BadDsts = {}
    Handles = {h1}
    MaxPending = 1
    ChannelDepth = 1
    ChunkLen = 3
    TxCap = 2
    RxCap = 2
    HandshakeTimeout = 1
    ShutdownTimeout = 2
    TimeWaitTimeout = 1
    MaxSyns = 2
    BusyTasks = {h1}
SPECIFICATION FairSpec
INVARIANTS
    EndAfterData
PROPERTIES
    OnlyFinishedFlowsAborted
    GracefulEndLosesNothing
    EverythingReclaimed
