CONSTANTS
    Flows = {f1, f2}
    Dns = dns
    AcceptDepth = 1
    UdpDepth = 1
    DrainBatch = 1
    MaxWaitFailures = 2
    MaxQueries = 0
    MayBreak = FALSE
SPECIFICATION FairSpec
PROPERTIES
    HandOverIsFifo
    StreamChangesSeen
    AllStopTogether
    BacklogDrains
CHECK_DEADLOCK FALSE
