CONSTANTS
    Flows = {f1}
    Dns = dns
    AcceptDepth = 1
    UdpDepth = 1
    DrainBatch = 1
    MaxWaitFailures = 2
    MaxQueries = 1
    MayBreak = TRUE
SPECIFICATION FairSpec
INVARIANTS
    NoLostWakeup
    FinishedEngineServedAll
    FailingDeviceNeverSpins
PROPERTIES
    PacketsRead
