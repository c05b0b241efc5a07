CONSTANTS
    Flows = {1, 2, 3}
    Queries = {11, 12}
    NServers = 2
    MaxFlows = 1
    MaxDns = 1
    QueryTimeout = 1
    ConnectTimeout = 2
    PermitTimeout = 3
SPECIFICATION FairSpec
INVARIANTS
    PermitsAccounted
    DnsNotStarvedByFlows
PROPERTIES
    WaitsEnd
CHECK_DEADLOCK FALSE
