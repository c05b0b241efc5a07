CONSTANTS
    Servers = {s1, s2}
    Interfaces = {tun0}
    Tun = tun0
    Manager <- Linux
    Halves <- OneRoute
    Cidrs <- OneRoute
    Resolvers <- Nothing
    Covered = {}
    Lans = {home, cafe}
    Clients = {c1}
    Nobody = nobody
    MaxMishaps = 1
    MaxCrashes = 2
    MaxMoves = 1
    MaxSessions = 3
SPECIFICATION FairSpec
INVARIANTS
    MachineAccounted
    TunnelIsBacked
    SessionMirrorsTunnel
PROPERTIES
    CrashIsUndone
    EngineDeathNoticed
