CONSTANTS
    Daemons = {d1, d2, d3}
    Nobody = nobody
    User = user
    OtherUser = other
    MaxClients = 2
    Runs = {r1, r2, r3}
    Servers = {s1, s2}
    Interfaces = {r1, r2, r3}
    Halves <- OneHalf
    Cidrs <- OneCidr
    Resolvers <- TwoResolvers
    Covered <- FirstResolver
    Lans = {home}
SPECIFICATION Spec
INVARIANTS
    DaemonServesItsUser
    RunsKeptApart
    RunLeavesNothing
CONSTRAINT NoOverlap
SYMMETRY Symmetry
CHECK_DEADLOCK FALSE
