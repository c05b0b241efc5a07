SPECIFICATION DatagramSpec
CONSTANTS
    a1 = a1
    a2 = a2
    s1 = s1
    s2 = s2
    Apps = {a1, a2}
    Servers = {s1, s2}
    Lengths <- AnswerLengths
    Mtus <- DeviceMtus
    UdpDepth = 1
    MaxSent = 3
SYMMETRY Symmetry
CHECK_DEADLOCK FALSE
INVARIANTS
    RepliesFit
    AnsweredOnce
