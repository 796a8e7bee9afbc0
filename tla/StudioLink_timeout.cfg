CONSTANTS
    e1 = e1
    e2 = e2
    s1 = s1
    c1 = c1
    r1 = r1
    r2 = r2
    g1 = g1
    g2 = g2
    g3 = g3
    Sessions <- OneEdit
    Phys <- PhysOf
    Kind <- KindOf
    Places = {"p"}
    Requests = {r1}
    Gens = {g1, g2, g3}
    MaxClients = 0
    MaxStreams = 2
    MaxTerminal = 2
    MaxFaults = 2
    NoTarget = NoTarget
    NoGen = NoGen
    NoOwner = NoOwner
SPECIFICATION LinkSpec
INVARIANT PlainTimeoutRanNothing
CHECK_DEADLOCK FALSE
