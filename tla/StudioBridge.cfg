CONSTANTS
    e1 = e1
    s1 = s1
    s2 = s2
    r1 = r1
    r2 = r2
    g1 = g1
    g2 = g2
    Sessions <- ServersSessions
    Phys <- ServersPhys
    Kind <- ServersKind
    Places = {"p", "q"}
    Requests = {r1, r2}
    Gens = {g1, g2}
    MaxClients = 0
    MaxStreams = 2
    NoTarget = NoTarget
    NoGen = NoGen
    NoOwner = NoOwner
SPECIFICATION Spec
SYMMETRY Symmetry
INVARIANTS TypeOK OneSessionPerTarget NoStrandedClaim OwnersMatchStreams
PROPERTIES NoSecondDelivery NoLostWakeup TakeoverInheritsNothing
