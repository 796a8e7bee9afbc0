CONSTANTS
    s1 = s1
    c1 = c1
    c2 = c2
    Sessions <- OnePlayer
    Phys <- OnePlayerPhys
    Kind <- OnePlayerKind
    Places = {"p", "q"}
    Requests = {}
    Gens = {1}
    MaxClients = 1
    MaxStreams = 1
    MaxCalls = 2
    Leavers = {c1}
    MaxFaults = 1
    NoTarget = NoTarget
    NoGen = NoGen
    NoOwner = NoOwner
    NoCall = NoCall
SPECIFICATION FairClientSpec
INVARIANTS ClientTypeOK OneLoop NeverForgotten KnownWhileOpen CarriedByRegistered
PROPERTIES EachPlayerRegisters
CHECK_DEADLOCK FALSE
