CONSTANTS
    s1 = s1
    c1 = c1
    c2 = c2
    Sessions <- TwoPlayers
    Phys <- TwoPlayersPhys
    Kind <- TwoPlayersKind
    Places = {"p"}
    Requests = {}
    Gens = {1}
    MaxClients = 2
    MaxStreams = 1
    MaxCalls = 2
    Leavers = {}
    MaxFaults = 1
    NoTarget = NoTarget
    NoGen = NoGen
    NoOwner = NoOwner
    NoCall = NoCall
SPECIFICATION FairClientSpec
PROPERTIES EachPlayerRegisters
CHECK_DEADLOCK FALSE
