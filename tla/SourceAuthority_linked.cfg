CONSTANTS
    a = a
    b = b
    c = c
    Procs = {a, b, c}
    Defaults = {c}
    MaxScopes = 1
    MaxQueue = 2
    MaxOps = 2
    MaxFaults = 2
    None = None
SPECIFICATION FairSpec
ACTION_CONSTRAINT Cast
INVARIANT LinkedCallsGoThrough
CHECK_DEADLOCK FALSE
