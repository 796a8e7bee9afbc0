CONSTANTS
    a = a
    b = b
    c = c
    p = p
    q = q
    Writers = {a, b, c}
    Procs = {p, q}
    Proc <- ProcOf
    Unverified = {q}
    MaxEdits = 1
    MaxFaults = 2
    Initial = Initial
    NoOne = NoOne
    Left = Left
    NoLease = NoLease
SPECIFICATION FairSpec
ACTION_CONSTRAINT Cast
INVARIANTS SourceTypeOK HeldAtRename
PROPERTIES NoLostUpdate LeaseReturned
CHECK_DEADLOCK FALSE
