CONSTANTS
    r1 = r1
    r2 = r2
    r3 = r3
    c = c
    d = d
    p = p
    Runs = {r1, r2, r3}
    Chats = {c, d}
    Places = {p}
    ChatOf <- TwoChats
    Wanted <- FirstWants
    Workspaces <- Contents
    Empty <- NoRuns
    FilesOf <- FilesOfChats
    MaxFaults = 2
    MaxOpens = 3
    None = None
SPECIFICATION Spec
CONSTRAINT TwoRuns
ACTION_CONSTRAINT Quiet
INVARIANTS RecordsTypeOK HoldsAreExact NothingLost RecordedOnce AlwaysLoadable
CHECK_DEADLOCK FALSE
