CONSTANTS
    r1 = r1
    r2 = r2
    r3 = r3
    c = c
    d = d
    p = p
    Runs = {r1, r2}
    Chats = {c, d}
    Places = {p}
    ChatOf <- TwoChats
    Wanted <- FirstWants
    Workspaces <- Contents
    Empty <- NoRuns
    FilesOf <- FilesOfChats
    MaxFaults = 1
    MaxOpens = 2
    None = None
SPECIFICATION Spec
INVARIANTS NothingLost
CHECK_DEADLOCK FALSE
