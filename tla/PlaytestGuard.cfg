CONSTANTS
    v = v
    w = w
    f = f
    g = g
    Windows = {v, w}
    Places = {"A", "B"}
    Files = {f, g}
    Scripts <- ScriptsOf
    Starts = {"s"}
    MaxEntries = 2
    MaxTexts = 2
    MaxMoves = 2
    Missing = Missing
    Unread = Unread
    Nothing = Nothing
SPECIFICATION FairSpec
ACTION_CONSTRAINT Cast
INVARIANT GuardTypeOK
PROPERTIES StartsAreSynced SavesAreBarred NothingStaysBarred
CHECK_DEADLOCK FALSE
