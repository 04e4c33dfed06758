SPECIFICATION DocumentsSpec
CONSTANTS
    s1 = s1  s2 = s2  u1 = u1  u2 = u2  u3 = u3  u4 = u4
    f1 = f1  f2 = f2  c1 = c1  c2 = c2  Blank = Blank
    Sessions = {s1, s2}
    Present = {s1}
    Updates = {u1, u2, u3, u4}
    AuthorOf <- LastByOther
    Threshold = 4
    MaxInFlight = 1
    Leavers = {s1, s2}
    Droppers = {s2}
    Files = {f1, f2}  Contents = {c1, c2}  Listed = {f1}  FirstContent <- FirstContents
    Kinds = {"attach", "upload", "add", "retry", "batch", "readd", "content", "empty", "remove",
             "discard", "delete", "reset", "reindex"}
    MaxRequests = 3  MaxRacing = 2  MaxAtOnce = 2  MaxFaults = 1
INVARIANTS DocumentsTypeOK EditsAreKept RoomIsUpToDate ClosedMemberIsNoUser ListStaysShort
    UsableWhileUpdated IndexIsCurrent
CHECK_DEADLOCK FALSE
