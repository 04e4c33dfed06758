SPECIFICATION Spec
CONSTANTS
    s1 = s1  s2 = s2  u1 = u1  u2 = u2  u3 = u3  u4 = u4  u5 = u5  u6 = u6
    Sessions = {s1}
    Present = {s1}
    Updates = {u1, u2, u3, u4, u5, u6}
    AuthorOf <- SixByOne
    Threshold = 5
    MaxInFlight = 2
    Leavers = {}
    Droppers = {}
PROPERTIES CompactionKeepsContent
CHECK_DEADLOCK FALSE
