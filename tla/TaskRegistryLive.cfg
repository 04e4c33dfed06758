SPECIFICATION FairSpec
CONSTANTS
    i1 = i1  i2 = i2  c1 = c1  r1 = r1  r2 = r2  t1 = t1  t2 = t2
    Instances = {i1}
    Chats = {c1}
    Requests = {r1}
    Tasks = {t1}
    HomeOf <- HomeOfOne
    ChatOf <- ChatOfOne
    RequestOf <- LoneTask
    NoItem = NoItem
    MaxStops = 2
    MaxFaults = 0
PROPERTIES StopEndsTask EndedIsForgotten
CHECK_DEADLOCK FALSE
