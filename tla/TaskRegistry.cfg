SPECIFICATION Spec
CONSTANTS
    i1 = i1  i2 = i2  c1 = c1  r1 = r1  r2 = r2  t1 = t1  t2 = t2
    Instances = {i1, i2}
    Chats = {c1}
    Requests = {r1, r2}
    Tasks = {t1, t2}
    HomeOf <- HomeOfTwo
    ChatOf <- ChatOfTwo
    RequestOf <- OneTaskEach
    NoItem = NoItem
    MaxStops = 1
    MaxFaults = 1
SYMMETRY InstanceSymmetry
INVARIANTS TypeOK RunningIsRegistered UnlistedOnlyIfCancelled ItemSetInHash
CHECK_DEADLOCK FALSE
