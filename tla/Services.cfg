SPECIFICATION Spec
CONSTANTS
    p1 = p1  p2 = p2  s1 = s1  s2 = s2  r1 = r1  r2 = r2  l1 = l1  l2 = l2
    n1 = n1  n2 = n2  n3 = n3
    AlertWorkers = {w1, w2}  Mortal = {w2}  Poll = 2  Jitter = 1  Grace = 5  Lookahead = 1
    AlertStall = 1  MaxRound = 1  EventStarts = {1}  Leads = {0}
    Default = Default  Silent = Silent  Moves = FALSE  Horizon = 8  MaxEdits = 1
    PoolProcs = {p1, p2}  Sessions = {s1, s2}  HomeOf <- HomeOfTwo
    Beat = 1  ReapAfter = 2  UsageAfter = 1  MaxOpen = 1  MaxUses = 1  MaxCrashes = 1
    Requests = {r1, r2}  Logins = {l1, l2}  LoginLimit = 1
    MaxSessions = 3  MaxTokens = 2  MaxFaults = 1
    Writers = {w1, w2, w3}  Lists <- ThreeLists  Unknown = None
    Dirs = {d1, d2, d3}  Files = {f1}  Root = Root  NoRow = None
    Movers = {m1}  Deleters = {x1}  Filers = {v1}
    Checkers = {p1, p2}  MaxLimited = 2  Window = 4  BucketSize = 2
    CheckStall = 2  LastTime = 6  MaxAttempts = 5
    MaxCalls = 2  Apis = {"chat", "responses"}  RealtimeSaves = {TRUE, FALSE}
    IterationLimit = 2  MaxRetries = 1  MaxItems = 2  MaxContinues = 1
    LockProcs = {p1, p2}  NoOwner = None  Timeout = 6  Period = 1  Attempts = 3
    RetryDelays = {3, 4, 6}  LockStall = 7
SYMMETRY Symmetry
INVARIANTS TypeOK NotMissed LiveIsKnown ClosedIsForgotten SessionsStayBounded RefusedOnlyInRace AgreedIsStored NoCycle WindowIsLimited
    RequestsArePaired RunsOnce KeptUnlessCut
PROPERTIES LoggedOutStaysOut CommonStays SkipsOnlyForTheLiving
CHECK_DEADLOCK FALSE
