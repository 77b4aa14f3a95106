SPECIFICATION Spec
CONSTANTS
    None = None
    c1 = c1
    c2 = c2
    u1 = u1
    a1 = a1
    a2 = a2
    a3 = a3
    bad = bad
    worse = worse
    Users = {u1}
    Conns = {c1, c2}
    UserOf <- MCUserOf
    Speeds = {0, 4}
    NodeSpeed = 0
    LimitSpeed = 1
    WarnTimes = 1
    MaxRetags = 1
    Addrs = {a1, a2, a3}
    Elsewhere = {a3}
    DeviceLimit = 1
    MaxFailures = 1
    MaxFills = 1
    Sites = {bad, worse}
    Forbidden = {bad, worse}
    Settings <- MCSettings
SYMMETRY Symmetry
CONSTRAINT Telling
INVARIANTS
    TypeOK
    RecordExplained
    InnocentNotLimited
    OnlineShareBucket
    GlobalBound
    HitAccounted
    EscapeHasCause
CHECK_DEADLOCK FALSE
