SPECIFICATION MCSpec
CONSTANTS
    u1 = u1
    u2 = u2
    c1 = c1
    None = None
    Users = {u1, u2}
    Codes = {c1}
    Requests = {one, two}
    UseLimits = {0, 1}
    MaxSessions = 2
    MaxPasswords = 1
    MaxFailedSaves = 1
    one = one
    two = two
    k1 = k1
    k2 = k2
    Nothing = Nothing
    Readers = {one, two}
    Credentials = {k1, k2}
    MaxActive = 2
    Interval = 1
    Block = 2
    Fresh = 2
    MaxEdits = 2
    MaxClock = 3
    NoPlan = NoPlan
    Plans = {one, two}
    Ms = 2
    Second = 4
    Cooldown = 4
    Timeout = 3
    Stale = 6
    Lead = 3
    Window = 4
    Sale = 8
    Skews <- MCSkews
    MaxTime = 16
INVARIANTS
    AdminRemains
    SessionsHonest
    InvitesCount
    RecordsHonest
PROPERTIES
    AnswersCurrent
    OneAfterAnother
    SaleNotEarly
SYMMETRY Symmetry
CHECK_DEADLOCK FALSE
