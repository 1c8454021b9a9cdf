CONSTANTS
    u1 = u1
    u2 = u2
    c1 = c1
    c2 = c2
    e1 = e1
    e2 = e2
    w1 = w1
    w2 = w2
    Users <- OneUser
    Channels <- TwoChannels
    Events <- OneEvent
    Workers <- TwoWorkers
    OwnerOf <- OwnedByOne
    ManualEvents <- OneEvent
    Kinds <- CalendarOnly
    TestedChannels <- NoChannels
    Capacity = 3
    BatchSize = 2
    ReminderLimit = 2
    MaxNotices = 2
    MaxReminders = 2
    MaxRevision = 2
    MaxFailedSaves = 1
    MaxRestarts = 1
SPECIFICATION Spec
INVARIANTS
    SentOnce
    NoticedOnce
    TallyRight
    SendingIsHeld
PROPERTIES
    ImplementsPromise
CHECK_DEADLOCK FALSE
