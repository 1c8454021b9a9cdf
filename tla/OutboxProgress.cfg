CONSTANTS
    u1 = u1
    u2 = u2
    c1 = c1
    c2 = c2
    e1 = e1
    e2 = e2
    w1 = w1
    w2 = w2
    Users <- OneUser
    Channels <- OneChannel
    Events <- OneEvent
    Workers <- OneWorker
    OwnerOf <- OwnedByOne
    ManualEvents <- OneEvent
    Kinds <- AllKinds
    TestedChannels <- OneChannel
    Capacity = 1
    BatchSize = 1
    ReminderLimit = 1
    MaxNotices = 2
    MaxReminders = 1
    MaxRevision = 2
    MaxFailedSaves = 0
    MaxRestarts = 1
SPECIFICATION FairSpec
PROPERTIES
    DeliveriesSettle
    RemindersDecided
CHECK_DEADLOCK FALSE
