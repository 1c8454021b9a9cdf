SPECIFICATION MCSpec
CONSTANTS
    a1 = a1
    here = here
    there = there
    h1 = h1
    Nothing = Nothing
    Accounts = {a1}
    Zones <- TwoZones
    Date <- Dates
    Clock <- Clocks
    SiteSchedules <- TwoSchedules
    OwnTimes <- TwoTimes
    Puts = {h1}
    MaxTime = 3
    MaxEdits = 1
    MaxFailedSaves = 1
    MaxRestarts = 1
    u1 = u1
    u2 = u2
    c1 = c1
    c2 = c2
    q1 = q1
    x1 = x1
    s1 = s1
    d1 = d1
    d2 = d2
    None = None
    Users = {u1, u2}
    Channels = {c1, c2}
    QQBots = {q1}
    WeixinBots = {x1}
    Secrets = {s1}
    Dialogs = {d1, d2}
    MaxChannels = 2
    MaxSessions = 1
    MaxActs = 1
INVARIANTS
    NoLostWakeup
    QQBotsUnique
PROPERTIES
    OnceADay
    OwnTimeIsServed
    QuietAfterStop
    BindsWhatWasSeen
CHECK_DEADLOCK FALSE
