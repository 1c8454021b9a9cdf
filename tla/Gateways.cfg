SPECIFICATION MCFairSpec
CONSTANTS
    u1 = u1
    u2 = u2
    c1 = c1
    c2 = c2
    q1 = q1
    q2 = q2
    x1 = x1
    s1 = s1
    s2 = s2
    d1 = d1
    d2 = d2
    w1 = w1
    w2 = w2
    None = None
    Users = {u1}
    Channels = {c1, c2}
    QQBots = {q1, q2}
    WeixinBots = {x1}
    Secrets = {s1}
    Dialogs = {d1}
    Workers = {w1, w2}
    MaxChannels = 1
    MaxSessions = 1
    MaxWorkers = 1
    MaxActs = 1
    MaxFailedSaves = 1
INVARIANTS
    OnlineShows
PROPERTIES
    QQServed
CHECK_DEADLOCK FALSE
