SPECIFICATION Spec
CONSTANTS
    a1 = a1
    a2 = a2
    manual1 = manual1
    daily = daily
    nothing = nothing
    games = games
    bbs = bbs
    None = None
    Accounts = {a1, a2}
    Batches = {daily}
    Automatic = {daily}
    Works = {nothing, games}
    NoWork = nothing
    DefaultWork = games
    MaxRequests = 0
    MaxChanges = 1
    MaxFailedSaves = 0
INVARIANTS
    BatchServesAll
CHECK_DEADLOCK FALSE
