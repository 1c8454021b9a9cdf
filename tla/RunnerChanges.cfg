SPECIFICATION FairSpec
CONSTANTS
    a1 = a1
    a2 = a2
    manual1 = manual1
    daily = daily
    nothing = nothing
    games = games
    bbs = bbs
    None = None
    Accounts = {a1}
    Batches = {manual1, daily}
    Automatic = {daily}
    Works = {nothing, games, bbs}
    NoWork = nothing
    DefaultWork = games
    MaxRequests = 2
    MaxChanges = 1
    MaxFailedSaves = 1
INVARIANTS
    StaleIsStopped
    LateByOne
    CookieIsOwn
    ReservationsHeld
    StopIsFinal
PROPERTIES
    BatchesEnd
CHECK_DEADLOCK FALSE
