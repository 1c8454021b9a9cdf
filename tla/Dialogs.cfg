SPECIFICATION LoginsSpec
CONSTANTS
    u1 = u1
    u2 = u2
    a1 = a1
    a2 = a2
    x = x
    y = y
    main = main
    d1 = d1
    d2 = d2
    p1 = p1
    None = None
    Users = {u1, u2}
    Ids = {a1, a2}
    Uids = {x, y}
    Names = {main}
    Dialogs = {d1, d2}
    Phones = {p1}
    MaxTries = 1
    MaxChallenges = 1
    MaxOpenings = 1
    MaxPreviews = 1
    MaxActs = 2
INVARIANTS
    AccountsSound
    RunningIsCarried
PROPERTIES
    NeverChangesHands
    OnlyWantedBind
SYMMETRY Symmetry
CHECK_DEADLOCK FALSE
