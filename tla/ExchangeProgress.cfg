CONSTANTS
    p1 = p1
    p2 = p2
    a1 = a1
    g1 = g1
    g2 = g2
    NoPlan = NoPlan
    Plans <- TwoPlans
    Accounts <- OneAccount
    Goods <- TwoGoods
    AccountOf <- SameAccount
    GoodsOf <- DifferentGoods
    RetryWindowOn = TRUE
    MaxAttempts = 1
    EditedPlans <- NoPlans
    MaxRevision = 2
    MaxFailedSaves = 0
    MaxCrashes = 1
SPECIFICATION FairSpec
INVARIANTS
    OneRequestPerAccount
PROPERTIES
    RunsEnd
    RunningSettles
CHECK_DEADLOCK FALSE
