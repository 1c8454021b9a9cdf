CONSTANTS
    p1 = p1
    p2 = p2
    a1 = a1
    g1 = g1
    g2 = g2
    NoPlan = NoPlan
    Plans <- TwoPlans
    Accounts <- OneAccount
    Goods <- TwoGoods
    AccountOf <- SameAccount
    GoodsOf <- SameGoods
    RetryWindowOn = TRUE
    MaxAttempts = 2
    EditedPlans <- OnePlan
    MaxRevision = 3
    MaxFailedSaves = 1
    MaxCrashes = 1
CONSTRAINT CompetitorRunsOnce
SPECIFICATION Spec
INVARIANTS
    OneRunPerGoods
    ExecutionOwnsPlan
    AtMostOnce
    NoHiddenPurchase
PROPERTIES
    ImplementsOrder
CHECK_DEADLOCK FALSE
