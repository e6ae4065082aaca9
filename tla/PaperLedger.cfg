SPECIFICATION LSpec
CONSTANTS
    k1 = k1
    k2 = k2
    b1 = b1
    b2 = b2
    b3 = b3
    s1 = s1
    ann = ann
    bob = bob
    tok = tok
    Keys <- TwoKeys
    TokenOf <- OneToken
    KolOf <- Leaders
    Orders <- FourOrders
    KeyOf <- OrderKeys
    KindOf <- Kinds
    TradedAt <- Times
    Prices <- Halves
    Stake = 8
    TokenLimit = 16
    KolLimit = 16
    DailyLimit = 16
    MaxOpen = 1
    MaxAge = 5
    MarkMaxAge = 3
    Policies <- TwoPolicies
    MirrorSells = TRUE
    DayLength = 5
    MaxTime = 7
    Idle = Idle
CHECK_DEADLOCK FALSE
INVARIANTS
    TablesAgree
    LimitsHold
PROPERTIES
    KeepsTheBook
    SinkingIsSold
