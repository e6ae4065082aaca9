SPECIFICATION Spec
CONSTANTS
    buy = buy
    sell = sell
    thesis = thesis
    position = position
    NoEvent = NoEvent
    Keys <- Positions
    CopyEnabled = TRUE
    FullExit = TRUE
    MaxRetries = 2
    BatchLimit = 2
    Events <- Trades
    Kind <- TradeKind
    Key <- TradeKey
    Located <- Trades
    Priced <- Trades
    SidecarEvents <- OnlySell
    StartModes <- AnyMode
    MaxCrashes = 1
INVARIANTS
    DatabasesAgree
PROPERTIES
    NoUndecidedSell
    ArrivalPriority
