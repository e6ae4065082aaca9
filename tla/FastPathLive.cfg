SPECIFICATION Spec
CONSTANTS
    buy = buy
    sell = sell
    thesis = thesis
    position = position
    NoEvent = NoEvent
    Keys <- Positions
    CopyEnabled = TRUE
    FullExit = TRUE
    MaxRetries = 2
    BatchLimit = 1
    Events <- Mixed
    Kind <- MixedKind
    Key <- MixedKey
    Located <- OnlyBuy
    Priced <- OnlyBuy
    SidecarEvents <- Mixed
    StartModes <- Daemon
    MaxCrashes = 1
PROPERTIES
    StaleNeverBought
    EverySignalSettles
