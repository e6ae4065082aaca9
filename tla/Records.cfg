SPECIFICATION Spec
CONSTANTS
    MaxLines = 3
    Keep = 1
    MaxQueue = 1
    MaxDay = 2
    MaxTurns = 2
    MaxStops = 1
    KeyOf <- Ids
    NoKey = "none"
    EventIn <- Carried
    NoEvent = "none"
    Copied = {1}
    MaxInvented = 1
    Kols = {"ann", "bob"}
    Batches <- SomeBatches
    MarkRows <- SomeMarks
    SocialRows <- SomeSocials
    OldFills <- Legacy
    SignalsSeen <- SomeSignals
    Settings <- Thresholds
    Style <- Styles
    DayLength = 2
    MaxClock = 3
    Observed <- SomeEvents
    Anonymous = Anonymous
    Consoles = {"c", "d"}
    Behavior <- Habits
    DaySpan = 2
    Rankings = {{"u"}, {"v"}}
    Unwritten = Unwritten
    SlotsADay = 2
    FirstHour = 1
    MaxSlot = 3
    MaxCuts = 1
    Receipts <- SomeReceipts
    NoStrategy = NoStrategy
    NoHolding = NoHolding
    Sources = {"orders", "risk"}
    Clients = {"c", "d"}
    MaxClients = 1
    MaxChanges = 2
    MaxRevision = 3
INVARIANTS
    HoldingIsReceipts
    ChangesAreTold
    LogIsIndexed
    NothingSkipped
    ProfilesAreRight
    CacheIsCurrent
    FilesFollowStore
CHECK_DEADLOCK FALSE
