SPECIFICATION Spec
CONSTANTS
    ann = ann
    bob = bob
    known = known
    aliased = aliased
    stray = stray
    near = near
    far = far
    Tolerance = 0
    Nothing = Nothing
    Events <- ThreeEvents
    EventOf <- Told
    Contents <- FileContents
    Broken = Broken
    Gone = Gone
    Exposures <- Answers
    MaxEdits = 2
    MaxNow = 2
    MaxRefusals = 1
    NaN = NaN
    Absent = Absent
    NoProvider = NoProvider
    NoRoute = NoRoute
    Endpoints <- TwoEndpoints
    ChainOf <- OneChain
    Priority <- Order
    Outcomes <- Samples
    Window = 4
    Kept = 4
    SuccessRate = 75
    MaxAge = 0
    Evaluated = 1
    MaxLag = 0
    MaxLatency = 5
    Nobody = Nobody
    MaxTime = 2
    NoId = NoId
    WatchRows <- SomeRows
    Imports <- SomeImports
    KolRows <- SomeKols
    MaxRows = 2
    MaxSaves = 4
    Feeds = {"f", "g"}
    Reserves <- PoolReserves
    Depth = 1
    PublicationAge = 1
    FetchAge = 0
    NoPrice = NoPrice
    MaxHeight = 3
    MaxForks = 1
    MaxClockTime = 1
INVARIANTS
    SettingsAreUsable
    AnswerIsCanonical
    NoEditIsLost
    DuplicateExplained
    IdentityAgrees
    DecisionsAreCautious
    FailureIsRemembered
CHECK_DEADLOCK FALSE
