SPECIFICATION Spec
CONSTANTS
    trade = trade
    thesis = thesis
    NoEvent = NoEvent
    Events <- Signals
    Trades <- OnlyTrade
    Verdicts <- TwoVerdicts
    BatchLimit = 1
    MaxRetries = 3
    MaxCrashes = 1
    MaxInline = 1
INVARIANTS
    AnalysisIsWhole
    AuditRepeatsExplained
PROPERTIES
    EveryHandOffSettles
