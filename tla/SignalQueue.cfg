SPECIFICATION FairQSpec
CONSTANTS
    one = one
    two = two
    first = first
    second = second
    Signals <- TwoSignals
    Services <- TwoServices
    Nobody = Nobody
    Gone = Gone
    NoSignal = NoSignal
    LiveArmed = TRUE
    MaxMishaps = 1
INVARIANTS
    OneExecutorPerSignal
PROPERTIES
    EveryClaimDecided
