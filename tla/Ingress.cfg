SPECIFICATION ISpec
CONSTANTS
    g = g
    a1 = a1
    a2 = a2
    b1 = b1
    b2 = b2
    first = first
    second = second
    one = one
    Blocks <- ForkBlocks
    Genesis = g
    Parent <- Parents
    Height <- Heights
    Trades <- Swaps
    BlockOf <- BothInB1
    Signals <- Swaps
    NoBlock = NoBlock
    MaxGap = 2
    MaxDepth = 2
    FirstHeads <- Early
    Services <- OneService
    Nobody = Nobody
    Gone = Gone
    NoSignal = NoSignal
    LiveArmed = TRUE
    MaxMishaps = 0
SYMMETRY Symmetry
INVARIANTS
    StreamFollowsChain
PROPERTIES
    DeliveryIsSafe
