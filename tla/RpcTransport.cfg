SPECIFICATION RSpec
CONSTANTS
    primary = primary
    other = other
    backup = backup
    trader = trader
    watcher = watcher
    Threads <- TwoThreads
    MethodsOf <- Uses
    Endpoints <- ThreeEndpoints
    Foreign <- Others
    Heads <- ForkedHeads
    Height <- HeightOf
    Block <- BlockAt
    MaxNonce = 1
    MaxDrift = 1
    Lag = 0
    PinHealth = TRUE
    HeaderBehind = TRUE
    None = None
INVARIANTS
    ViewKeepsEndpoint
PROPERTIES
    NonceNeverFalls
    LossSurvived
