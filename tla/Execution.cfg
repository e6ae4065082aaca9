SPECIFICATION XSpec
CONSTANTS
    one = one
    two = two
    first = first
    second = second
    NoSnapshot = NoSnapshot
    NoNonce = NoNonce
    NoIntent = NoIntent
    Intents <- TwoIntents
    Executors <- TwoExecutors
    Amount <- UnitAmounts
    Balances <- TwoBalances
    LiveArmed = TRUE
    MaxCrashes = 1
    MaxReorgs = 1
INVARIANTS
    OneTransactionEach
    MoneyStaysWithTransaction
    EndsAsFinalized
PROPERTIES
    RevertedSignalNotSent
    JSpec
