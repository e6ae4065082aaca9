SPECIFICATION Spec
CONSTANTS
    signal = signal
    feishu = feishu
    telegram = telegram
    Console = Console
    NoRow = NoRow
    Events <- OneEvent
    Channels <- TwoPlatforms
    BatchLimit = 1
    MaxRetries = 3
    MaxCrashes = 1
INVARIANTS
    DeliveriesExplained
PROPERTIES
    EveryNotificationSettles
